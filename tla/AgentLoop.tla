----------------------------- MODULE AgentLoop -----------------------------
(***************************************************************************)
(* One run of the agent loop (src/agent/agentLoop.ts): chat -> tool calls  *)
(* -> execute -> repeat until the model stops asking for tools, the        *)
(* iteration cap is reached, the user interrupts, or a request fails for   *)
(* good.  The loop is single-threaded JavaScript: other callbacks (the     *)
(* user's steer and interrupt) run only while it is suspended at an await, *)
(* so the program counter distinguishes the awaits (Awaits) from the       *)
(* synchronous segments between them.                                      *)
(*                                                                         *)
(* Abstracted: message text, token usage, tool arguments and results, the  *)
(* session event log.  Kept: every await, every early return, the approval *)
(* gate, the retry and failover policy, the steer inbox, the wire's        *)
(* message order and the attempt life cycle the chat's transcript follows. *)
(***************************************************************************)
EXTENDS Naturals, Sequences

CONSTANTS
    Tools,          \* tool names
    Ops,            \* what a tool call may be: a tool with one class of arguments
    UnknownOp,      \* a call that names no registered tool
    MaxIterations,  \* settings.maxIterations
    MaxBatch,       \* bound: tool calls in one assistant message
    MaxSteers,      \* bound: steers accepted during one run
    UseMoa,         \* a request-prep plugin (MoA) is attached to the loop
    NumFallbacks    \* usable entries of settings.fallbackProviders

Kinds      == {"standard", "persistent-write", "destructive", "scheduling"}
Modes      == {"manual", "cautious", "yolo"}
Decisions  == {"allow-once", "allow-always", "deny"}
ErrorKinds == {"retryable", "fatal", "other"}

\* tool.prepare fixes force and revalidate; a tool without it has neither.
OpType == [tool : Tools, kind : Kinds, force : BOOLEAN, always : BOOLEAN,
           prepare : BOOLEAN, revalidate : BOOLEAN]

ASSUME OpsAssumption ==
    /\ Ops \subseteq OpType
    /\ UnknownOp \notin OpType
    /\ \A op \in Ops : op.force \/ op.revalidate => op.prepare

ASSUME BoundsAssumption ==
    /\ MaxIterations \in Nat
    /\ MaxBatch \in Nat
    /\ MaxSteers \in Nat
    /\ NumFallbacks \in Nat
    /\ UseMoa \in BOOLEAN

Calls == Ops \cup {UnknownOp}

VARIABLES
    pc,            \* where run() is
    mode,          \* settings.approvalMode, fixed for the run
    signal,        \* events.signal.aborted
    iterations,
    aborted,       \* AgentRunResult.aborted
    conn,          \* connection of the current request: 0 primary, 1 fallback
    turnConn,      \* run()'s conn, which requests without MoA share
    failoverUsed,
    retryAttempt,
    buffered,      \* the stream already fell back to a buffered request
    partial,       \* the transcript shows output of an attempt not committed
    wire,          \* produced
    batch,         \* result.toolCalls of the last assistant message
    call,          \* index in batch of the call being executed
    allowlist,
    inbox,         \* InjectInbox.pending, as the sequence of its pieces
    sent,          \* steers accepted so far; they are numbered 1..sent
    delivered,     \* steers appended to a tool message, in order
    leftover,      \* AgentRunResult.pendingSteer
    histTool,      \* history holds a tool message with text content
    answers,       \* history of the user's approval decisions
    ran            \* history of the tool executions started

connVars  == <<conn, turnConn, failoverUsed, retryAttempt, buffered, partial>>
steerVars == <<inbox, sent, delivered, leftover>>
grantVars == <<allowlist, answers, ran>>
envVars   == <<mode, histTool>>
vars == <<pc, mode, signal, iterations, aborted, conn, turnConn, failoverUsed,
          retryAttempt, buffered, partial, wire, batch, call, allowlist, inbox,
          sent, delivered, leftover, histTool, answers, ran>>

Awaits == {"prepare", "request", "backoff", "toolPrepare", "approval",
           "revalidate", "execute"}
Finished == {"returned", "threw"}
Running  == {"iterate", "attempt", "call", "gate"}

Assistant(n)  == [role |-> "assistant", n |-> n, text |-> TRUE]
ToolMsg(k, t) == [role |-> "tool", n |-> k, text |-> t]
Messages == [role : {"assistant", "tool"}, n : 0 .. MaxBatch, text : BOOLEAN]

CurOp  == batch[call]
CallId == <<iterations, call>>

Init ==
    /\ pc = "iterate"
    /\ mode \in Modes
    /\ signal = FALSE
    /\ iterations = 0
    /\ aborted = FALSE
    /\ conn = 0 /\ turnConn = 0
    /\ failoverUsed = FALSE
    /\ retryAttempt = 0
    /\ buffered = FALSE
    /\ partial = FALSE
    /\ wire = <<>>
    /\ batch = <<>>
    /\ call = 1
    /\ allowlist = {}
    /\ inbox = <<>>
    /\ sent = 0
    /\ delivered = <<>>
    /\ leftover = <<>>
    /\ histTool \in BOOLEAN
    /\ answers = {}
    /\ ran = {}

-----------------------------------------------------------------------------
(* Leaving the loop.                                                       *)

\* The returned pendingSteer: a hard interrupt drops the inbox, any other
\* end of the run drains it into the result.
Return(interrupted) ==
    /\ pc' = "returned"
    /\ aborted' = interrupted
    /\ inbox' = <<>>
    /\ leftover' = IF interrupted THEN <<>> ELSE inbox
    /\ UNCHANGED <<sent, delivered>>

\* A run that throws hands nothing back: the chat reports the error and drops
\* the loop object, and with it the steers that still wait in its inbox.
DropLoop ==
    /\ inbox' = <<>>
    /\ UNCHANGED <<sent, delivered, leftover>>

Throw ==
    /\ pc' = "threw"
    /\ DropLoop
    /\ UNCHANGED aborted

-----------------------------------------------------------------------------
(* The top of the while loop.                                              *)

CanRide == histTool \/ \E i \in DOMAIN wire : wire[i].role = "tool" /\ wire[i].text

\* Mutant: the piece that found nothing to ride is not put back.
DrainSteerNoRestore ==
    /\ delivered' = IF CanRide THEN delivered \o inbox ELSE delivered
    /\ inbox' = <<>>
    /\ UNCHANGED <<sent, leftover>>

\* The steer drained here rides the last tool message of the whole wire;
\* with none to ride, restore() puts it back.
DrainSteer ==
    IF inbox # <<>> /\ CanRide
    THEN /\ delivered' = delivered \o inbox
         /\ inbox' = <<>>
         /\ UNCHANGED <<sent, leftover>>
    ELSE UNCHANGED steerVars

StopAtTop ==
    /\ pc = "iterate"
    /\ iterations >= MaxIterations \/ signal
    /\ Return(iterations < MaxIterations /\ signal)
    /\ UNCHANGED <<envVars, signal, iterations, connVars, wire, batch, call, grantVars>>

\* Mutant: every iteration starts again from the primary connection.
IterateFromPrimary ==
    /\ pc = "iterate"
    /\ iterations < MaxIterations
    /\ ~signal
    /\ iterations' = iterations + 1
    /\ DrainSteer
    /\ pc' = IF UseMoa THEN "prepare" ELSE "attempt"
    /\ conn' = 0
    /\ retryAttempt' = 0
    /\ UNCHANGED <<envVars, signal, aborted, turnConn, failoverUsed, buffered,
                   partial, wire, batch, call, grantVars>>

\* requestWithResilience is entered with a fresh retry budget, on the run's
\* connection or, under MoA, on a new copy of the aggregator's.
Iterate ==
    /\ pc = "iterate"
    /\ iterations < MaxIterations
    /\ ~signal
    /\ iterations' = iterations + 1
    /\ DrainSteer
    /\ pc' = IF UseMoa THEN "prepare" ELSE "attempt"
    /\ conn' = IF UseMoa THEN 0 ELSE turnConn
    /\ retryAttempt' = 0
    /\ UNCHANGED <<envVars, signal, aborted, turnConn, failoverUsed, buffered,
                   partial, wire, batch, call, grantVars>>

\* prepareIteration() came back; advisors that failed are notes, not errors.
Prepared ==
    /\ pc = "prepare"
    /\ IF signal THEN Return(TRUE)
                 ELSE pc' = "attempt" /\ UNCHANGED <<aborted, steerVars>>
    /\ UNCHANGED <<envVars, signal, iterations, connVars, wire, batch, call, grantVars>>

\* aggregatorProvider() throws when the preset names no configured provider,
\* which the run's settings decide before its first request.
PrepareFails ==
    /\ pc = "prepare"
    /\ iterations = 1
    /\ Throw
    /\ UNCHANGED <<envVars, signal, iterations, connVars, wire, batch, call, grantVars>>

-----------------------------------------------------------------------------
(* requestWithResilience: one attempt, its outcome, retry and failover.    *)

\* Mutant: the budget counts retries instead of attempts.
MaxAttemptsRetries(kind) ==
    CASE kind = "retryable" -> 4
      [] kind = "fatal"     -> 2
      [] kind = "other"     -> 3

MaxAttempts(kind) ==
    CASE kind = "retryable" -> 3
      [] kind = "fatal"     -> 1
      [] kind = "other"     -> 2

AttemptStart ==
    /\ pc = "attempt"
    /\ pc' = "request"
    /\ buffered' = FALSE
    /\ UNCHANGED <<envVars, signal, iterations, aborted, conn, turnConn,
                   failoverUsed, retryAttempt, partial, wire, batch, call,
                   steerVars, grantVars>>

\* onToken and its kin; the chat ignores them once the run is interrupted.
Token ==
    /\ pc = "request"
    /\ ~signal
    /\ partial' = TRUE
    /\ UNCHANGED <<pc, envVars, signal, iterations, aborted, conn, turnConn,
                   failoverUsed, retryAttempt, buffered, wire, batch, call,
                   steerVars, grantVars>>

\* Mutant: a failed attempt leaves its output in the transcript.
DiscardedNever == partial

\* onAttemptDiscard: the chat restores its checkpoint, unless interrupted.
Discarded == IF signal THEN partial ELSE FALSE

\* A stream that broke after emitting is replaced by one buffered request:
\* onReset discards the attempt and starts another.
StreamReset ==
    /\ pc = "request"
    /\ ~buffered /\ ~signal
    /\ buffered' = TRUE
    /\ partial' = Discarded
    /\ UNCHANGED <<pc, envVars, signal, iterations, aborted, conn, turnConn,
                   failoverUsed, retryAttempt, wire, batch, call, steerVars,
                   grantVars>>

Batches == UNION {[1 .. n -> Calls] : n \in 0 .. MaxBatch}

\* The completion is committed and its assistant message pushed; with no
\* tool calls the model is done.
Reply(calls) ==
    /\ pc = "request"
    /\ partial' = FALSE
    /\ wire' = Append(wire, Assistant(Len(calls)))
    /\ batch' = calls
    /\ call' = 1
    /\ IF calls = <<>> THEN Return(FALSE)
                       ELSE pc' = "call" /\ UNCHANGED <<aborted, steerVars>>
    /\ UNCHANGED <<envVars, signal, iterations, conn, turnConn, failoverUsed,
                   retryAttempt, buffered, grantVars>>

\* Mutant: the interrupt is not looked at before the backoff.
CanRetryInterrupted(kind) == retryAttempt + 1 < MaxAttempts(kind)

CanRetry(kind)    == ~signal /\ retryAttempt + 1 < MaxAttempts(kind)
CanFailover(kind) == ~signal /\ ~CanRetry(kind) /\ ~failoverUsed /\ NumFallbacks > 0

\* The failed attempt is discarded; it is repeated after a backoff, or sent
\* to the fallback with a fresh budget (MoA's connection is this call's own
\* copy, so only this call moves), or given up.
RequestFails(kind) ==
    /\ pc = "request"
    /\ partial' = Discarded
    /\ \/ /\ CanRetry(kind)
          /\ retryAttempt' = retryAttempt + 1
          /\ pc' = "backoff"
          /\ UNCHANGED <<aborted, steerVars, conn, turnConn, failoverUsed>>
       \/ /\ CanFailover(kind)
          /\ failoverUsed' = TRUE
          /\ conn' = 1
          /\ turnConn' = IF UseMoa THEN turnConn ELSE 1
          /\ retryAttempt' = 0
          /\ pc' = "attempt"
          /\ UNCHANGED <<aborted, steerVars>>
       \/ /\ ~CanRetry(kind) /\ ~CanFailover(kind)
          /\ Throw
          /\ UNCHANGED <<conn, turnConn, failoverUsed, retryAttempt>>
    /\ UNCHANGED <<envVars, signal, iterations, buffered, wire, batch, call, grantVars>>

\* Mutant: the repeated attempt starts with a fresh budget.
BackoffEndsFresh ==
    /\ pc = "backoff"
    /\ pc' = "attempt"
    /\ retryAttempt' = 0
    /\ UNCHANGED <<envVars, signal, iterations, aborted, conn, turnConn,
                   failoverUsed, buffered, partial, wire, batch, call,
                   steerVars, grantVars>>

\* The sleep is not interruptible and nothing is checked when it ends.
BackoffEnds ==
    /\ pc = "backoff"
    /\ pc' = "attempt"
    /\ UNCHANGED <<envVars, signal, iterations, aborted, connVars, wire, batch,
                   call, steerVars, grantVars>>

-----------------------------------------------------------------------------
(* executeTool and the batch loop around it.                               *)

\* The tool message is pushed; an interrupt ends the batch after it, the
\* last call ends the iteration.
Answer(text) ==
    /\ wire' = Append(wire, ToolMsg(call, text))
    /\ IF signal
       THEN Return(TRUE) /\ call' = call
       ELSE /\ UNCHANGED <<aborted, steerVars>>
            /\ pc' = IF call = Len(batch) THEN "iterate" ELSE "call"
            /\ call' = IF call = Len(batch) THEN call ELSE call + 1
    /\ UNCHANGED <<envVars, signal, iterations, connVars, batch>>

\* What the pre-execute gate asks before it lets a call run.
MustAsk(op) == op.force \/ (mode # "yolo" /\ (mode = "manual" \/ op.kind # "standard"))

\* Mutant: "always" is remembered for the tool, whatever the kind.
NeedsApprovalByTool(op) ==
    MustAsk(op) /\ (op.force \/ \A k \in Kinds : <<op.tool, k>> \notin allowlist)

NeedsApproval(op) == MustAsk(op) /\ (op.force \/ <<op.tool, op.kind>> \notin allowlist)

\* Mutant: the second listener is missing.
PassUnchecked(newAllow, newAnswers) ==
    /\ allowlist' = newAllow
    /\ answers' = newAnswers
    /\ pc' = IF CurOp.revalidate THEN "revalidate" ELSE "execute"
    /\ ran' = IF CurOp.revalidate THEN ran
              ELSE ran \cup {[id |-> CallId, op |-> CurOp]}
    /\ UNCHANGED <<envVars, signal, iterations, aborted, connVars, wire, batch,
                   call, steerVars>>

\* The second pre-execute listener and what follows it.  Between this check
\* and execute() the loop is suspended only in revalidate().
PassAbortCheck(newAllow, newAnswers) ==
    /\ allowlist' = newAllow
    /\ answers' = newAnswers
    /\ IF signal
       THEN Answer(TRUE) /\ ran' = ran
       ELSE /\ pc' = IF CurOp.revalidate THEN "revalidate" ELSE "execute"
            /\ ran' = IF CurOp.revalidate THEN ran
                      ELSE ran \cup {[id |-> CallId, op |-> CurOp]}
            /\ UNCHANGED <<envVars, signal, iterations, aborted, connVars, wire,
                           batch, call, steerVars>>

\* Mutant: a call that names no tool is skipped without an answer.
CallUnknownSilently ==
    /\ pc = "call"
    /\ CurOp = UnknownOp
    /\ pc' = IF call = Len(batch) THEN "iterate" ELSE "call"
    /\ call' = IF call = Len(batch) THEN call ELSE call + 1
    /\ UNCHANGED <<envVars, signal, iterations, aborted, connVars, wire, batch,
                   steerVars, grantVars>>

CallUnknown ==
    /\ pc = "call"
    /\ CurOp = UnknownOp
    /\ Answer(TRUE)
    /\ UNCHANGED grantVars

CallTool ==
    /\ pc = "call"
    /\ CurOp # UnknownOp
    /\ pc' = IF CurOp.prepare THEN "toolPrepare" ELSE "gate"
    /\ UNCHANGED <<envVars, signal, iterations, aborted, connVars, wire, batch,
                   call, steerVars, grantVars>>

ToolPrepared ==
    /\ pc = "toolPrepare"
    /\ pc' = "gate"
    /\ UNCHANGED <<envVars, signal, iterations, aborted, connVars, wire, batch,
                   call, steerVars, grantVars>>

ToolPrepareThrows ==
    /\ pc = "toolPrepare"
    /\ Answer(TRUE)
    /\ UNCHANGED grantVars

GateAsks ==
    /\ pc = "gate"
    /\ NeedsApproval(CurOp)
    /\ pc' = "approval"
    /\ UNCHANGED <<envVars, signal, iterations, aborted, connVars, wire, batch,
                   call, steerVars, grantVars>>

GatePasses ==
    /\ pc = "gate"
    /\ ~NeedsApproval(CurOp)
    /\ PassAbortCheck(allowlist, answers)

\* The approval card, its timeout and the interrupt all resolve the same
\* promise; an interrupt resolves it with "deny".
Decide(d) ==
    LET log   == answers \cup {[id |-> CallId, op |-> CurOp, decision |-> d]}
        grant == IF d = "allow-always" THEN {<<CurOp.tool, CurOp.kind>>} ELSE {}
    IN  /\ pc = "approval"
        /\ signal => d = "deny"
        /\ IF d = "deny" \/ (d = "allow-always" /\ ~CurOp.always)
           THEN Answer(TRUE) /\ answers' = log /\ UNCHANGED <<allowlist, ran>>
           ELSE PassAbortCheck(allowlist \cup grant, log)

\* revalidate() says the approved snapshot is still current.
RevalidateOk ==
    /\ pc = "revalidate"
    /\ pc' = "execute"
    /\ ran' = ran \cup {[id |-> CallId, op |-> CurOp]}
    /\ UNCHANGED <<envVars, signal, iterations, aborted, connVars, wire, batch,
                   call, steerVars, allowlist, answers>>

RevalidateStale ==
    /\ pc = "revalidate"
    /\ Answer(TRUE)
    /\ UNCHANGED grantVars

\* execute() returned or threw; only a native vision result is not text.
ToolDone(text) ==
    /\ pc = "execute"
    /\ Answer(text)
    /\ UNCHANGED grantVars

-----------------------------------------------------------------------------
(* Callbacks of the chat, run while the loop is suspended.                 *)

Steer ==
    /\ pc \in Awaits
    /\ sent < MaxSteers
    /\ sent' = sent + 1
    /\ inbox' = Append(inbox, sent + 1)
    /\ UNCHANGED <<pc, envVars, signal, iterations, aborted, connVars, wire,
                   batch, call, delivered, leftover, grantVars>>

Interrupt ==
    /\ pc \in Awaits
    /\ ~signal
    /\ signal' = TRUE
    /\ UNCHANGED <<pc, envVars, iterations, aborted, connVars, wire, batch,
                   call, steerVars, grantVars>>

-----------------------------------------------------------------------------
LoopStep ==
    \/ StopAtTop \/ Iterate \/ Prepared \/ PrepareFails
    \/ AttemptStart \/ BackoffEnds
    \/ \E calls \in Batches : Reply(calls)
    \/ \E kind \in ErrorKinds : RequestFails(kind)
    \/ CallUnknown \/ CallTool \/ ToolPrepared \/ ToolPrepareThrows
    \/ GateAsks \/ GatePasses
    \/ \E d \in Decisions : Decide(d)
    \/ RevalidateOk \/ RevalidateStale
    \/ \E text \in BOOLEAN : ToolDone(text)

Ended == pc \in Finished /\ UNCHANGED vars

Next == LoopStep \/ Token \/ StreamReset \/ Steer \/ Interrupt \/ Ended

Spec == Init /\ [][Next]_vars

\* Every await completes: requests and MCP calls time out, the approval
\* handler must always resolve, tools end.
FairSpec == Spec /\ WF_vars(LoopStep)
-----------------------------------------------------------------------------
(* Properties.                                                             *)

\* Type invariant of the loop's state.
TypeOK ==
    /\ pc \in Awaits \cup Running \cup Finished
    /\ mode \in Modes
    /\ signal \in BOOLEAN
    /\ iterations \in 0 .. MaxIterations
    /\ aborted \in BOOLEAN
    /\ conn \in 0 .. 1
    /\ turnConn \in 0 .. 1
    /\ failoverUsed \in BOOLEAN
    /\ retryAttempt \in 0 .. 2
    /\ buffered \in BOOLEAN
    /\ partial \in BOOLEAN
    /\ wire \in Seq(Messages)
    /\ batch \in Seq(Calls)
    /\ Len(batch) <= MaxBatch
    /\ call \in Nat \ {0}
    /\ allowlist \subseteq Tools \X Kinds
    /\ inbox \in Seq(Nat)
    /\ sent \in 0 .. MaxSteers
    /\ delivered \in Seq(Nat)
    /\ leftover \in Seq(Nat)
    /\ histTool \in BOOLEAN
    /\ answers \subseteq [id : (Nat \X Nat), op : Ops, decision : Decisions]
    /\ ran \subseteq [id : (Nat \X Nat), op : Ops]

\* The user allowed this very call: a decision other than "deny", and not an
\* "always" the tool does not accept.
AllowedCall(r) ==
    \E a \in answers : /\ a.id = r.id /\ a.op = r.op
                       /\ a.decision # "deny"
                       /\ a.decision = "allow-always" => a.op.always

\* The user allowed this tool and kind for good, on a tool that accepts it.
AllowedAlways(r) ==
    \E a \in answers : /\ a.op.tool = r.op.tool /\ a.op.kind = r.op.kind
                       /\ a.decision = "allow-always" /\ a.op.always

\* No tool call that the approval mode gates is executed without the user's
\* decision: its own, or, unless the call forces its own prompt, an earlier
\* "always" for the same tool and kind (needsApproval and the gate around it).
NoUnapprovedRun ==
    \A r \in ran : MustAsk(r.op) =>
        AllowedCall(r) \/ (~r.op.force /\ AllowedAlways(r))

\* Message i of w is an assistant message whose calls 1..n are answered, in
\* order, by the messages right after it.
AnsweredAt(w, i, n) ==
    \A k \in 1 .. n : /\ i + k <= Len(w)
                      /\ w[i + k].role = "tool" /\ w[i + k].n = k

WellFormed(w) ==
    \A i \in 1 .. Len(w) : w[i].role = "assistant" => AnsweredAt(w, i, w[i].n)

\* Whenever a request goes out, and whenever the run returns without having
\* been interrupted, every tool call on the wire has exactly its results
\* behind it: providers reject a wire with a dangling or misplaced result.
WireAnswered ==
    pc \in {"prepare", "attempt", "request", "backoff"} \/ (pc = "returned" /\ ~aborted)
        => WellFormed(wire)

\* The first n steers accepted, in order.
FirstSteers(n) == [i \in 1 .. n |-> i]

\* The ends of a run that drop the steers still waiting: an interrupt, and an
\* error, after which ChatApp looks into the inbox no more.
DropsSteers == aborted \/ pc = "threw"

\* Steers are neither duplicated nor reordered, nor lost while the run goes on
\* or when it ends by itself: what rode a tool message, what was handed back
\* and what is still pending are, in this order, all the steers accepted.  A
\* run that was interrupted or threw hands none back, and what the model had
\* been told are the first ones, without a gap.
SteerFIFO ==
    IF DropsSteers
    THEN /\ leftover = <<>> /\ inbox = <<>>
         /\ \E n \in 0 .. sent : delivered = FirstSteers(n)
    ELSE delivered \o leftover \o inbox = FirstSteers(sent)

\* A transcript never keeps output of an attempt that was not committed:
\* retry, failover and buffered fallback start from the restored checkpoint.
\* After an interrupt the chat keeps what it showed.
NoOrphanOutput == partial => pc = "request" \/ signal

\* The failover is turn-scoped and happens once: without MoA every request
\* after it goes to the fallback and none before it does.
TurnConnection ==
    ~UseMoa /\ pc \in {"attempt", "request", "backoff"} =>
        /\ conn = turnConn
        /\ failoverUsed <=> (conn = 1)

\* Once interrupted, the loop lets no further tool call past its gate; the
\* call whose revalidate() was already pending may still be executed, since
\* nothing is checked between the two.
NoRunAfterInterrupt ==
    [][signal /\ pc' \in {"revalidate", "execute"}
        => pc \in {"revalidate", "execute"}]_vars

\* Once interrupted, the loop starts no further iteration and repeats no
\* failed request (a retry whose backoff had begun is still sent).
InterruptEndsRun ==
    [][signal => /\ iterations' = iterations
                 /\ pc = "request" => pc' \notin {"attempt", "backoff"}]_vars

\* The run ends, returning or throwing, whatever the model, the tools and the
\* user do: iterations, retries and batches are bounded.
Terminates == <>(pc \in Finished)
=============================================================================
