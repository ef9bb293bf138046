------------------------------ MODULE MoaEngine ------------------------------
(***************************************************************************)
(* The mixture of agents (agent/moaLoop.ts): before every request of a run  *)
(* the engine asks the reference models for advice, or reuses the advice it *)
(* has, as the cadence of the preset says.  The advice rides on a copy of   *)
(* the request to the aggregator.                                           *)
(*                                                                          *)
(* The conversation is abstracted to its last real user message (turn) and  *)
(* the number of messages after it (step): the signatures of the code.      *)
(***************************************************************************)
EXTENDS Naturals, FiniteSets

CONSTANTS
    Refs,       \* enabled reference models
    Fanouts,    \* cadences: 0 is user_turn, 1 per_iteration, N >= 2 every_n:N
    Policies,   \* "loud", "silent"
    Workers,    \* MOA_MAX_REFERENCE_WORKERS
    Attempts,   \* attempts of one advisor
    None,
    MaxTurns,   \* bound: real user messages of a run
    MaxSteps    \* bound: iterations of a turn

\* coerceMoaFanout: every_n:1 is per_iteration, junk is user_turn.
UserTurn     == 0
PerIteration == 1

VARIABLES
    fanout, degraded,     \* the preset
    turn, step,           \* the conversation
    cadence,              \* iterations counted for every_n, and for what
    cache,                \* the advice kept and its key
    refs,                 \* the fan-out under way
    phase,                \* "prepare", "fanout", "acting", "ended"
    guidance,             \* what the request to the aggregator carries
    moaAborted,
    asked                 \* ghost: fan-outs of this turn

moaVars == <<fanout, degraded, turn, step, cadence, cache, refs, phase, guidance, moaAborted, asked>>

Outcomes == {"ok", "failed", "skipped"}
RefState == [state : {"queued", "calling"} \cup Outcomes, attempt : 0 .. Attempts]
Advice   == [turn : 1 .. MaxTurns, step : 1 .. MaxSteps, out : [Refs -> Outcomes]]

\* moaViewSignature of the turn prefix, or of the whole view.
Key(t, s) == IF fanout = UserTurn THEN <<t>> ELSE <<t, s>>

MoaInit ==
    /\ fanout \in Fanouts /\ degraded \in Policies
    /\ turn = 1 /\ step = 1
    /\ cadence = [turn |-> 0, step |-> 0, count |-> 0]
    /\ cache = None /\ refs = None /\ guidance = None
    /\ phase = "prepare" /\ moaAborted = FALSE /\ asked = 0

\* moaCadenceDecision: the counter starts again with a turn, and a retry of the
\* same view does not use up a slot.
Counted(c) ==
    [turn |-> turn, step |-> step,
     count |-> IF c.turn # turn THEN 1 ELSE IF c.step # step THEN c.count + 1 ELSE c.count]

OnCadence(c) == fanout \in {UserTurn, PerIteration} \/ (c.count - 1) % fanout = 0

Hit(c) == cache # None /\ (cache.key = Key(turn, step) \/ ~OnCadence(c))

Good(out) == {r \in Refs : out[r] = "ok"}

\* Guidance names the advisors that answered; when none did, the notice or nothing.
Guided(a) ==
    IF Good(a.out) = {} /\ degraded = "silent" THEN None
    ELSE [turn |-> a.turn, step |-> a.step, from |-> Good(a.out),
          notice |-> degraded = "loud" /\ Good(a.out) # Refs]

\* prepareIteration up to the fan-out.
Prepare ==
    LET c == IF fanout = PerIteration THEN cadence ELSE Counted(cadence) IN
    /\ phase = "prepare"
    /\ cadence' = c
    /\ IF Hit(c)
       THEN phase' = "acting" /\ guidance' = Guided(cache.advice) /\ UNCHANGED <<refs, asked>>
       ELSE /\ phase' = "fanout" /\ asked' = asked + 1 /\ guidance' = guidance
            /\ refs' = [r \in Refs |-> [state |-> "queued", attempt |-> 0]]
    /\ UNCHANGED <<fanout, degraded, turn, step, cache, moaAborted>>

Ref(r, s, n) == refs' = [refs EXCEPT ![r] = [state |-> s, attempt |-> n]]
MoaRest == UNCHANGED <<fanout, degraded, turn, step, cadence, cache, phase, guidance, moaAborted, asked>>

\* A worker takes a model: it asks it, or skips it after an abort.
Pump(r) ==
    /\ phase = "fanout" /\ refs[r].state = "queued"
    /\ Cardinality({q \in Refs : refs[q].state = "calling"}) < Workers
    /\ IF moaAborted THEN Ref(r, "skipped", 0) ELSE Ref(r, "calling", 1)
    /\ MoaRest

\* callReference: an answer, a note, or another attempt after a backoff.
Advised(r, ok) ==
    /\ phase = "fanout" /\ refs[r].state = "calling"
    /\ CASE ok                                        -> Ref(r, "ok", refs[r].attempt)
         [] ~ok /\ moaAborted                         -> Ref(r, "skipped", refs[r].attempt)
         [] ~ok /\ ~moaAborted /\ refs[r].attempt < Attempts -> Ref(r, "calling", refs[r].attempt + 1)
         [] OTHER                                     -> Ref(r, "failed", refs[r].attempt)
    /\ MoaRest

\* A permanent error is not tried again.
Refused(r) ==
    /\ phase = "fanout" /\ refs[r].state = "calling" /\ ~moaAborted
    /\ Ref(r, "failed", refs[r].attempt)
    /\ MoaRest

\* All advisors are done.  A partial snapshot is never cached.
FannedOut ==
    LET a == [turn |-> turn, step |-> step, out |-> [r \in Refs |-> refs[r].state]] IN
    /\ phase = "fanout" /\ \A r \in Refs : refs[r].state \in Outcomes
    /\ cache' = IF \E r \in Refs : refs[r].state = "skipped" THEN None
                ELSE [key |-> Key(turn, step), advice |-> a]
    /\ phase' = "acting" /\ guidance' = Guided(a) /\ refs' = None
    /\ UNCHANGED <<fanout, degraded, turn, step, cadence, moaAborted, asked>>

\* The aggregator acts; the loop goes on with tool results or with a real user
\* message that was steered in, or the run ends.  An abort was seen before.
Act(next) ==
    /\ phase = "acting" /\ guidance' = None
    /\ CASE moaAborted \/ next = "end" -> phase' = "ended" /\ UNCHANGED <<turn, step, asked>>
         [] ~moaAborted /\ next = "tools" ->
              step < MaxSteps /\ step' = step + 1 /\ phase' = "prepare" /\ UNCHANGED <<turn, asked>>
         [] ~moaAborted /\ next = "user" ->
              turn < MaxTurns /\ turn' = turn + 1 /\ step' = 1 /\ phase' = "prepare" /\ asked' = 0
    /\ UNCHANGED <<fanout, degraded, cadence, cache, refs, moaAborted>>

MoaAbort ==
    /\ ~moaAborted /\ moaAborted' = TRUE
    /\ UNCHANGED <<fanout, degraded, turn, step, cadence, cache, refs, phase, guidance, asked>>

FanOutStep == FannedOut \/ \E r \in Refs : Pump(r) \/ Refused(r) \/ \E ok \in BOOLEAN : Advised(r, ok)

MoaNext == Prepare \/ FanOutStep \/ MoaAbort \/ \E n \in {"tools", "user", "end"} : Act(n)

\* Every call ends: the requests time out and the attempts are bounded.
MoaSpec == MoaInit /\ [][MoaNext]_moaVars /\ WF_moaVars(FanOutStep)

-----------------------------------------------------------------------------
MoaTypeOK ==
    /\ fanout \in Fanouts /\ degraded \in Policies
    /\ turn \in 1 .. MaxTurns /\ step \in 1 .. MaxSteps
    /\ refs = None \/ refs \in [Refs -> RefState]
    /\ cache = None \/ cache.advice \in Advice
    /\ phase \in {"prepare", "fanout", "acting", "ended"} /\ moaAborted \in BOOLEAN

\* The aggregator never acts on advice given for an earlier message of the user,
\* and with per_iteration never on advice for an earlier state of the work;
\* with every_n it is at most N - 1 iterations old, unless an advisor of the
\* fan-out in between was interrupted.
AdviceCurrent ==
    phase = "acting" /\ guidance # None =>
        /\ guidance.turn = turn
        /\ fanout = PerIteration => guidance.step = step
        /\ fanout \notin {UserTurn, PerIteration} => step - guidance.step < fanout

\* What is reused is whole: no advisor of it was interrupted.  And a turn under
\* user_turn asks its advisors once, unless the run was aborted.
AdviceWhole ==
    /\ cache # None => \A r \in Refs : cache.advice.out[r] # "skipped"
    /\ fanout = UserTurn /\ ~moaAborted => asked <= 1

\* A fan-out ends, with failing advisors and after an abort too.
\* Checked as: Waits leads to ~Waits.
Waits == phase = "fanout"
=============================================================================
