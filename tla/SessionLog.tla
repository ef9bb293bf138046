----------------------------- MODULE SessionLog -----------------------------
(***************************************************************************)
(* One conversation and its two records: the wire history `messages` the   *)
(* model is sent and the event log kept beside it, with the commands that  *)
(* cut them (/undo, /retry, an edited turn), /compress, the rolling        *)
(* summary that shortens what is sent, and the file a reload resumes from. *)
(*                                                                         *)
(* A message is [role, turn, calls]: the calls an assistant asked for, or  *)
(* the one call a tool message answers.  An event is [type, turn, call].   *)
(* Turn and step markers of the log carry no message and are left out.     *)
(* Pictured are the turns sent with an image, Breaks what may go wrong or  *)
(* be asked besides whole turns.  MaxTurns, MaxSteps and MaxBatch bound    *)
(* the prompts, the requests of a turn and the calls of one answer.        *)
(***************************************************************************)
EXTENDS Integers, Sequences, FiniteSets, SequencesExt, Places

CONSTANTS MaxTurns, MaxSteps, MaxBatch, ProtectLastN, Pictured, Breaks, None

VARIABLES messages,   \* the wire history, without system prompts
          events,     \* the event log, cut and appended beside it
          panel,      \* the user turns of the transcript
          cache,      \* the rolling summary: how much of the history it replaces
          run,        \* the run under way
          file,       \* the session file
          asked       \* prompts sent so far, the bound of the model

logVars == <<messages, events, panel, cache, run, file, asked>>

Brief == 0
Msg(role, t, calls) == [role |-> role, turn |-> t, calls |-> calls]
Event(type, t, call) == [type |-> type, turn |-> t, call |-> call]
NoCache == [upto |-> 0, told |-> {}]

LogInit ==
    /\ messages = <<>> /\ events = <<>> /\ panel = <<>> /\ cache = NoCache
    /\ run = None /\ file = None /\ asked = 0

-----------------------------------------------------------------------------
(* From the log back to messages. *)

\* A call joins the assistant message before it only when nothing came
\* between, otherwise it opens one of its own; any other event opens a message.
Opens(log, i) == log[i].type = "call" => (i = 1 \/ log[i - 1].type \notin {"assistant", "call"})

\* What joins the message that event i opens, itself included, and the message.
Group(log, i) == {j \in i .. Len(log) : \A k \in i + 1 .. j : ~Opens(log, k)}

Told(log, i) ==
    LET ids == [j \in DOMAIN log |-> log[j].call]
    IN  Msg(IF log[i].type = "call" THEN "assistant" ELSE log[i].type, log[i].turn,
            KeepAt(ids, {j \in Group(log, i) : log[j].type \in {"call", "tool"}}))

ToWire(log) ==
    KeepAt([i \in DOMAIN log |-> Told(log, i)], {i \in DOMAIN log : Opens(log, i)})

\* The stored messages, unless the log tells a longer story.
Resumed(s) ==
    LET told == ToWire(s.events)
    IN  IF \/ \E i \in DOMAIN s.messages : s.messages[i].role = "user" /\ s.messages[i].turn \in Pictured
           \/ Len(told) <= Len(s.messages)
        THEN s.messages
        ELSE told

\* The longest part of the log that weighs no more than n messages.
Truncated(log, n) ==
    LET weight(i) == Cardinality({j \in 1 .. i : log[j].type # "call"})
        ends      == {i \in DOMAIN log : log[i].type # "call" /\ weight(i) <= n}
    IN  SubSeq(log, 1, CHOOSE i \in ends \cup {0} : \A j \in ends : j <= i)

-----------------------------------------------------------------------------
(* The rolling summary. *)

Valid(h, c)   == IF c.upto > 0 /\ Len(h) >= c.upto THEN c ELSE NoCache
Note          == Msg("system", Brief, <<>>)
Applied(h, c) ==
    LET cur == Valid(h, c)
    IN  IF cur = NoCache THEN h ELSE <<Note>> \o SubSeq(h, cur.upto + 1, Len(h))

\* Tails begin at a user message; 0 when nothing may be folded.
Boundaries(base)   == {0} \cup {s \in 1 .. Len(base) - 1 : base[s + 1].role = "user"}
ProtectedStart(base, n) == CHOOSE s \in Boundaries(base) :
                             /\ s = 0 \/ s <= Len(base) - n
                             /\ \A r \in Boundaries(base) : r <= Len(base) - n => r <= s

\* The summary of the region before start replaces it from now on.
Folded(c, base, start) ==
    [upto |-> c.upto + start,
     told |-> c.told \cup ({base[i] : i \in 1 .. start} \ {Note})]

-----------------------------------------------------------------------------
(* A run. *)

Idle == run = None

Ask ==
    /\ Idle
    /\ asked < MaxTurns
    /\ asked' = asked + 1
    /\ messages' = Append(messages, Msg("user", asked', <<>>))
    /\ events' = Append(events, Event("user", asked', None))
    /\ panel' = Append(panel, asked')
    /\ run' = [turn |-> asked', stage |-> "prepare", step |-> 0, todo |-> <<>>, made |-> <<>>, sent |-> <<>>]
    /\ UNCHANGED <<cache, file>>

Send(c) ==
    /\ cache' = c
    /\ run' = [run EXCEPT !.stage = "loop", !.sent = Applied(messages, c)]
    /\ UNCHANGED <<messages, events, panel, file, asked>>

\* Nothing to fold, or the summariser failed: the run goes on uncompressed,
\* a stale summary dropped.
Uncompressed ==
    /\ ~Idle /\ run.stage = "prepare"
    /\ Send(IF Len(messages) < 2 THEN cache ELSE Valid(messages, cache))

\* The verbatim tail is the longer of the last messages and the last tokens.
Compact ==
    /\ ~Idle /\ run.stage = "prepare"
    /\ "fold" \in Breaks
    /\ Len(messages) >= 2
    /\ LET cur  == Valid(messages, cache)
           base == Applied(messages, cur)
       IN  \E byTokens \in Boundaries(base) \ {0} :
             LET byCount == ProtectedStart(base, ProtectLastN)
                 start   == IF byTokens < byCount THEN byTokens ELSE byCount
             IN  /\ start > 0
                 /\ Send(Folded(cur, base, start))

Calls(n) == [k \in 1 .. n |-> <<run.turn, run.step + 1, k>>]

\* The model answers, with n tool calls.
Answer(n) ==
    /\ ~Idle /\ run.stage = "loop" /\ run.todo = <<>> /\ run.step < MaxSteps
    /\ run' = [run EXCEPT !.step = @ + 1, !.todo = Calls(n),
                          !.stage = IF n = 0 THEN "end" ELSE "loop",
                          !.made = Append(@, Msg("assistant", run.turn, Calls(n)))]
    /\ events' = Append(events, Event("assistant", run.turn, None))
    /\ UNCHANGED <<messages, panel, cache, file, asked>>

\* One call of the batch begins, and its result arrives.
CallBegins ==
    /\ ~Idle /\ run.stage = "loop" /\ run.todo # <<>>
    /\ run' = [run EXCEPT !.stage = "calling"]
    /\ events' = Append(events, Event("call", run.turn, Head(run.todo)))
    /\ UNCHANGED <<messages, panel, cache, file, asked>>

CallEnds ==
    /\ ~Idle /\ run.stage = "calling"
    /\ LET call == Head(run.todo)
       IN  /\ events' = Append(events, Event("tool", run.turn, call))
           /\ run' = [run EXCEPT !.stage = "loop", !.todo = Tail(@),
                                 !.made = Append(@, Msg("tool", run.turn, <<call>>))]
    /\ UNCHANGED <<messages, panel, cache, file, asked>>

Stored(m) == [messages |-> m, events |-> events, panel |-> panel, cache |-> cache]

\* A run that ended well, or at its cap, adds what it made to the wire.
Commit ==
    /\ ~Idle
    /\ \/ run.stage = "end"
       \/ run.stage = "loop" /\ run.todo = <<>> /\ run.step = MaxSteps
    /\ messages' = messages \o run.made
    /\ file' = Stored(messages')
    /\ run' = None
    /\ UNCHANGED <<events, panel, cache, asked>>

\* A failed request, and a stopped run once it unwinds: what was made is
\* gone, what was logged is saved.
Unwind ==
    /\ file' = Stored(messages)
    /\ run' = None
    /\ UNCHANGED <<messages, events, panel, cache, asked>>

Fail ==
    /\ "fail" \in Breaks
    /\ ~Idle /\ run.stage = "loop" /\ run.todo = <<>>
    /\ Unwind

Stop ==
    /\ "stop" \in Breaks
    /\ ~Idle /\ run.stage \in {"prepare", "loop", "calling"}
    /\ Unwind

-----------------------------------------------------------------------------
(* Commands of an idle chat. *)

UsersAt(wire) == {i \in DOMAIN wire : wire[i].role = "user"}

CutAt(n, turns) ==
    /\ messages' = SubSeq(messages, 1, n)
    /\ events' = Truncated(events, n)
    /\ panel' = turns
    /\ UNCHANGED <<cache, run, file, asked>>

\* /undo, and /retry before it sends the prompt again.
Undo ==
    /\ "cut" \in Breaks
    /\ Idle /\ panel # <<>>
    /\ LET users == UsersAt(messages)
       IN  CutAt(IF users = {} THEN 0 ELSE (CHOOSE i \in users : \A j \in users : j <= i) - 1,
                 Front(panel))

\* An edited turn is found by its place among the user messages.
Edit(k) ==
    /\ "cut" \in Breaks
    /\ Idle /\ k \in DOMAIN panel
    /\ \E i \in UsersAt(messages) :
         /\ Cardinality({j \in UsersAt(messages) : j <= i}) = k
         /\ CutAt(i - 1, SubSeq(panel, 1, k - 1))

Compress ==
    /\ "compress" \in Breaks
    /\ Idle /\ messages # <<>>
    /\ messages' = <<Msg("user", Brief, <<>>), Msg("assistant", Brief, <<>>)>>
    /\ events' = <<>>
    /\ cache' = NoCache
    /\ UNCHANGED <<panel, run, file, asked>>

\* A rating, a title or a goal saves the chat as it stands.
SaveNow ==
    /\ Idle /\ panel # <<>>
    /\ file' = Stored(messages)
    /\ UNCHANGED <<messages, events, panel, cache, run, asked>>

\* The chat is opened again from its file: a click in the panel, or a crash.
Reload ==
    /\ file # None
    /\ Idle \/ "crash" \in Breaks
    /\ messages' = Resumed(file)
    /\ events' = file.events
    /\ panel' = file.panel
    /\ cache' = file.cache
    /\ run' = None
    /\ UNCHANGED <<file, asked>>

LogNext ==
    \/ Ask \/ Uncompressed \/ Compact \/ \E n \in 0 .. MaxBatch : Answer(n)
    \/ CallBegins \/ CallEnds \/ Commit \/ Fail \/ Stop
    \/ Undo \/ \E k \in 1 .. MaxTurns : Edit(k)
    \/ Compress \/ SaveNow \/ Reload

RunStep ==
    \/ Uncompressed \/ CallBegins \/ CallEnds \/ Commit
    \/ \E n \in 0 .. MaxBatch : Answer(n)

LogFairness == WF_logVars(RunStep)
LogSpec == LogInit /\ [][LogNext]_logVars /\ LogFairness

-----------------------------------------------------------------------------
LogTypeOK ==
    /\ asked \in 0 .. MaxTurns
    /\ \A i \in DOMAIN messages : messages[i].role \in {"user", "assistant", "tool"}
    /\ \A i \in DOMAIN events : events[i].type \in {"user", "assistant", "call", "tool"}
    /\ cache.upto \in Nat

\* A history the provider accepts on this side: a tool message comes after
\* the message that asked for the call, and each call is answered once.
AnswersOf(wire) == {i \in DOMAIN wire : wire[i].role = "tool"}
Sound(wire) ==
    \A i \in AnswersOf(wire) :
        /\ \E j \in 1 .. i - 1 : wire[j].role = "assistant" /\ wire[i].calls[1] \in ToSet(wire[j].calls)
        /\ \A j \in AnswersOf(wire) : wire[j].calls = wire[i].calls => i = j

(***************************************************************************)
(* However a chat was cut, stopped, failed, compressed and reloaded, no    *)
(* tool message of its history answers a call the history does not hold.   *)
(***************************************************************************)
ResultsFollowCalls == Sound(messages)

(***************************************************************************)
(* Every run comes to its end and is in the file.                          *)
(* Checked as: Waits leads to ~Waits.                                      *)
(***************************************************************************)
Waits == run # None

(***************************************************************************)
(* "Events are clipped/text-only - they must not replace a complete wire": *)
(* a chat of whole turns comes back from its file message for message.     *)
(***************************************************************************)
CompleteWireStays == file # None => Resumed(file) = file.messages

(***************************************************************************)
(* Context compaction says "N earlier messages folded into a summary (last *)
(* n kept verbatim)": every message of the history is in what the summary  *)
(* was told or in the request.                                             *)
(***************************************************************************)
FoldedOrSent ==
    ~Idle /\ run.stage # "prepare" =>
        \A i \in DOMAIN messages : messages[i] \in cache.told \cup ToSet(run.sent)

=============================================================================
