----------------------------- MODULE Completions -----------------------------
(***************************************************************************)
(* Chat completions and capability lookups (agent/providers.ts).  A         *)
(* completion is read from an event stream that arrives in chunks, may be   *)
(* split anywhere, broken off, malformed, stalled or stopped; what the      *)
(* caller was shown is taken back when a buffered request replaces it.      *)
(* Beside it, lookups ask the catalogue whether a model reads images and    *)
(* keep the answer.                                                         *)
(***************************************************************************)
EXTENDS Naturals, Sequences, FiniteSets, SequencesExt

CONSTANTS
    MaxLines,    \* bound: lines of one stream
    MaxRuns,     \* bound: completions
    Lookups,     \* concurrent capability lookups
    None

\* A line of the stream: a delta, the end marker, an error frame, a frame
\* without choices (an error alone is one), no frame at all, no data line.
Deltas == {"text", "thought", "tool"}
Lines  == Deltas \cup {"finish", "done", "error", "empty", "garbage", "comment"}
Ends   == {"answer", "http", "timeout", "transport", "aborted"}

VARIABLES
    streaming,  \* settings.streaming of this completion
    phase,      \* "idle", "stream", "buffered", or how it ended
    wire,       \* lines received and not read yet
    half,       \* the last of them is not complete
    got,        \* the content, the reasoning and the tool calls so far
    flags,      \* malformed events, [DONE]
    shown,      \* what the caller was shown since the last reset
    emitted,    \* any callback was called
    stopped,    \* the caller's signal
    seen,       \* bound: lines of this stream
    completions,
    vision,     \* visionCache of one model
    window,     \* contextLengthCache of it
    lookup      \* the lookups under way

streamVars == <<streaming, phase, wire, half, got, flags, shown, emitted, stopped, seen, completions>>
cacheVars  == <<vision, window, lookup>>
complVars  == <<streamVars, cacheVars>>

Nothing == [text |-> 0, thought |-> 0, tool |-> 0]
Amounts == [Deltas -> Nat]
Clear   == [malformed |-> FALSE, done |-> FALSE]

ComplInit ==
    /\ streaming \in BOOLEAN /\ phase = "idle" /\ wire = <<>> /\ half = FALSE
    /\ got = Nothing /\ flags = Clear /\ shown = Nothing /\ emitted = FALSE
    /\ stopped = FALSE /\ seen = 0 /\ completions = 0
    /\ vision = None /\ window = None /\ lookup = [l \in Lookups |-> None]

\* chatCompletion: stream first when the settings say so.
Begin ==
    /\ phase \in {"idle"} \cup Ends /\ completions < MaxRuns
    /\ completions' = completions + 1
    /\ streaming' \in BOOLEAN
    /\ phase' = IF streaming' THEN "stream" ELSE "buffered"
    /\ wire' = <<>> /\ half' = FALSE /\ got' = Nothing /\ flags' = Clear
    /\ shown' = Nothing /\ emitted' = FALSE /\ stopped' = FALSE /\ seen' = 0
    /\ UNCHANGED cacheVars

-----------------------------------------------------------------------------
(* The stream.                                                             *)

\* A chunk arrives: it ends the line that was split, and may be split itself.
Chunk(l, split) ==
    /\ phase = "stream" /\ seen < MaxLines /\ Len(wire) < 2
    /\ wire' = Append(wire, l) /\ half' = split /\ seen' = seen + 1
    /\ UNCHANGED <<streaming, phase, got, flags, shown, emitted, stopped, completions, cacheVars>>

\* Only the last line can be incomplete; the rest of it comes with the next chunk.
Rest ==
    /\ phase = "stream" /\ half
    /\ half' = FALSE
    /\ UNCHANGED <<streaming, phase, wire, got, flags, shown, emitted, stopped, seen, completions, cacheVars>>

Readable == wire # <<>> /\ ~(half /\ Len(wire) = 1)

\* The end of a failed stream: an HTTP status and a timeout are the caller's to
\* retry, a stop is one; anything else is asked for again in one piece, after
\* what was shown is taken back.
FallBack ==
    /\ phase' = IF stopped THEN "aborted" ELSE "buffered"
    /\ shown' = IF stopped \/ ~emitted THEN shown ELSE Nothing

\* A callback per delta.
Emit(l) ==
    /\ got' = [got EXCEPT ![l] = @ + 1] /\ shown' = [shown EXCEPT ![l] = @ + 1]
    /\ emitted' = TRUE /\ UNCHANGED <<phase, flags>>

\* The stream has been read: a malformed event breaks it, an empty answer too,
\* and reasoning without text is shown as the text.
Complete(f) ==
    IF f.malformed \/ (got.text = 0 /\ got.thought = 0 /\ got.tool = 0)
    THEN FallBack /\ UNCHANGED <<got, emitted>>
    ELSE /\ phase' = "answer"
         /\ IF got.text = 0 /\ got.thought > 0
            THEN /\ got' = [got EXCEPT !.text = got.thought]
                 /\ shown' = [shown EXCEPT !.text = @ + got.thought] /\ emitted' = TRUE
            ELSE UNCHANGED <<got, shown, emitted>>

\* handleLine.  [DONE] ends the reading, whatever follows; an error frame ends
\* it with its status; a frame without choices is passed over.
HandleLine ==
    LET l == Head(wire) IN
    /\ phase = "stream" /\ Readable
    /\ wire' = IF l = "done" THEN <<>> ELSE Tail(wire)
    /\ half' = (half /\ wire' # <<>>)
    /\ CASE l \in Deltas -> Emit(l)
         [] l = "done" -> flags' = [flags EXCEPT !.done = TRUE] /\ Complete(flags)
         [] l = "error" -> phase' = "http" /\ UNCHANGED <<got, flags, shown, emitted>>
         [] l = "garbage" -> flags' = [flags EXCEPT !.malformed = TRUE]
                             /\ UNCHANGED <<phase, got, shown, emitted>>
         [] OTHER -> UNCHANGED <<phase, got, flags, shown, emitted>>
    /\ UNCHANGED <<streaming, stopped, seen, completions, cacheVars>>

\* The body ends without [DONE]: a last line that was cut is read as it is, and
\* the end is accepted.
EndOfBody ==
    /\ phase = "stream" /\ ~Readable
    /\ wire' = <<>> /\ half' = FALSE
    /\ LET cut == [flags EXCEPT !.malformed = @ \/ half] IN flags' = cut /\ Complete(cut)
    /\ UNCHANGED <<streaming, stopped, seen, completions, cacheVars>>

\* The connection is refused with a status, breaks, or the idle timer runs out.
StreamFails(e) ==
    /\ phase = "stream"
    /\ CASE e \in {"http", "timeout"} -> phase' = e /\ shown' = shown
         [] e = "transport"           -> FallBack
    /\ e = "http" => seen = 0
    /\ wire' = <<>> /\ half' = FALSE
    /\ UNCHANGED <<streaming, got, flags, emitted, stopped, seen, completions, cacheVars>>

\* The signal aborts the fetch; a buffered request is not told.
Stop ==
    /\ phase \in {"stream", "buffered"} /\ ~stopped /\ stopped' = TRUE
    /\ phase' = IF phase = "stream" THEN "aborted" ELSE phase
    /\ UNCHANGED <<streaming, wire, half, got, flags, shown, emitted, seen, completions, cacheVars>>

\* bufferedCompletion: one round trip with a timer of its own.  Its text and
\* its reasoning are shown at once; its tool calls are only returned.
Buffered(e, text, thought, tool) ==
    /\ phase = "buffered" /\ phase' = e
    /\ IF e = "answer"
       THEN LET t == IF text = 0 THEN thought ELSE text IN
            /\ got' = [text |-> t, thought |-> thought, tool |-> tool]
            /\ shown' = [shown EXCEPT !.text = @ + t, !.thought = @ + thought]
            /\ emitted' = (emitted \/ t + thought > 0)
       ELSE UNCHANGED <<got, shown, emitted>>
    /\ UNCHANGED <<streaming, wire, half, flags, stopped, seen, completions, cacheVars>>

-----------------------------------------------------------------------------
(* What the catalogue says of a model, and the caches of it.               *)

\* listModelInfos answers in its time, or not at all.
Asks(l, q) ==
    /\ lookup[l] = None /\ lookup' = [lookup EXCEPT ![l] = q]
    /\ UNCHANGED <<vision, window, streamVars>>

\* modelSupportsVision: a hit answers at once; a miss asks the catalogue.
LookUp(l) == vision = None /\ Asks(l, "vision")

\* Its answer, or a guess by the name when it says nothing, is kept, over
\* whatever was learnt meanwhile.
Known(l, supported) ==
    /\ lookup[l] = "vision"
    /\ vision' = supported /\ lookup' = [lookup EXCEPT ![l] = None]
    /\ UNCHANGED <<window, streamVars>>

\* A 400 tells that the model takes no images.
Reject ==
    /\ vision = TRUE /\ vision' = FALSE
    /\ UNCHANGED <<window, lookup, streamVars>>

\* fetchAdvertisedContextLength: a kept answer, a null one too, is final.
AskWindow(l) == window = None /\ Asks(l, "advertised")

\* The catalogue names no window, or fails: the native endpoint is asked.
Unadvertised(l) ==
    /\ lookup[l] = "advertised" /\ lookup' = [lookup EXCEPT ![l] = "native"]
    /\ UNCHANGED <<vision, window, streamVars>>

\* Either answers; the native endpoint may have nothing to say.
Sized(l, w) ==
    /\ lookup[l] \in {"advertised", "native"} /\ (w = "null" => lookup[l] = "native")
    /\ window' = w /\ lookup' = [lookup EXCEPT ![l] = None]
    /\ UNCHANGED <<vision, streamVars>>

StreamStep ==
    \/ HandleLine \/ EndOfBody \/ Rest
    \/ \E e \in {"http", "timeout", "transport"} : StreamFails(e)
    \/ \E e \in {"answer", "http", "timeout", "transport"}, text, thought, tool \in 0 .. 1 : Buffered(e, text, thought, tool)

\* A request for the catalogue is answered, or timed out and guessed at.
Answered(l) ==
    \/ \E b \in BOOLEAN : Known(l, b)
    \/ Unadvertised(l) \/ \E w \in {"known", "null"} : Sized(l, w)

StreamNext ==
    \/ Begin \/ Stop \/ StreamStep
    \/ \E l \in Lines, split \in BOOLEAN : Chunk(l, split)

CacheNext ==
    \/ Reject
    \/ \E l \in Lookups : LookUp(l) \/ AskWindow(l) \/ Answered(l)

\* The completion and the lookups share nothing.
ComplNext == StreamNext \/ CacheNext

\* The idle timer and the timers of the plain requests fire.
ComplFairness == WF_complVars(StreamStep) /\ \A l \in Lookups : WF_complVars(Answered(l))
ComplSpec == ComplInit /\ [][ComplNext]_complVars /\ ComplFairness

-----------------------------------------------------------------------------
ComplTypeOK ==
    /\ phase \in {"idle", "stream", "buffered"} \cup Ends /\ wire \in Seq(Lines)
    /\ got \in Amounts /\ shown \in Amounts /\ flags \in [malformed : BOOLEAN, done : BOOLEAN]
    /\ {streaming, half, emitted, stopped} \subseteq BOOLEAN
    /\ vision \in BOOLEAN \cup {None} /\ window \in {None, "known", "null"}
    /\ lookup \in [Lookups -> {None, "vision", "advertised", "native"}]

\* When a completion ends with an answer, the text and the reasoning the caller
\* was shown since the last reset are that answer, and a tool call it was shown
\* is in it: nothing of a broken stream is left before it (chatCompletion).
ShownIsAnswer ==
    phase = "answer" =>
        /\ shown.text = got.text /\ shown.thought = got.thought
        /\ shown.tool \in {0, got.tool}

\* Every completion ends, however its stream stalls, and so does every lookup:
\* whoever waits for the model is released.
\* Checked as: Waits leads to ~Waits.
Waits == phase \in {"stream", "buffered"}
Looking(l) == lookup[l] # None
=============================================================================
