------------------------------ MODULE WebTools ------------------------------
(***************************************************************************)
(* The tools that reach the web (web_extract, web_search, vision_analyze   *)
(* of agent/tools.ts) over agent/modelNetwork.ts.  A request ends once, by *)
(* its answer, its deadline or Stop; what the transport says afterwards is *)
(* ignored.  web_extract keeps the text of a long page in a note named     *)
(* after its URL, which calls share and the user may delete.  Of a page    *)
(* its length is kept; wording is left out.                                *)
(***************************************************************************)
EXTENDS Naturals, Sequences

CONSTANTS
    None,
    Calls,     \* tool calls; each asks once
    AsksOf,    \* what the model may ask of a call: [tool, urls, summarize]
    Urls,
    Public,    \* the URLs validateModelSelectedUrl lets through
    Limit,     \* the budget of characters per page
    MaxBytes   \* the budget of bytes per response

VARIABLES
    ask,       \* what a call was asked
    stage,     \* the await a call is suspended at, or how it ended
    stopped,   \* the signal of a call has fired
    page,      \* the page in hand: [size, saved]
    out,       \* what a call will give the model, one entry per URL: [as, saved]
    cache,     \* the note of a URL: the length of its text
    deleted    \* URLs whose note the user deleted

webVars == <<ask, stage, stopped, page, out, cache, deleted>>

Sizes == 0 .. Limit + 1
Over == {"done", "failed"}
Stages == {"idle", "fetch", "read", "digest", "modify", "create", "condense", "probe", "describe"}
            \cup Over
Responses == [ok : BOOLEAN, declared : {None, 1, MaxBytes + 1}, bytes : {1, MaxBytes + 1},
              fits : BOOLEAN, size : Sizes]

WebTypeOK ==
    /\ \A c \in Calls : ask[c] \in AsksOf[c] \cup {None}
    /\ stage \in [Calls -> Stages] /\ stopped \in [Calls -> BOOLEAN]
    /\ page \in [Calls -> [size : Sizes, saved : BOOLEAN] \cup {None}]
    /\ \A c \in Calls :
         out[c] \in Seq([as : {"empty", "whole", "window", "summary", "results", "pixels"},
                         saved : BOOLEAN])
    /\ cache \in [Urls -> Sizes \cup {None}] /\ deleted \subseteq Urls

WebInit ==
    /\ ask = [c \in Calls |-> None] /\ stage = [c \in Calls |-> "idle"]
    /\ stopped = [c \in Calls |-> FALSE] /\ page = [c \in Calls |-> None]
    /\ out = [c \in Calls |-> <<>>] /\ cache = [u \in Urls |-> None] /\ deleted = {}

-----------------------------------------------------------------------------
GoTo(c, s) == stage' = [stage EXCEPT ![c] = s]

\* The request starts unless its URL is refused or the signal has fired: either throws.
Request(c, url) == GoTo(c, IF url \in Public /\ ~stopped[c] THEN "fetch" ELSE "failed")

Execute(c) ==
    /\ ask[c] = None
    /\ \E a \in AsksOf[c] :
         /\ ask' = [ask EXCEPT ![c] = a]
         /\ CASE a.tool = "search" -> GoTo(c, "fetch")
              [] a.tool = "file" -> GoTo(c, "read")
              [] OTHER -> Request(c, a.urls[1])
    /\ UNCHANGED <<stopped, page, out, cache, deleted>>

\* A list is worked through in order: the URL in hand is the first without an entry.
Current(c) == Len(out[c]) + 1
Url(c) == ask[c].urls[Current(c)]

Entry(as, saved) == [as |-> as, saved |-> saved]

\* One more entry, then the next URL or the end.
Push(c, entry) ==
    /\ out' = [out EXCEPT ![c] = Append(@, entry)]
    /\ page' = [page EXCEPT ![c] = None]
    /\ IF Current(c) = Len(ask[c].urls)
       THEN GoTo(c, "done")
       ELSE Request(c, ask[c].urls[Current(c) + 1])

\* One URL fails and with it the call: the entries of the others are not given.
Fail(c) == GoTo(c, "failed") /\ UNCHANGED <<page, out>>

-----------------------------------------------------------------------------
Refused(r) ==
    \/ ~r.ok
    \/ r.declared # None /\ r.declared > MaxBytes
    \/ r.bytes > MaxBytes
    \/ ~r.fits

ExtractPage(c, r) ==
    CASE r.size = 0 -> Push(c, Entry("empty", FALSE))
      [] r.size > Limit \/ ask[c].summarize ->
           /\ GoTo(c, "digest")
           /\ page' = [page EXCEPT ![c] = [size |-> r.size, saved |-> FALSE]]
           /\ UNCHANGED out
      [] OTHER -> Push(c, Entry("whole", FALSE))

\* The transport answers with r.  Of a search the status counts; one backend calls no result a
\* failure.
Response(c) ==
    /\ stage[c] = "fetch"
    /\ \E r \in Responses :
         CASE ask[c].tool = "search" /\ r.ok ->
                  Push(c, Entry("results", FALSE)) \/ (r.size = 0 /\ Fail(c))
           [] ask[c].tool = "picture" /\ ~Refused(r) -> GoTo(c, "probe") /\ UNCHANGED <<page, out>>
           [] ask[c].tool = "extract" /\ ~Refused(r) -> ExtractPage(c, r)
           [] OTHER -> Fail(c)
    /\ UNCHANGED <<ask, stopped, cache, deleted>>

\* web_search has no deadline and does not look at the signal.
Bounded(c) == stage[c] = "fetch" /\ ask[c].tool # "search"

Deadline(c) == Bounded(c) /\ Fail(c) /\ UNCHANGED <<ask, stopped, cache, deleted>>

Interrupt(c) ==
    /\ stage[c] \notin {"idle"} \cup Over /\ ~stopped[c]
    /\ stopped' = [stopped EXCEPT ![c] = TRUE]
    /\ IF Bounded(c) THEN GoTo(c, "failed") ELSE UNCHANGED stage
    /\ UNCHANGED <<ask, page, out, cache, deleted>>

-----------------------------------------------------------------------------
\* storeFullPage: the name is digested, then the note is looked for, then written.
Look(c) ==
    /\ stage[c] = "digest"
    /\ GoTo(c, IF cache[Url(c)] = None THEN "create" ELSE "modify")
    /\ UNCHANGED <<ask, stopped, page, out, cache, deleted>>

\* The raw page, with the way to its note when it was cut.
Raw(c, saved) ==
    IF page[c].size > Limit THEN Entry("window", saved) ELSE Entry("whole", FALSE)

\* A write fails by itself, or because the note went or came since it was looked for.
Write(c) ==
    /\ stage[c] \in {"modify", "create"}
    /\ \E saved \in {FALSE, (stage[c] = "create") <=> (cache[Url(c)] = None)} :
         /\ cache' = IF saved THEN [cache EXCEPT ![Url(c)] = page[c].size] ELSE cache
         /\ IF ask[c].summarize
            THEN /\ GoTo(c, "condense")
                 /\ page' = [page EXCEPT ![c].saved = saved]
                 /\ UNCHANGED out
            ELSE Push(c, Raw(c, saved))
    /\ UNCHANGED <<ask, stopped, deleted>>

\* summarizeWebPage; whatever goes wrong, the raw page answers.
Condense(c) ==
    /\ stage[c] = "condense"
    /\ \/ ~stopped[c] /\ Push(c, Entry("summary", page[c].saved))
       \/ Push(c, Raw(c, page[c].saved))
    /\ UNCHANGED <<ask, stopped, cache, deleted>>

\* The user deletes the note of a page.
Delete(u) ==
    /\ cache[u] # None /\ u \notin deleted
    /\ cache' = [cache EXCEPT ![u] = None] /\ deleted' = deleted \cup {u}
    /\ UNCHANGED <<ask, stage, stopped, page, out>>

-----------------------------------------------------------------------------
\* resolveVisionImage of a file of the vault: it is found and read, or not.
ReadImage(c) ==
    /\ stage[c] = "read"
    /\ (GoTo(c, "probe") \/ GoTo(c, "failed"))
    /\ UNCHANGED <<ask, stopped, page, out, cache, deleted>>

\* The chat's model reads pixels itself, or another is to describe them.
Probe(c) ==
    /\ stage[c] = "probe"
    /\ \/ Push(c, Entry("pixels", FALSE))
       \/ GoTo(c, "describe") /\ UNCHANGED <<page, out>>
    /\ UNCHANGED <<ask, stopped, cache, deleted>>

Describe(c) ==
    /\ stage[c] = "describe"
    /\ Push(c, Entry("results", FALSE)) \/ Fail(c)
    /\ UNCHANGED <<ask, stopped, cache, deleted>>

ToolStep(c) ==
    Deadline(c) \/ Look(c) \/ Write(c) \/ Condense(c) \/ ReadImage(c) \/ Probe(c) \/ Describe(c)

WebNext ==
    \/ \E c \in Calls : Execute(c) \/ Interrupt(c) \/ Response(c) \/ ToolStep(c)
    \/ \E u \in Urls : Delete(u)

\* Timers fire, a model answers or fails, a write or a read of the vault ends.
WebSpec == WebInit /\ [][WebNext]_webVars /\ \A c \in Calls : WF_webVars(ToolStep(c))

-----------------------------------------------------------------------------
(* A note the model is sent to is there, unless the user deleted it: a     *)
(* write that failed, or lost a race with another call, is not announced.  *)
NamedIsThere ==
    \A c \in Calls : \A i \in DOMAIN out[c] :
        out[c][i].saved => cache[ask[c].urls[i]] # None \/ ask[c].urls[i] \in deleted

(* Stop takes effect at the next wait for the web: an interrupted call is  *)
(* never waiting for a page or an image, whatever it was doing when the    *)
(* signal fired.                                                           *)
StopEndsWaits == \A c \in Calls : stopped[c] => ~Bounded(c)

(* What a deadline, a write or an answer of a model releases: every call   *)
(* but a search, which has no deadline.                                    *)
Waits(c) ==
    /\ stage[c] \notin {"idle"} \cup Over
    /\ ask[c].tool # "search"
=============================================================================
