----------------------------- MODULE MCServices -----------------------------
(***************************************************************************)
(* The services around the agent loop, each on a small instance: one run of*)
(* TLC checks them all.  They share no state, so a behaviour is of one of  *)
(* them, chosen at the start; s1, s2, ... stand for its variables, and those*)
(* it does not need stay None.                                             *)
(***************************************************************************)
EXTENDS Integers, Sequences, TLC

CONSTANTS
    None, NoText, Custom, x, y, z, v1, v2, f, g

VARIABLES
    part,    \* the component this behaviour is of
    s1, s2, s3, s4, s5, s6, s7, s8, s9, s10, s11, s12, s13, s14

\* The composer needs more variables than the others.
spare == <<s13, s14>>
SpareUnused == s13 = None /\ s14 = None

all == <<part, s1, s2, s3, s4, s5, s6, s7, s8, s9, s10, s11, s12, spare>>

(* What a component is made of. *)
MCDocs == {<<"c", "c">>}
MCShows == 2
MCTapOf == [s \in {"a", "b"} |-> "t"]
MCHubSlug == "a" :> "x" @@ "b" :> "y"
MCParts == <<"md", "js">>
MCVerdict == [s \in {"a", "b"} |-> [n \in 0 .. 1 |-> IF s = "a" THEN "safe" ELSE "caution"]]
MCAsks == "c1" :> ([tool : {"extract"}, urls : {<<x, y>>, <<x, z>>}, summarize : BOOLEAN]
                   \cup [tool : {"search", "picture", "file"}, urls : {<<x>>}, summarize : {FALSE}])
          @@ "c2" :> [tool : {"extract"}, urls : {<<x>>}, summarize : BOOLEAN]
MCBreaks == {"fold", "fail", "stop", "cut", "compress", "crash"}
MCDays == <<<<1, 1>>, <<2, 1>>, <<2, 2>>>>
MCTimes == {<<1, 2>>}

Cal == INSTANCE CronCalendar WITH
    MinuteMax <- 3, HourMax <- 1, Days <- MCDays, DayMax <- 2, DowMax <- 3, SafeDay <- 2, Nine <- 1,
    Quarter <- 2
MCRaws == {None, Cal!Expr(Cal!Span(1, 2), Cal!Star, Cal!One(1), Cal!Star, Cal!One(1))}

-----------------------------------------------------------------------------
Mcp == INSTANCE McpServers WITH
    config <- s1, enabled <- s2, registry <- s3, client <- s4, mrun <- s5, disposed <- s6,
    edits <- s7, Servers <- {"s"}, Runs <- {"r", "q"}, Keys <- {"k", "h"},
    HttpKeys <- {"h"}, MaxClients <- 2, MaxListings <- 1, MaxRequests <- 3, MaxEdits <- 1

Del == INSTANCE Delegation WITH
    folder <- s1, parent <- s2, batch <- s3, rebinds <- s4, Parents <- {"p"},
    Folders <- {"f", "g"}, MaxTasks <- 4, Pool <- 3, MaxBatches <- 1, MaxRebinds <- 1

Moa == INSTANCE MoaEngine WITH
    fanout <- s1, degraded <- s2, turn <- s3, step <- s4, cadence <- s5, cache <- s6,
    refs <- s7, phase <- s8, guidance <- s9, moaAborted <- s10, asked <- s11,
    Refs <- {x, y}, Fanouts <- {0, 1, 2}, Policies <- {"loud", "silent"}, Workers <- 8,
    Attempts <- 2, MaxTurns <- 2, MaxSteps <- 3

Quick == INSTANCE QuickAsk WITH
    doc <- s1, file <- s2, alive <- s3, overlay <- s4, widget <- s5, panel <- s6,
    hit <- s7, qaEdits <- s8, Views <- {v1, v2}, Files <- {f, g}, Chars <- {"c"},
    Docs <- MCDocs, Fails <- {"network", "refused"}, MaxLen <- 4, MaxShows <- MCShows,
    MaxEdits <- 1, MaxTurns <- 1

Compl == INSTANCE Completions WITH
    streaming <- s1, phase <- s2, wire <- s3, half <- s4, got <- s5, flags <- s6,
    shown <- s7, emitted <- s8, stopped <- s9, seen <- s10, completions <- s11,
    vision <- s12, window <- s13, lookup <- s14, MaxLines <- 3, MaxRuns <- 1,
    Lookups <- {"l1", "l2"}

Hub == INSTANCE SkillsHub WITH
    remote <- s1, taps <- s2, cache <- s3, entries <- s4, loads <- s5, installed <- s6,
    busy <- s7, flow <- s8, folder <- s9, disk <- s10, lock <- s11, mixed <- s12,
    started <- s13, events <- s14, Flows <- {"f1", "f2"}, Taps <- {"t"}, Builtin <- {},
    Skills <- {"a", "b"}, TapOf <- MCTapOf, SlugOf <- MCHubSlug, Parts <- MCParts,
    Verdict <- MCVerdict, Folders <- {"d", "e"}, MaxFlows <- 2, MaxEvents <- 1

Pdf == INSTANCE PdfUpload WITH
    ops <- s1, inits <- s2, live <- s3, workerReady <- s4, sharedWorker <- s5,
    active <- s6, drops <- s7, MaxPdfs <- 3, MaxDrops <- 1

Web == INSTANCE WebTools WITH
    ask <- s1, stage <- s2, stopped <- s3, page <- s4, out <- s5, cache <- s6,
    deleted <- s7, Calls <- {"c1", "c2"}, Urls <- {x, y, z}, Public <- {x, y},
    AsksOf <- MCAsks, Limit <- 1, MaxBytes <- 1

Log == INSTANCE SessionLog WITH
    messages <- s1, events <- s2, panel <- s3, cache <- s4, run <- s5, file <- s6,
    asked <- s7, MaxTurns <- 2, MaxSteps <- 2, MaxBatch <- 2, ProtectLastN <- 1,
    Pictured <- {2}, Breaks <- MCBreaks

Form == INSTANCE CronForm WITH
    now <- s1, task <- s2, form <- s3, run <- s4, gen <- s5, by <- s6, moves <- s7,
    MinuteMax <- 3, HourMax <- 1, Days <- MCDays, DayMax <- 2, DowMax <- 3, SafeDay <- 2,
    Nine <- 1, Quarter <- 2, Empty <- NoText, Custom <- Custom, Raws <- MCRaws,
    Urls <- {x}, Script <- y, Intervals <- {3}, Times <- MCTimes, OldIntervals <- {9},
    MaxNow <- 1, MaxMoves <- 3

-----------------------------------------------------------------------------
ServicesInit ==
    \/ /\ part = "mcp" /\ Mcp!McpInit
       /\ s8 = None /\ s9 = None /\ s10 = None /\ s11 = None /\ s12 = None /\ SpareUnused
    \/ /\ part = "delegation" /\ Del!DelegInit
       /\ s5 = None /\ s6 = None /\ s7 = None /\ s8 = None /\ s9 = None /\ s10 = None /\ s11 = None
       /\ s12 = None /\ SpareUnused
    \/ /\ part = "moa" /\ Moa!MoaInit
       /\ s12 = None /\ SpareUnused
    \/ /\ part = "quick" /\ Quick!QuickInit
       /\ s9 = None /\ s10 = None /\ s11 = None /\ s12 = None /\ SpareUnused
    \/ /\ part \in {"stream", "lookup"} /\ Compl!ComplInit
    \/ /\ part = "hub" /\ Hub!HubInit
    \/ /\ part = "pdf" /\ Pdf!PdfInit
       /\ s8 = None /\ s9 = None /\ s10 = None /\ s11 = None /\ s12 = None /\ SpareUnused
    \/ /\ part = "web" /\ Web!WebInit
       /\ s8 = None /\ s9 = None /\ s10 = None /\ s11 = None /\ s12 = None /\ SpareUnused
    \/ /\ part = "log" /\ Log!LogInit
       /\ s8 = None /\ s9 = None /\ s10 = None /\ s11 = None /\ s12 = None /\ SpareUnused
    \/ /\ part = "form" /\ Form!FormInit
       /\ s8 = None /\ s9 = None /\ s10 = None /\ s11 = None /\ s12 = None /\ SpareUnused

InMcp == part = "mcp" /\ UNCHANGED <<part, s8, s9, s10, s11, s12, spare>>
InDelegation == part = "delegation" /\ UNCHANGED <<part, s5, s6, s7, s8, s9, s10, s11, s12, spare>>
InMoa == part = "moa" /\ UNCHANGED <<part, s12, spare>>
InQuick == part = "quick" /\ UNCHANGED <<part, s9, s10, s11, s12, spare>>
InStream == part = "stream" /\ UNCHANGED part
InLookup == part = "lookup" /\ UNCHANGED part
InHub == part = "hub" /\ UNCHANGED part
InPdf == part = "pdf" /\ UNCHANGED <<part, s8, s9, s10, s11, s12, spare>>
InWeb == part = "web" /\ UNCHANGED <<part, s8, s9, s10, s11, s12, spare>>
InLog == part = "log" /\ UNCHANGED <<part, s8, s9, s10, s11, s12, spare>>
InForm == part = "form" /\ UNCHANGED <<part, s8, s9, s10, s11, s12, spare>>

ServicesNext ==
    \/ InMcp /\ Mcp!McpNext
    \/ InDelegation /\ Del!DelegNext
    \/ InMoa /\ Moa!MoaNext
    \/ InQuick /\ Quick!QuickNext
    \/ InStream /\ Compl!StreamNext
    \/ InLookup /\ Compl!CacheNext
    \/ InHub /\ Hub!HubNext
    \/ InPdf /\ Pdf!PdfNext
    \/ InWeb /\ Web!WebNext
    \/ InLog /\ Log!LogNext
    \/ InForm /\ Form!FormNext

(* What goes on by itself: timers, answers and the code after an await.  A behaviour stays in
   its part, so one condition stands for one of each part; the second calls of a part that
   needs fairness for each call have their own. *)
GoesOn ==
    \/ InMcp /\ \E r \in {"r", "q"} : Mcp!Timeout(r) \/ Mcp!Ensure(r)
    \/ InDelegation /\ Del!Children("p")
    \/ InMoa /\ Moa!FanOutStep
    \/ InQuick /\ \E p \in 1 .. MCShows : p \in DOMAIN s6 /\ Quick!TurnStep(p)
    \/ InStream /\ Compl!StreamStep
    \/ InLookup /\ \E l \in {"l1", "l2"} : Compl!Answered(l)
    \/ InHub /\ \E h \in {"f1", "f2"} : Hub!FlowStep(h)
    \/ InPdf /\ Pdf!PdfStep
    \/ InWeb /\ Web!ToolStep("c1")
    \/ InLog /\ Log!RunStep
    \/ InForm /\ (Form!ScriptTimesOut \/ \E fetched \in BOOLEAN : Form!RunEnds(fetched))

SecondGoesOn ==
    \/ InWeb /\ Web!ToolStep("c2")

ServicesFairness == WF_all(GoesOn) /\ WF_all(SecondGoesOn)

ServicesSpec == ServicesInit /\ [][ServicesNext]_all /\ ServicesFairness

-----------------------------------------------------------------------------
(***************************************************************************)
(* What every service promises, as its module says it: a registered MCP    *)
(* server is open and no request waits on a closed one; the lanes of a     *)
(* batch and the stores of its run; the advice a mixture acts on; the text *)
(* a Quick Ask panel may write over and what it shows; the answer of a     *)
(* completion; what "Update all" calls up to date; one worker for the PDFs *)
(* and none for an abandoned one; what a web tool says of a page and where *)
(* it says the rest is; a history in which results follow their calls; and *)
(* that an automation fires as its words say, waits for its first minute,  *)
(* and has no script and watched page together from its form.              *)
(***************************************************************************)
ServicesHold ==
    /\ part = "mcp" => Mcp!McpTypeOK /\ Mcp!McpServed
    /\ part = "delegation" => Del!DelegTypeOK /\ Del!PoolKept /\ Del!StoresPinned
    /\ part = "moa" => Moa!MoaTypeOK /\ Moa!AdviceCurrent /\ Moa!AdviceWhole
    /\ part = "quick" =>
         /\ Quick!QuickTypeOK /\ Quick!OutsideKept /\ Quick!OnePanel
         /\ Quick!StreamCurrent /\ Quick!WireShown
    /\ part \in {"stream", "lookup"} => Compl!ComplTypeOK /\ Compl!ShownIsAnswer
    /\ part = "hub" => Hub!HubTypeOK /\ Hub!UpToDateIsReal /\ Hub!BusyIsHeld
    /\ part = "pdf" => Pdf!PdfTypeOK /\ Pdf!OneWorker /\ Pdf!AbandonedIsCut
    /\ part = "web" => Web!WebTypeOK /\ Web!NamedIsThere /\ Web!StopEndsWaits
    /\ part = "log" => Log!LogTypeOK /\ Log!ResultsFollowCalls
    /\ part = "form" => Form!PickedFires /\ Form!NextIsFirst /\ Form!SaveExclusive

Waiting ==
    \/ part = "mcp" /\ \E r \in {"r", "q"} : Mcp!Waits(r)
    \/ part = "delegation" /\ Del!Waits("p")
    \/ part = "moa" /\ Moa!Waits
    \/ part = "quick" /\ \E p \in 1 .. MCShows : Quick!Waits(p)
    \/ part = "stream" /\ Compl!Waits
    \/ part = "lookup" /\ \E l \in {"l1", "l2"} : Compl!Looking(l)
    \/ part = "hub" /\ \E s \in {"a", "b", "all"} : Hub!Waits(s)
    \/ part = "pdf" /\ Pdf!Pending
    \/ part = "web" /\ \E c \in {"c1", "c2"} : Web!Waits(c)
    \/ part = "log" /\ Log!Waits
    \/ part = "form" /\ Form!Waits

(***************************************************************************)
(* Whoever waits for a service is released: an MCP request, a batch of     *)
(* children, a fan-out of advisors, a turn of Quick Ask, a completion or a *)
(* capability lookup, a button of the skills page, a drop of files, a run  *)
(* of the chat, a run of an automation and its script.                     *)
(***************************************************************************)
ServicesSettle == Waiting ~> ~Waiting

=============================================================================
