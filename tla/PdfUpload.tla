----------------------------- MODULE PdfUpload ------------------------------
(***************************************************************************)
(* Files dropped on the composer (ui/components/file-upload.tsx) and the    *)
(* extraction of text from the PDFs among them (ui/attach/pdf.ts).         *)
(* Extractions take turns on one browser Worker that outlives them.  A     *)
(* deadline abandons an extraction: it is answered with an error and its   *)
(* code goes on as far as it can, next to its successor.                   *)
(***************************************************************************)
EXTENDS Naturals, Sequences, FiniteSets, SequencesExt

CONSTANTS
    None,
    MaxPdfs,   \* bound: extractions
    MaxDrops   \* bound: drops of files

VARIABLES
    ops,       \* the extractions, in the order they were asked for
    inits,     \* the starts of a worker, each by an extraction; a worker is named by its start
    live,      \* workers constructed and not terminated
    workerReady, sharedWorker,
    active,    \* the extraction activeWorkerReject belongs to
    drops      \* [from, to]: the extractions a drop waits for; attached once they are settled

pdfVars == <<ops, inits, live, workerReady, sharedWorker, active, drops>>

\* The awaits of extractPdfTextExclusive; "over" when its code has ended.
Stages == {"queued", "import", "init", "load", "page", "cleanup", "over"}

Waiting == [stage |-> "queued", answer |-> None, result |-> None, init |-> None, worker |-> None]

Ids == 1 .. MaxPdfs

PdfTypeOK ==
    /\ ops \in Seq([stage : Stages, answer : {None, "text", "error"}, result : {None, "text", "error"},
                    init : Ids \cup {None}, worker : Ids \cup {None}])
    /\ inits \in Seq([op : Ids, state : {"read", "ready", "failed"}])
    /\ live \subseteq Ids /\ {workerReady, sharedWorker, active} \subseteq Ids \cup {None}
    /\ drops \in Seq([from : 1 .. MaxPdfs + 1, to : 0 .. MaxPdfs, attached : BOOLEAN])

PdfInit ==
    /\ ops = <<>> /\ inits = <<>> /\ drops = <<>> /\ live = {}
    /\ workerReady = None /\ sharedWorker = None /\ active = None

-----------------------------------------------------------------------------
\* A drop of n readable PDFs; files of other kinds are read, or refused, at once.
HandleFiles(n) ==
    /\ Len(drops) < MaxDrops /\ Len(ops) + n <= MaxPdfs
    /\ ops' = ops \o [i \in 1 .. n |-> Waiting]
    /\ drops' = Append(drops, [from |-> Len(ops) + 1, to |-> Len(ops) + n, attached |-> FALSE])
    /\ UNCHANGED <<inits, live, workerReady, sharedWorker, active>>

\* Promise.all: what could be read is attached together, to the composer of that moment.
FilesAdded(d) ==
    /\ ~drops[d].attached /\ \A o \in drops[d].from .. drops[d].to : ops[o].answer # None
    /\ drops' = [drops EXCEPT ![d].attached = TRUE]
    /\ UNCHANGED <<ops, inits, live, workerReady, sharedWorker, active>>

-----------------------------------------------------------------------------
Expired(o) == ops[o].answer # None

\* The race of the extraction is settled; its finally block takes the hook of the worker off.
Answered(o, answer) == [ops[o] EXCEPT !.answer = IF @ = None THEN answer ELSE @]
Unhooked(o) == IF Expired(o) THEN active ELSE None

\* extractionTail
Begin(o) ==
    /\ ops[o].stage = "queued" /\ \A p \in 1 .. o - 1 : ops[p].answer # None
    /\ ops' = [ops EXCEPT ![o].stage = "import"]
    /\ UNCHANGED <<inits, live, workerReady, sharedWorker, active, drops>>

Throws(o) ==
    /\ ops' = [ops EXCEPT ![o] = [Answered(o, "error") EXCEPT !.stage = "over"]]
    /\ active' = Unhooked(o)

\* ensureSharedWorker: the start under way, or done, is shared.
Imported(o) ==
    /\ ops[o].stage = "import"
    /\ IF Expired(o)
       THEN Throws(o) /\ UNCHANGED <<inits, workerReady>>
       ELSE /\ ops' = [ops EXCEPT ![o].stage = "init",
                                  ![o].init = IF workerReady # None THEN workerReady ELSE Len(inits) + 1]
            /\ inits' = IF workerReady # None THEN inits ELSE Append(inits, [op |-> o, state |-> "read"])
            /\ workerReady' = ops'[o].init
            /\ UNCHANGED active
    /\ UNCHANGED <<live, sharedWorker, drops>>

\* The worker file was read: no worker is made for an extraction that was abandoned.
WorkerRead(i, good) ==
    /\ inits[i].state = "read"
    /\ IF good /\ ~Expired(inits[i].op)
       THEN /\ inits' = [inits EXCEPT ![i].state = "ready"]
            /\ live' = live \cup {i} /\ sharedWorker' = i /\ UNCHANGED workerReady
       ELSE /\ inits' = [inits EXCEPT ![i].state = "failed"]
            /\ workerReady' = (IF workerReady = i THEN None ELSE workerReady)
            /\ UNCHANGED <<live, sharedWorker>>
    /\ UNCHANGED <<ops, active, drops>>

WorkerAwaited(o) ==
    /\ ops[o].stage = "init" /\ inits[ops[o].init].state # "read"
    /\ IF Expired(o) \/ inits[ops[o].init].state = "failed" \/ sharedWorker = None
       THEN Throws(o)
       ELSE /\ ops' = [ops EXCEPT ![o].stage = "load", ![o].worker = sharedWorker]
            /\ active' = o
    /\ UNCHANGED <<inits, live, workerReady, sharedWorker, drops>>

\* The worker parses the document page by page, or finds it broken.
Parses(o) ==
    /\ ops[o].stage \in {"load", "page"} /\ ops[o].worker \in live /\ ~Expired(o)
    /\ \/ ops' = [ops EXCEPT ![o].stage = "page"]
       \/ \E r \in {"text", "error"} : ops' = [ops EXCEPT ![o].stage = "cleanup", ![o].result = r]
    /\ UNCHANGED <<inits, live, workerReady, sharedWorker, active, drops>>

\* An abandoned extraction is woken by the destroy of its loading task.
Destroyed(o) ==
    /\ ops[o].stage \in {"load", "page"} /\ Expired(o)
    /\ ops' = [ops EXCEPT ![o].stage = "cleanup", ![o].result = "error"]
    /\ UNCHANGED <<inits, live, workerReady, sharedWorker, active, drops>>

\* disposeSharedWorker: only if it is still the shared one.
Dispose(w) ==
    IF sharedWorker = w
    THEN sharedWorker' = None /\ workerReady' = None /\ live' = live \ {w}
    ELSE UNCHANGED <<sharedWorker, workerReady, live>>

\* destroyLoadingTaskBounded: a cleanup of more than two seconds costs the worker.
CleanedUp(o, late) ==
    /\ ops[o].stage = "cleanup"
    /\ IF late THEN Dispose(ops[o].worker) ELSE UNCHANGED <<sharedWorker, workerReady, live>>
    /\ ops' = [ops EXCEPT ![o] = [Answered(o, ops[o].result) EXCEPT !.stage = "over"]]
    /\ active' = Unhooked(o)
    /\ UNCHANGED <<inits, drops>>

\* The whole operation has thirty seconds, the wait for its turn not counted.
Deadline(o) ==
    /\ ops[o].stage # "queued" /\ ~Expired(o)
    /\ LET w == IF ops[o].worker # None THEN ops[o].worker ELSE sharedWorker
       IN  IF w # None THEN Dispose(w) ELSE workerReady' = None /\ UNCHANGED <<sharedWorker, live>>
    /\ ops' = [ops EXCEPT ![o] = Answered(o, "error")]
    /\ active' = None
    /\ UNCHANGED <<inits, drops>>

\* The error event of a running worker.
WorkerFails(w) ==
    /\ w \in live /\ Dispose(w)
    /\ ops' = IF active = None THEN ops ELSE [ops EXCEPT ![active] = Answered(active, "error")]
    /\ active' = None
    /\ UNCHANGED <<inits, drops>>

-----------------------------------------------------------------------------
PdfNext ==
    \/ \E n \in 0 .. MaxPdfs : HandleFiles(n)
    \/ \E d \in DOMAIN drops : FilesAdded(d)
    \/ \E o \in DOMAIN ops :
         \/ Begin(o) \/ Imported(o) \/ WorkerAwaited(o) \/ Parses(o) \/ Destroyed(o) \/ Deadline(o)
         \/ \E late \in BOOLEAN : CleanedUp(o, late)
    \/ \E i \in DOMAIN inits, good \in BOOLEAN : WorkerRead(i, good)
    \/ \E w \in live : WorkerFails(w)

\* Timers fire, and a settled promise resumes who awaits it.  Nothing else is
\* certain: not the read of the worker file, nor an answer of the worker.
PdfStep ==
    \/ \E o \in DOMAIN ops : Begin(o) \/ Deadline(o)
    \/ \E d \in DOMAIN drops : FilesAdded(d)

-----------------------------------------------------------------------------
(***************************************************************************)
(* There is never a second worker, nor one that nobody can terminate: a    *)
(* read of the worker file that comes back after the deadline makes none,  *)
(* whatever has been started since.                                        *)
(***************************************************************************)
OneWorker == live \subseteq {sharedWorker} /\ (sharedWorker # None => sharedWorker \in live)

(***************************************************************************)
(* An extraction that was abandoned holds no running worker while its code *)
(* goes on, so the cleanup it still does cannot hurt the document of its   *)
(* successor; and an error of the worker reaches only the extraction whose *)
(* turn it is.                                                             *)
(***************************************************************************)
AbandonedIsCut ==
    /\ \A o \in DOMAIN ops : Expired(o) /\ ops[o].stage # "over" => ops[o].worker \notin live
    /\ active # None => ~Expired(active) /\ ops[active].worker = sharedWorker

(***************************************************************************)
(* Whoever drops files gets them, or is told why not: every extraction is  *)
(* answered, even if the file of the worker is never read or the worker    *)
(* never answers, and the drop is attached.                                *)
(***************************************************************************)
Pending == \E d \in DOMAIN drops : ~drops[d].attached
=============================================================================
