------------------------------ MODULE Composer ------------------------------
(***************************************************************************)
(* The composer of the chat view (ui/ChatApp.tsx, ui/composer/history.ts):  *)
(* the text being typed, its attachments, one draft per conversation, the  *)
(* recall of earlier prompts, and the edit of a queued prompt in place.    *)
(* Reads, loads and saves are awaited, and the user may change the          *)
(* conversation or the workspace meanwhile.                                *)
(*                                                                         *)
(* A text is named by the conversation it was typed in, an attachment by   *)
(* the conversation and the workspace scope it was asked in.  How the      *)
(* queue is saved when several views share it is PromptQueue's, and how a  *)
(* run goes on is ChatRuns's: here one save of the queue is under way at   *)
(* most, and a run is a flag.                                              *)
(***************************************************************************)
EXTENDS Integers, Sequences, FiniteSets, SequencesExt

CONSTANTS
    Chats,       \* conversations
    Scopes,      \* effective workspace policies
    None,
    MaxFiles,    \* attachments the composer holds (24)
    MaxEntries,  \* bound: prompts ever queued
    MaxTurns,    \* bound: prompts of a conversation
    MaxGestures  \* bound: what the user does

VARIABLES
    chat,     \* sessionIdRef, sessionId
    known,    \* conversations that exist
    parent,   \* the conversation each was branched from
    turns,    \* the user's prompts of each conversation, oldest first
    scope,    \* scopeKey of the workspace policy in force
    seen,     \* prevWorkspaceScopeRef
    input, files, armed,   \* input, pendingFiles, skillContextRef
    drafts,   \* composerDrafts
    browse,   \* ComposerHistoryBrowse; cursor 0 is not browsing
    queue,    \* the queued prompts of each conversation
    saving,   \* the save of the queue that is under way
    parked,
    edit, snap,   \* queueEditId, queueEditSnapshotRef
    running,
    asks,     \* reads and loads that are awaited
    entries, gestures

view == <<chat, known, parent, turns, scope, seen>>
box  == <<input, files, armed, drafts, browse>>
held == <<queue, saving, parked, entries>>
mode == <<edit, snap>>
composerVars == <<view, box, held, mode, running, asks, gestures>>

Text  == Chats \cup {None}
File  == [chat : Chats, scope : Scopes]
Entry == [id : 1 .. MaxEntries, chat : Chats, text : Text, files : SUBSET File]
Idle  == [cursor |-> 0, draft |-> None]

\* The conversation of a restored view, with what its file and its queue still hold.
ComposerInit ==
    /\ chat = CHOOSE c \in Chats : TRUE
    /\ known = {chat} /\ parent = [c \in Chats |-> None]
    /\ turns \in {[c \in Chats |-> IF c = chat THEN said ELSE <<>>] : said \in {<<>>, <<chat>>}}
    /\ scope = (CHOOSE s \in Scopes : TRUE) /\ seen = scope
    /\ input = None /\ files = {} /\ armed = None
    /\ drafts = [c \in Chats |-> None] /\ browse = Idle
    /\ entries \in 0 .. MaxEntries
    /\ queue = [c \in Chats |-> [i \in 1 .. IF c = chat THEN entries ELSE 0 |->
                                   [id |-> i, chat |-> chat, text |-> chat, files |-> {}]]]
    /\ saving = None /\ parked = FALSE
    /\ edit = None /\ snap = None /\ running = FALSE /\ asks = {} /\ gestures = 0

Gesture == gestures < MaxGestures /\ gestures' = gestures + 1

-----------------------------------------------------------------------------
(* Typing, recall and attachments.                                         *)

\* Every write into the text: typing, a quote, a snippet, a picked reference or row.
Type ==
    /\ Gesture /\ input' = chat
    /\ UNCHANGED <<view, files, armed, drafts, browse, held, mode, running, asks>>

Erase ==
    /\ Gesture /\ input # None /\ input' = None
    /\ UNCHANGED <<view, files, armed, drafts, browse, held, mode, running, asks>>

\* A picked row is staged for its argument; a command row runs and leaves nothing.
AcceptRow ==
    /\ Gesture /\ input = chat /\ input' \in {None, chat}
    /\ UNCHANGED <<view, files, armed, drafts, browse, held, mode, running, asks>>

\* deriveUserHistory: the newest prompt first.
History == Reverse(turns[chat])

browseBackward == [cursor |-> browse.cursor + 1,
                   draft  |-> IF browse.cursor = 0 THEN input ELSE browse.draft]

\* Back at the present the draft returns.
browseForward ==
    IF browse.cursor > 1
    THEN [to |-> [browse EXCEPT !.cursor = @ - 1], text |-> History[browse.cursor - 1]]
    ELSE [to |-> Idle, text |-> browse.draft]

Older ==
    /\ Gesture /\ edit = None
    /\ input = None => queue[chat] = <<>>       \* else the arrow edits the last queued prompt
    /\ input # None => browse.cursor > 0
    /\ browse.cursor < Len(History)
    /\ browse' = browseBackward /\ input' = History[browse'.cursor]
    /\ UNCHANGED <<view, files, armed, drafts, held, mode, running, asks>>

Newer ==
    /\ Gesture /\ edit = None /\ browse.cursor > 0
    /\ browse' = browseForward.to /\ input' = browseForward.text
    /\ UNCHANGED <<view, files, armed, drafts, held, mode, running, asks>>

\* addFiles: the first MaxFiles stay.
Added(f) == IF f \in files \/ Cardinality(files) < MaxFiles THEN files \cup {f} ELSE files

Ask(what, to) == asks' = asks \cup {[what |-> what, chat |-> chat, scope |-> scope, to |-> to]}

PickVault ==
    /\ Gesture /\ Ask("pick", None)
    /\ UNCHANGED <<view, box, held, mode, running>>

\* authorizeEditorPayload: a selection made under another policy is refused.
Authorized(s) == s = scope

\* A selection of the editor is attached at once; the skill to run on it is loaded first.
RunSkillOnSelection ==
    /\ Gesture
    /\ \E s \in Scopes : Authorized(s) /\ files' = Added([chat |-> chat, scope |-> s])
    /\ Ask("skill", None)
    /\ UNCHANGED <<view, input, armed, drafts, browse, held, mode, running>>

RemoveFile ==
    /\ Gesture /\ \E f \in files : files' = files \ {f}
    /\ UNCHANGED <<view, input, armed, drafts, browse, held, mode, running, asks>>

\* requestIsCurrent
Current(a) == a.chat = chat /\ a.scope = scope

\* A note may have become unreadable, too long or hidden; a skill may be gone.
Picked(a, ok) ==
    /\ a \in asks /\ a.what = "pick" /\ asks' = asks \ {a}
    /\ files' = IF Current(a) /\ ok THEN Added([chat |-> a.chat, scope |-> a.scope]) ELSE files
    /\ UNCHANGED <<view, input, armed, drafts, browse, held, mode, running, gestures>>

SkillLoaded(a, ok) ==
    /\ a \in asks /\ a.what = "skill" /\ asks' = asks \ {a}
    /\ armed' = IF Current(a) /\ ok THEN [chat |-> a.chat, scope |-> a.scope] ELSE armed
    /\ UNCHANGED <<view, input, files, drafts, browse, held, mode, running, gestures>>

\* Files from the disk go to whatever conversation is open when they are read.
DropFiles ==
    /\ Gesture /\ Ask("disk", None)
    /\ UNCHANGED <<view, box, held, mode, running>>

Dropped(a) ==
    /\ a \in asks /\ a.what = "disk" /\ asks' = asks \ {a}
    /\ files' = Added([chat |-> a.chat, scope |-> a.scope])
    /\ UNCHANGED <<view, input, armed, drafts, browse, held, mode, running, gestures>>

-----------------------------------------------------------------------------
(* Changing the conversation.                                              *)

\* The effects of a new sessionId: the draft of the old one is kept, an edit is dropped.
SwitchTo(c) ==
    /\ chat' = c
    /\ drafts' = IF c = chat THEN drafts ELSE [drafts EXCEPT ![chat] = input]
    /\ input' = drafts[c]
    /\ edit' = IF c = chat THEN edit ELSE None

\* A load that is superseded does nothing when it is answered.
NoLoad == {a \in asks : a.what # "load"}

NewConversation ==
    \E c \in Chats \ known :
        /\ SwitchTo(c) /\ known' = known \cup {c}
        /\ files' = {} /\ armed' = None /\ browse' = Idle /\ asks' = NoLoad
        /\ UNCHANGED <<parent, turns, scope, snap, running>>

New == Gesture /\ NewConversation /\ UNCHANGED <<seen, held>>

ChangeScope ==
    /\ Gesture /\ scope' \in Scopes \ {scope}
    /\ UNCHANGED <<chat, known, parent, turns, seen, box, held, mode, running, asks>>

\* The effect of a changed scope, or the check at the start of runAgent.
ScopeRendered ==
    /\ seen # scope /\ seen' = scope /\ NewConversation /\ UNCHANGED <<held, gestures>>

Load(c) ==
    /\ Gesture /\ c \in known
    /\ asks' = NoLoad \cup {[what |-> "load", chat |-> chat, scope |-> scope, to |-> c]}
    /\ UNCHANGED <<view, box, held, mode, running>>

\* The attachments and an armed skill stay, whatever conversation is opened.
Loaded(a, found) ==
    /\ a \in asks /\ a.what = "load" /\ asks' = asks \ {a}
    /\ IF Current(a) /\ found
       THEN SwitchTo(a.to) /\ browse' = Idle
       ELSE UNCHANGED <<chat, input, drafts, edit, browse>>
    /\ UNCHANGED <<known, parent, turns, scope, seen, files, armed, held, snap, running, gestures>>

Branch ==
    /\ Gesture /\ ~running /\ turns[chat] # <<>> /\ Ask("branch", Len(turns[chat]))
    /\ UNCHANGED <<view, box, held, mode, running>>

Branched(a) ==
    /\ a \in asks /\ a.what = "branch"
    /\ IF Current(a) /\ Len(turns[chat]) = a.to
       THEN \E c \in Chats \ known :
               /\ SwitchTo(c) /\ known' = known \cup {c} /\ parent' = [parent EXCEPT ![c] = chat]
               /\ turns' = [turns EXCEPT ![c] = turns[chat]] /\ asks' = NoLoad \ {a}
       ELSE asks' = asks \ {a} /\ UNCHANGED <<chat, known, parent, turns, input, drafts, edit>>
    /\ UNCHANGED <<scope, seen, files, armed, browse, held, snap, running, gestures>>

-----------------------------------------------------------------------------
(* Editing a queued prompt in place.                                       *)

\* The pencil of the entry under edit stays enabled, and pressing it again snaps again.
BeginQueueEdit(e) ==
    /\ Gesture /\ e \in Range(queue[chat]) /\ edit \in {None, e.id}
    /\ snap' = [draft |-> input, files |-> files] /\ browse' = Idle
    /\ edit' = e.id /\ input' = e.text /\ files' = e.files
    /\ UNCHANGED <<view, armed, drafts, held, running, asks>>

PositionOf(id) ==
    LET at == {i \in DOMAIN queue[chat] : queue[chat][i].id = id}
    IN  IF at = {} THEN 0 ELSE CHOOSE i \in at : \A k \in at : i <= k

StepQueueEdit(dir) ==
    /\ Gesture /\ edit # None
    /\ LET i == PositionOf(edit) + dir
       IN  /\ i \in DOMAIN queue[chat]
           /\ edit' = queue[chat][i].id
           /\ input' = queue[chat][i].text /\ files' = queue[chat][i].files
    /\ UNCHANGED <<view, armed, drafts, browse, held, snap, running, asks>>

CancelQueueEdit ==
    /\ Gesture /\ edit # None /\ edit' = None /\ snap' = None
    /\ IF snap = None THEN UNCHANGED <<input, files>> ELSE input' = snap.draft /\ files' = snap.files
    /\ UNCHANGED <<view, armed, drafts, browse, held, running, asks>>

-----------------------------------------------------------------------------
(* Saves of the queue: the new list shows at once, and the old one comes   *)
(* back when the save fails or its conversation was left.                  *)

Persist(op, list) ==
    /\ saving = None
    /\ queue' = [queue EXCEPT ![chat] = list]
    /\ saving' = [op |-> op, chat |-> chat, scope |-> scope, before |-> queue[chat],
                  gone |-> Range(queue[chat]) \ Range(list)]

Holds(id) == \E e \in Range(queue[chat]) : e.id = id

\* Enter while a prompt is edited; the edit of an entry that is gone, or emptied, is dropped.
SaveEdit ==
    /\ Gesture /\ edit # None
    /\ IF (input # None \/ files # {}) /\ Holds(edit)
       THEN Persist("edit", [i \in DOMAIN queue[chat] |->
                               IF queue[chat][i].id = edit
                               THEN [queue[chat][i] EXCEPT !.text = input, !.files = files]
                               ELSE queue[chat][i]])
       ELSE UNCHANGED <<queue, saving>>
    /\ edit' = None /\ snap' = None /\ input' = None /\ files' = {} /\ browse' = Idle
    /\ UNCHANGED <<view, armed, drafts, parked, entries, running, asks>>

\* Enter while a run works.
Enqueue ==
    /\ Gesture /\ edit = None /\ running /\ input # None /\ entries < MaxEntries
    /\ entries' = entries + 1 /\ parked' = FALSE
    /\ Persist("add", Append(queue[chat],
                             [id |-> entries + 1, chat |-> chat, text |-> input, files |-> files]))
    /\ input' = None /\ files' = {} /\ browse' = Idle
    /\ UNCHANGED <<view, armed, drafts, mode, running, asks>>

\* An entry is filtered out by its id, which no two entries share.
Without(i) == RemoveAt(queue[chat], i)

DeleteEntry ==
    /\ Gesture /\ \E i \in DOMAIN queue[chat] : Persist("drop", Without(i))
    /\ UNCHANGED <<view, box, mode, parked, entries, running, asks>>

\* The row's send button, or Enter in an empty composer.
SendQueued(i) ==
    /\ Gesture /\ ~running /\ i \in DOMAIN queue[chat] /\ queue[chat][i].id # edit
    /\ Persist("take", Without(i)) /\ parked' = FALSE
    /\ UNCHANGED <<view, box, mode, entries, running, asks>>

\* While a run works the entry goes first, and the run is interrupted once that is saved.
Promote(i) ==
    /\ Gesture /\ running /\ i \in DOMAIN queue[chat] /\ queue[chat][i].id # edit
    /\ Persist("first", <<queue[chat][i]>> \o Without(i))
    /\ UNCHANGED <<view, box, mode, parked, entries, running, asks>>

\* The first queued prompt that is not being edited flows when the chat is idle.
Drain ==
    /\ ~running /\ ~parked
    /\ \E i \in DOMAIN queue[chat] :
         /\ queue[chat][i].id # edit /\ \A k \in 1 .. i - 1 : queue[chat][k].id = edit
         /\ Persist("take", Without(i))
    /\ UNCHANGED <<view, box, mode, parked, entries, running, asks, gestures>>

SaveStands(ok) == ok /\ saving.chat = chat /\ saving.scope = scope

Settled(ok) ==
    /\ saving # None /\ saving' = None
    /\ queue' = IF SaveStands(ok) THEN queue ELSE [queue EXCEPT ![saving.chat] = saving.before]
    /\ parked' = (IF SaveStands(ok) /\ (saving.op = "first" \/ queue[chat] = <<>>) THEN FALSE
                  ELSE parked \/ (~ok /\ saving.chat = chat))
    /\ UNCHANGED entries

SaveEnds(ok) ==
    /\ Settled(ok) /\ (SaveStands(ok) => saving.op # "take")
    /\ UNCHANGED <<view, box, mode, running, asks, gestures>>

RunAgent(text) ==
    /\ seen = scope /\ Len(turns[chat]) < MaxTurns
    /\ turns' = [turns EXCEPT ![chat] = Append(@, text)]
    /\ running' = TRUE /\ armed' = None

EntrySent ==
    /\ Settled(TRUE) /\ SaveStands(TRUE) /\ saving.op = "take"
    /\ \E e \in saving.gone : RunAgent(e.text)
    /\ UNCHANGED <<chat, known, parent, scope, seen, input, files, drafts, browse, mode, asks, gestures>>

\* A scope the view has not rendered yet: the entry has left the queue, and no run starts.
EntryDropped ==
    /\ Settled(TRUE) /\ SaveStands(TRUE) /\ saving.op = "take"
    /\ seen # scope /\ seen' = scope /\ NewConversation /\ UNCHANGED gestures

\* Enter in an idle chat.
Send ==
    /\ Gesture /\ edit = None /\ ~running /\ input # None /\ RunAgent(input)
    /\ input' = None /\ files' = {} /\ browse' = Idle
    /\ UNCHANGED <<chat, known, parent, scope, seen, drafts, held, mode, asks>>

TurnEnds ==
    /\ running /\ running' = FALSE
    /\ UNCHANGED <<view, box, held, mode, asks, gestures>>

-----------------------------------------------------------------------------
ComposerNext ==
    \/ Type \/ Erase \/ AcceptRow \/ Older \/ Newer
    \/ PickVault \/ DropFiles \/ RunSkillOnSelection \/ RemoveFile
    \/ \E a \in asks, ok \in BOOLEAN : Picked(a, ok) \/ SkillLoaded(a, ok) \/ Loaded(a, ok)
    \/ \E a \in asks : Dropped(a) \/ Branched(a)
    \/ New \/ ChangeScope \/ ScopeRendered \/ Branch
    \/ \E c \in Chats : Load(c)
    \/ \E e \in Range(queue[chat]) : BeginQueueEdit(e)
    \/ \E i \in DOMAIN queue[chat] : SendQueued(i) \/ Promote(i)
    \/ \E dir \in {-1, 1} : StepQueueEdit(dir)
    \/ CancelQueueEdit \/ SaveEdit \/ Enqueue \/ DeleteEntry \/ Drain
    \/ \E ok \in BOOLEAN : SaveEnds(ok)
    \/ EntrySent \/ EntryDropped \/ Send \/ TurnEnds

ComposerSpec == ComposerInit /\ [][ComposerNext]_composerVars

-----------------------------------------------------------------------------
\* A conversation and those it was branched from.
Family(c) ==
    {d \in Chats : \A S \in SUBSET Chats :
        c \in S /\ (\A x \in S : parent[x] # None => parent[x] \in S) => d \in S}

(***************************************************************************)
(* What stands in the composer, in a draft, in a queued prompt or in the   *)
(* prompts of a conversation was typed in it, or in one it was branched    *)
(* from: switching, loading, recall, edits and late answers mix no two     *)
(* conversations.                                                          *)
(***************************************************************************)
TextStaysHome ==
    /\ {input, browse.draft} \subseteq Family(chat) \cup {None}
    /\ edit # None /\ snap # None => snap.draft \in Family(chat) \cup {None}
    /\ \A c \in Chats :
         /\ {drafts[c]} \cup Range(turns[c]) \subseteq Family(c) \cup {None}
         /\ \A e \in Range(queue[c]) : e.chat = c /\ e.text \in Family(c) \cup {None}

(***************************************************************************)
(* A queued prompt that is being edited stays in the queue until the edit  *)
(* ends: no drain and no send takes it away under the user's hands.  Only  *)
(* its delete button does, or the failure of the save that queued it.      *)
(***************************************************************************)
EditedStays ==
    edit # None /\ edit' = edit /\ Holds(edit) /\ ~Holds(edit)'
        => DeleteEntry \/ (saving # None /\ saving.op = "add")

(***************************************************************************)
(* A note of the vault or a skill whose read is answered late is not       *)
(* attached to another conversation, nor under another workspace policy,   *)
(* than the one it was asked in.                                           *)
(***************************************************************************)
AttachedWhereAsked ==
    \A a \in asks \ asks' :
        a.what # "disk" /\ ~(a.chat = chat /\ a.scope = scope) => files' \subseteq files /\ armed' \in {armed, None}
=============================================================================
