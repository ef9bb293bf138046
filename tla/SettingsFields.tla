--------------------------- MODULE SettingsFields ---------------------------
(***************************************************************************)
(* One field of the settings and the three places that decide its value:   *)
(* the control of the settings page that commits what the user types, the  *)
(* loader that turns a stored or imported document back into settings, and *)
(* the defaults that the reset control puts back.  They are written in     *)
(* different files and agree only by convention.  The field is chosen at   *)
(* the start; the page holds the settings object it was drawn with, which  *)
(* an import replaces before the page is drawn again, and a save may fail. *)
(* Shares are hundredths, a text is one of the classes of Texts.           *)
(***************************************************************************)
EXTENDS Integers, TLC

CONSTANTS
    Junk,           \* a stored value of another type, or text that is no number
    Blank,          \* "" or null: a number to Number(), not to the loader's toNum
    MaxEdits        \* bound: commits, hand edits, resets and imports

VARIABLES
    field,          \* the field under study
    live,           \* its value in the running settings
    disk,           \* its value in data.json
    saving,         \* a save is on its way
    failed,         \* the last save that ended failed
    page,           \* "bound" to the running settings, or "stale"
    store,          \* the value the running store was last given
    imported,       \* an import was taken over and nothing saved since
    edits

fieldVars == <<field, live, disk, saving, failed, page, store, imported, edits>>

-----------------------------------------------------------------------------
(* Texts and numbers. *)

Texts == {"", "plain", "padded", "spaced", "long", "control", "dashed", "url", "outside"}

Trim(t) == IF t = "padded" THEN "plain" ELSE t

(* Number(raw): NaN is Junk. *)
Numbered(raw) == IF raw = Blank THEN 0 ELSE raw

Within(lo, hi, n) == IF n < lo THEN lo ELSE IF n > hi THEN hi ELSE n

(* canonicalVaultPath throws for a path that leaves the vault or holds a control character. *)
Canonical(t, bad) == IF t \in {"outside", "control", ""} THEN bad ELSE Trim(t)

-----------------------------------------------------------------------------
(* What a control commits, page by page.  A rule is a record whose "by" names the control. *)

Toggle == [by |-> "pick", of |-> BOOLEAN]
Choice(options) == [by |-> "pick", of |-> options]
Slider(lo, hi) == [by |-> "slider", lo |-> lo, hi |-> hi]
Typed(lo, hi) == [by |-> "typed", lo |-> lo, hi |-> hi]
Text(how) == [by |-> how]

GeneralPage ==
    [enterToSend |-> Toggle, chatLeafLocation |-> Choice({"left", "main", "right"})]

AppearancePage ==
    [toolViewMode |-> Choice({"collapsed", "expanded", "hidden"}),
     reasoningCollapsedByDefault |-> Toggle, showIntroScreen |-> Toggle,
     sessionListDensity |-> Choice({"comfortable", "compact"}),
     showReactions |-> Toggle, showTimestamps |-> Toggle]

SafetyPage ==
    [approvalMode |-> Choice({"manual", "cautious", "yolo"}),
     approvalTimeoutSec |-> Typed(0, 600),
     redactSecrets |-> Toggle, checkpointsEnabled |-> Toggle]

AdvancedPage ==
    [maxIterations |-> Slider(1, 40),
     toolOutputMaxChars |-> Typed(1000, 50000),
     checkpointMaxSnapshots |-> Typed(5, 200),
     customSystemPrompt |-> Text("raw"),
     requestTimeoutMs |-> [by |-> "atleast", lo |-> 5000, bad |-> 120000],
     debugMode |-> Toggle]

WorkspacePage ==
    [workspaceMode |-> Choice({"whole-vault", "preferred-folder", "strict-folder"}),
     workspaceFolder |-> Text("trimmed")]

ReadLimit == [fileReadMaxChars |-> Typed(1000, 20000)]

MemoryPage ==
    [memoryEnabled |-> Toggle, userProfileEnabled |-> Toggle,
     memoryFolder |-> Text("folder"),
     memoryCharLimit |-> Typed(500, 20000), userCharLimit |-> Typed(500, 20000),
     memoryNudgeInterval |-> Slider(0, 30)]

StructuredMemoryPage ==
    [memoryEngineEnabled |-> Toggle,
     memoryEngineRetainEveryN |-> Slider(1, 10), memoryEngineRecallMax |-> Slider(3, 20)]

ContextPage ==
    [modelContextLength |-> [by |-> "window"],
     contextFile |-> Text("trimmed"), includeActiveNote |-> Toggle]

CompressionPage ==
    [compressionEnabled |-> Toggle, compressionThreshold |-> Slider(10, 99),
     compressionTargetRatio |-> Slider(5, 50), compressionProtectLastN |-> Slider(0, 24)]

NotificationsPage ==
    [nativeEnabled |-> Toggle, nativeKind |-> Toggle]

SoundPage ==
    [completionSoundEnabled |-> Toggle, completionSoundVariant |-> Choice(1..14)]

TerminalPage ==
    [terminalBackend |-> Choice({"docker", "local"}), dockerImage |-> Text("image"),
     localExpertEnabled |-> Toggle]

ModelPage ==
    [reasoningEffort |-> Choice({"none", "medium", "ultra"}),
     temperature |-> Slider(-100, 200),
     maxTokens |-> [by |-> "unlimited", lo |-> 0],
     streaming |-> Toggle, titleGenerationEnabled |-> Toggle]

ChatPage ==
    [saveSessions |-> Toggle, maxSessions |-> Slider(10, 500),
     personality |-> Choice({"none", "plain"})]

CommandPage ==
    [editorContextMenu |-> Toggle, editorContextMenuAdd |-> Toggle,
     editorContextMenuAsk |-> Toggle, editorContextMenuSkill |-> Toggle,
     editorContextMenuQuickAsk |-> Toggle]

ToolsetsPage == [toolset |-> Toggle]

WebSearchPage ==
    [webSearchBackend |-> Choice({"ddgs", "brave", "tavily", "searxng"}),
     webSearchKey |-> Text("trimmed"), searxngUrl |-> Text("url")]

Pages ==
    GeneralPage @@ AppearancePage @@ SafetyPage @@ AdvancedPage @@ WorkspacePage @@ ReadLimit
    @@ MemoryPage @@ StructuredMemoryPage @@ ContextPage @@ CompressionPage
    @@ NotificationsPage @@ SoundPage @@ TerminalPage @@ ModelPage @@ ChatPage @@ CommandPage
    @@ ToolsetsPage @@ WebSearchPage

Fields == DOMAIN Pages

(* The number a slider's box or rail ends with: outside the rail it is clamped. *)
Slid(rule, n) == IF rule.by = "unlimited" THEN (IF n < rule.lo THEN rule.lo ELSE n)
                 ELSE Within(rule.lo, rule.hi, n)

(* A text box: the commit of the field, or the value it had when the entry is refused. *)
Entered(rule, old, t) ==
    CASE rule.by = "raw" -> t
      [] rule.by = "trimmed" -> Trim(t)
      [] rule.by = "folder" -> Canonical(IF t = "" THEN "openagent" ELSE t, old)
      [] rule.by = "url" -> IF t = "url" THEN t ELSE ""
      [] rule.by = "image" -> IF t \in {"", "long", "control", "spaced", "dashed"} THEN old
                              ELSE Trim(t)

(* What the user can put into the control of f. *)
Inputs(f) ==
    LET rule == Pages[f] IN
    CASE rule.by = "pick" -> rule.of
      [] rule.by = "slider" -> {rule.lo - 1, rule.lo, rule.hi, rule.hi + 1}
      [] rule.by = "typed" -> {rule.lo - 1, rule.lo, rule.hi, rule.hi + 1, Blank, Junk}
      [] rule.by \in {"unlimited", "atleast"} -> {rule.lo - 1, rule.lo, 9999, Blank, Junk}
      [] rule.by = "window" -> {-1, 0, 9999, Blank, Junk}
      [] OTHER -> Texts

(* The handler of the control, given the value the field had. *)
Committed(f, old, raw) ==
    LET rule == Pages[f]
        n == Numbered(raw) IN
    CASE rule.by = "pick" -> raw
      [] rule.by = "typed" -> IF n = Junk THEN old ELSE Within(rule.lo, rule.hi, n)
      [] rule.by \in {"slider", "unlimited"} -> IF raw \in {Junk, Blank} THEN old ELSE Slid(rule, n)
      [] rule.by = "atleast" -> IF n \in {Junk, 0} THEN rule.bad
                                ELSE Within(rule.lo, 999999, n)
      [] rule.by = "window" -> IF n = Junk THEN 0 ELSE Within(0, 999999, n)
      [] OTHER -> Entered(rule, old, raw)

-----------------------------------------------------------------------------
(* What the loader makes of a stored value, group by group. *)

AsIs == [as |-> "asis"]
IsTrue == [as |-> "enum", of |-> {TRUE}, bad |-> FALSE]
NotFalse == [as |-> "enum", of |-> {FALSE}, bad |-> TRUE]
OneOf(options, bad) == [as |-> "enum", of |-> options, bad |-> bad]
Clamp(lo, hi, bad) == [as |-> "clamp", lo |-> lo, hi |-> hi, bad |-> bad]
ClampFilled(lo, hi, bad) == [as |-> "filled", lo |-> lo, hi |-> hi, bad |-> bad]

Inside(lo, hi, bad) == [as |-> "inside", lo |-> lo, hi |-> hi, bad |-> bad]

LoadFolders == [memoryFolder |-> [as |-> "folder", bad |-> "openagent"]]

LoadWorkspace ==
    [workspaceMode |-> OneOf({"preferred-folder", "strict-folder"}, "whole-vault"),
     workspaceFolder |-> [as |-> "trimmed"],
     fileReadMaxChars |-> Clamp(1000, 20000, 20000)]

LoadToolsets ==
    [toolset |-> IsTrue, terminalBackend |-> OneOf({"local"}, "docker"),
     dockerImage |-> [as |-> "image", bad |-> "plain"], localExpertEnabled |-> IsTrue]

LoadNotifications ==
    [nativeEnabled |-> IsTrue, nativeKind |-> NotFalse, completionSoundEnabled |-> IsTrue,
     completionSoundVariant |-> Inside(1, 14, 1)]

LoadMemory ==
    [memoryCharLimit |-> ClampFilled(500, 20000, 4000),
     userCharLimit |-> ClampFilled(500, 20000, 2500),
     memoryEngineEnabled |-> NotFalse,
     memoryEngineRetainEveryN |-> Clamp(1, 10, 1),
     memoryEngineRecallMax |-> Clamp(3, 20, 8)]

LoadAppearance ==
    [toolViewMode |-> OneOf({"expanded", "hidden"}, "collapsed"),
     reasoningCollapsedByDefault |-> IsTrue,
     sessionListDensity |-> OneOf({"compact"}, "comfortable"),
     showIntroScreen |-> NotFalse, showReactions |-> NotFalse,
     chatLeafLocation |-> OneOf({"left", "main"}, "right")]

LoadSafety ==
    [approvalTimeoutSec |-> Clamp(0, 600, 0),
     redactSecrets |-> NotFalse, checkpointsEnabled |-> NotFalse,
     checkpointMaxSnapshots |-> ClampFilled(5, 200, 30),
     toolOutputMaxChars |-> ClampFilled(1000, 50000, 5000)]

LoadWebSearch ==
    [webSearchBackend |-> OneOf({"brave", "tavily", "searxng"}, "ddgs"),
     webSearchKey |-> [as |-> "key"], searxngUrl |-> [as |-> "url"]]

LoadContext ==
    [modelContextLength |-> [as |-> "window"], compressionEnabled |-> NotFalse,
     compressionThreshold |-> Inside(10, 99, 50),
     compressionProtectLastN |-> Inside(0, 24, 20),
     compressionTargetRatio |-> Inside(5, 50, 20),
     titleGenerationEnabled |-> IsTrue,
     personality |-> OneOf({"plain"}, "none")]

(* A field the loader does not name is copied by the spread at its head. *)
Loads ==
    LoadFolders @@ LoadWorkspace @@ LoadToolsets @@ LoadNotifications @@ LoadMemory @@ LoadAppearance
    @@ LoadSafety @@ LoadWebSearch @@ LoadContext @@ [f \in Fields |-> AsIs]

Loaded(f, raw) ==
    LET rule == Loads[f]
        n == Numbered(raw) IN
    CASE rule.as = "asis" -> raw
      [] rule.as = "enum" -> IF raw \in rule.of THEN raw ELSE rule.bad
      [] rule.as = "clamp" -> IF n = Junk THEN rule.bad ELSE Within(rule.lo, rule.hi, n)
      [] rule.as = "filled" -> IF raw \in {Junk, Blank} THEN rule.bad ELSE Within(rule.lo, rule.hi, n)
      [] rule.as = "inside" -> IF n # Junk /\ n >= rule.lo /\ n <= rule.hi THEN n ELSE rule.bad
      [] rule.as = "window" -> IF n = Junk THEN 0 ELSE Within(0, 999999, n)
      [] rule.as = "folder" -> IF raw = Junk THEN rule.bad ELSE Canonical(raw, rule.bad)
      [] rule.as = "trimmed" -> IF raw = Junk THEN "" ELSE Trim(raw)
      [] rule.as = "key" -> IF raw \in {Junk, "long", "control"} THEN "" ELSE Trim(raw)
      [] rule.as = "url" -> IF raw = "url" THEN raw ELSE ""
      [] rule.as = "image" -> IF raw \in {Junk, "", "long", "control"} THEN rule.bad ELSE Trim(raw)

(* The value of DEFAULT_SETTINGS: what the loader makes of a missing value, the rest by name. *)
Default(f) ==
    CASE f \in {"maxIterations"} -> 12
      [] f = "maxSessions" -> 100
      [] f = "memoryNudgeInterval" -> 8
      [] f = "temperature" -> 70
      [] f = "maxTokens" -> 4096
      [] f = "requestTimeoutMs" -> 120000
      [] f \in {"customSystemPrompt", "webSearchKey", "searxngUrl", "workspaceFolder"} -> ""
      [] f = "contextFile" -> "plain"
      [] f = "approvalMode" -> "cautious"
      [] f = "reasoningEffort" -> "medium"
      [] f \in {"enterToSend", "showTimestamps", "debugMode"} -> FALSE
      [] Loads[f].as = "asis" -> TRUE
      [] f = "modelContextLength" -> 0
      [] f = "toolset" -> TRUE
      [] OTHER -> Loads[f].bad

(* A hand edited, older or imported document may hold anything. *)
Stored(f) ==
    LET rule == Pages[f] IN
    {Junk} \cup CASE rule.by = "pick" -> rule.of
                  [] rule.by \in {"slider", "typed"} ->
                        {rule.lo - 1, rule.lo, rule.hi, rule.hi + 1, Blank}
                  [] rule.by \in {"unlimited", "atleast"} -> {rule.lo - 1, rule.lo, 9999, Blank}
                  [] rule.by = "window" -> {-1, 0, 9999, Blank}
                  [] OTHER -> Texts

-----------------------------------------------------------------------------
(* The page, the saves and the restarts. *)

Limits == {"memoryCharLimit", "userCharLimit"}

FieldsInit ==
    /\ field \in Fields
    /\ live = Default(field) /\ disk = live /\ store = live
    /\ saving = FALSE /\ failed = FALSE
    /\ page = "bound" /\ imported = FALSE /\ edits = 0

MayEdit == edits < MaxEdits /\ edits' = edits + 1

(* The user commits a value; the budgets reach the memory store at once.  On a stale page the
   handler writes to the object it was drawn with, and the save writes the running settings. *)
Edit ==
    /\ MayEdit
    /\ \E raw \in Inputs(field) :
        /\ live' = IF page = "bound" THEN Committed(field, live, raw) ELSE live
        /\ store' = IF field \in Limits \cup {"maxSessions"} /\ raw # Junk
                    THEN Committed(field, live, raw) ELSE store
    /\ saving' = TRUE
    /\ UNCHANGED <<field, disk, failed, page, imported>>

(* The reset control exists only while the value differs from the default. *)
ResetField ==
    /\ MayEdit
    /\ page = "bound" /\ live # Default(field)
    /\ live' = Default(field)
    /\ saving' = TRUE
    /\ UNCHANGED <<field, disk, failed, page, store, imported>>

(* The reset of all settings: the defaults as the loader gives them, and an ordinary save. *)
ResetAll ==
    /\ MayEdit
    /\ live' = Default(field)
    /\ page' = "stale" /\ saving' = TRUE
    /\ UNCHANGED <<field, disk, failed, store, imported>>

(* saveSettings: the write, and after it the limits handed to the memory store again. *)
SaveLands ==
    /\ saving
    /\ disk' = live /\ saving' = FALSE /\ failed' = FALSE /\ imported' = FALSE
    /\ store' = IF field \in Limits THEN live ELSE store
    /\ UNCHANGED <<field, live, page, edits>>

(* The write fails: the user is told, the value stays as typed. *)
SaveFails ==
    /\ saving
    /\ saving' = FALSE /\ failed' = TRUE
    /\ UNCHANGED <<field, live, disk, page, store, imported, edits>>

(* An import writes the candidate itself, past saveSettings, and replaces the settings object
   under the page; folders are bound again, limits are not. *)
Import ==
    /\ MayEdit
    /\ \E raw \in Stored(field) : live' = Loaded(field, raw)
    /\ disk' = live' /\ page' = "stale" /\ imported' = TRUE
    /\ UNCHANGED <<field, saving, failed, store>>

Display ==
    /\ page = "stale" /\ page' = "bound"
    /\ UNCHANGED <<field, live, disk, saving, failed, store, imported, edits>>

(* The app is closed and opened again, with data.json perhaps edited by hand meanwhile. *)
Restart ==
    /\ ~saving
    /\ \/ disk' = disk /\ edits' = edits
       \/ MayEdit /\ disk' \in Stored(field)
    /\ live' = Loaded(field, disk')
    /\ store' = IF field \in Limits \cup {"maxSessions"} THEN live' ELSE store
    /\ page' = "bound" /\ failed' = FALSE /\ imported' = FALSE
    /\ UNCHANGED <<field, saving>>

FieldsNext ==
    \/ Edit \/ ResetField \/ ResetAll \/ SaveLands \/ SaveFails \/ Import \/ Display \/ Restart

FieldsSpec == FieldsInit /\ [][FieldsNext]_fieldVars

-----------------------------------------------------------------------------
(* Properties. *)

(* A key of more than 512 characters, or with a control character, is the one entry the page
   takes and the loader drops. *)
Oversized == field = "webSearchKey" /\ live \in {"long", "control"}

(* What the page shows as set is what the next start reads back: the loader leaves every value
   that a control, the reset or the loader itself can produce as it is. *)
WhatYouSetIsKept == Loaded(field, live) = live \/ Oversized

(* The loader never hands out a number outside the bounds of its page, whatever was stored;
   the fields it only copies are not covered. *)
LoadedInBounds ==
    (Loads[field].as \in {"clamp", "filled", "inside"} /\ Pages[field].by \in {"typed", "slider"})
        => live >= Pages[field].lo /\ live <= Pages[field].hi

(* With no save on its way and the last one landed, the memory store works with the budget the
   settings show, however it came to be: typed, reset or loaded. *)
BudgetFollowsSaves ==
    (field \in Limits /\ ~saving /\ ~failed /\ ~imported) => store = live

FieldsHold == WhatYouSetIsKept /\ LoadedInBounds /\ BudgetFollowsSaves

=============================================================================
