------------------------------ MODULE MCStores ------------------------------
(***************************************************************************)
(* What the plugin keeps, and the tools and pages that write it, each on a *)
(* small instance: one run of TLC checks them all.  They share no state, so*)
(* a behaviour is of one of them, chosen at the start; s1, s2, ... stand for*)
(* its variables, and those it does not need stay None.                    *)
(***************************************************************************)
EXTENDS Integers, Sequences, TLC

CONSTANTS
    None, Junk, NoText, k1, m1, n1, p1, q1, x, xf, xs, y, z, j1, j2

VARIABLES
    part,    \* the component this behaviour is of
    s1, s2, s3, s4, s5, s6, s7, s8, s9, s10, s11, s12, s13, s14, s15, s16, s17, s18, s19,
    s20

\* The composer needs more variables than the others.
spare == <<s13, s14, s15, s16, s17, s18, s19, s20>>
SpareUnused == s13 = None /\ s14 = None /\ s15 = None /\ s16 = None /\ s17 = None /\ s18 = None /\ s19 = None /\ s20 = None

all == <<part, s1, s2, s3, s4, s5, s6, s7, s8, s9, s10, s11, s12, spare>>

(* What a component is made of: who serves which model, which model is a fast variant or a
   snapshot of which, and what a tool call may ask. *)
MCOwn == p1 :> {x, xf} @@ q1 :> {y}
MCGroups == <<p1, q1>>
MCCatalogs == {<<>>, <<x, xf>>, <<z, xf, y>>, <<y, xs, x, z>>}
MCFast == x :> xf @@ xs :> z @@ xf :> None @@ y :> None @@ z :> None
MCAlias == xs :> x @@ xf :> None @@ x :> None @@ y :> None @@ z :> None
MCLower == "a" :> "a" @@ "A" :> "a"
MCSkillSlug == "a" :> "x" @@ "A" :> "x"
MCOpsOf == "c1" :> {"create", "overwrite", "append", "edit", "delete", "rename", "read", "find"}
           @@ "c2" :> {"delete"}
MCCounted == [path \in {<<"f", "a">>, <<"b">>, <<"w", "f", "a">>, <<"w", "b">>} |-> {path}]

-----------------------------------------------------------------------------
Skills == INSTANCE SkillFiles WITH
    active <- s1, md <- s2, files <- s3, call <- s4, ops <- s5, edits <- s6,
    Calls <- {"c1", "c2"}, Names <- {"a", "A"}, Lower <- MCLower, Dirs <- {"x", "y"},
    SlugOf <- MCSkillSlug, Marks <- {"m", "n"}, Rel <- {"r"}, MaxText <- 2, MaxOps <- 2,
    MaxEdits <- 1

Notes == INSTANCE MemoryNotes WITH
    note <- s1, limit <- s2, call <- s3, prompt <- s4, ops <- s5, edits <- s6,
    Calls <- {"c1", "c2"}, Entries <- {x, y, z}, Long <- {y}, Activity <- {z},
    Limits <- {2, 3}, MaxOps <- 2, MaxEdits <- 2

Eng == INSTANCE EngineMemory WITH
    folder <- s1, disk <- s2, job <- s3, turns <- s4, now <- s5, recalled <- s6,
    moves <- s7, wrote <- s8, Jobs <- {j1, j2}, Folders <- {"f", "g"}, Keys <- {k1, m1},
    Threats <- {m1}, EveryN <- 1, MaxFacts <- 1, MaxObs <- 1, DueAt <- 1, RecallMax <- 1,
    MaxTurns <- 2, MaxMoves <- 1

Fields == INSTANCE SettingsFields WITH
    field <- s1, live <- s2, disk <- s3, saving <- s4, failed <- s5, page <- s6,
    store <- s7, imported <- s8, edits <- s9, Junk <- Junk, Blank <- NoText, MaxEdits <- 2

List == INSTANCE CommandList WITH
    commands <- s1, rows <- s2, disk <- s3, saves <- s4, armed <- s5, dragging <- s6,
    modal <- s7, deleted <- s8, ops <- s9, Seeds <- {x, y}, Texts <- {z}, MaxOps <- 2

Routes == INSTANCE ModelRoutes WITH
    active <- s1, model <- s2, catalog <- s3, urls <- s4, aux <- s5, fallbacks <- s6,
    pick <- s7, auxEdit <- s8, fetches <- s9, gen <- s10, fetched <- s11, edits <- s12,
    Providers <- {p1, q1}, Own <- MCOwn, Typed <- {z}, Slots <- {k1}, MaxFetches <- 1,
    MaxEdits <- 2, MaxRows <- 1

Presets == INSTANCE MoaPresets WITH
    live <- s1, draft <- s2, chosen <- s3, problems <- s4, moaOps <- s5, Names <- {m1, n1},
    Whole <- {x, y}, Seed <- x, MaxRefs <- 2, MaxOps <- 2

Menu == INSTANCE ModelMenu WITH
    catalog <- s1, stored <- s2, current <- s3, searching <- s4, collapsed <- s5,
    override <- s6, last <- s7, changes <- s8, Groups <- MCGroups, Catalogs <- MCCatalogs,
    FastOf <- MCFast, AliasOf <- MCAlias, Matches <- {xf}, DefaultVisible <- 1,
    MaxChanges <- 2

Sessions == INSTANCE SessionFiles WITH
    dir <- s1, files <- s2, shown <- s3, title <- s4, running <- s5, jobs <- s6,
    moved <- s7, request <- s8, clock <- s9, ops <- s10, Partitions <- {p1, q1},
    Ids <- {x, y}, Titles <- {z}, Limit <- 1, MaxOps <- 3

Box == INSTANCE Composer WITH
    chat <- s1, known <- s2, parent <- s3, turns <- s4, scope <- s5, seen <- s6,
    input <- s7, files <- s8, armed <- s9, drafts <- s10, browse <- s11, queue <- s12,
    saving <- s13, parked <- s14, edit <- s15, snap <- s16, running <- s17, asks <- s18,
    entries <- s19, gestures <- s20, Chats <- {p1, q1}, Scopes <- {x, y}, MaxFiles <- 1,
    MaxEntries <- 2, MaxTurns <- 2, MaxGestures <- 3

Vault == INSTANCE VaultTools WITH
    mode <- s1, note <- s2, mtime <- s3, writes <- s4, snaps <- s5, call <- s6, ops <- s7,
    edits <- s8, touched <- s9, Calls <- {"c1", "c2"}, OpsOf <- MCOpsOf,
    Raws <- {<<"f", "a">>, <<"b">>}, Folders <- {<<"f">>},
    Root <- <<"w">>, Config <- <<"c">>, Excluded <- {<<"w", "f", "a">>},
    Modes <- {"whole", "strict"}, Missing <- {<<"b">>}, First <- <<"m", "n">>,
    Typed <- {None, <<"m", "m", "m">>}, Olds <- {"m"}, News <- {"k"}, Store <- <<"s">>,
    Counted <- MCCounted, MaxSnapshots <- 1, Ceiling <- 2, MaxOps <- 2, MaxEdits <- 1

-----------------------------------------------------------------------------
StoresInit ==
    \/ /\ part = "skills" /\ Skills!SkillsInit
       /\ s7 = None /\ s8 = None /\ s9 = None /\ s10 = None /\ s11 = None /\ s12 = None /\ SpareUnused
    \/ /\ part = "notes" /\ Notes!NotesInit
       /\ s7 = None /\ s8 = None /\ s9 = None /\ s10 = None /\ s11 = None /\ s12 = None /\ SpareUnused
    \/ /\ part = "engine" /\ Eng!EngInit
       /\ s9 = None /\ s10 = None /\ s11 = None /\ s12 = None /\ SpareUnused
    \/ /\ part = "fields" /\ Fields!FieldsInit
       /\ s10 = None /\ s11 = None /\ s12 = None /\ SpareUnused
    \/ /\ part = "list" /\ List!ListInit
       /\ s10 = None /\ s11 = None /\ s12 = None /\ SpareUnused
    \/ /\ part = "routes" /\ Routes!RoutesInit
       /\ SpareUnused
    \/ /\ part = "presets" /\ Presets!PresetsInit
       /\ s6 = None /\ s7 = None /\ s8 = None /\ s9 = None /\ s10 = None /\ s11 = None /\ s12 = None /\ SpareUnused
    \/ /\ part = "menu" /\ Menu!MenuInit
       /\ s9 = None /\ s10 = None /\ s11 = None /\ s12 = None /\ SpareUnused
    \/ /\ part = "sessions" /\ Sessions!FilesInit
       /\ s11 = None /\ s12 = None /\ SpareUnused
    \/ /\ part = "composer" /\ Box!ComposerInit
    \/ /\ part = "vault" /\ Vault!VaultInit
       /\ s10 = None /\ s11 = None /\ s12 = None /\ SpareUnused

InSkills == part = "skills" /\ UNCHANGED <<part, s7, s8, s9, s10, s11, s12, spare>>
InNotes == part = "notes" /\ UNCHANGED <<part, s7, s8, s9, s10, s11, s12, spare>>
InEngine == part = "engine" /\ UNCHANGED <<part, s9, s10, s11, s12, spare>>
InFields == part = "fields" /\ UNCHANGED <<part, s10, s11, s12, spare>>
InList == part = "list" /\ UNCHANGED <<part, s10, s11, s12, spare>>
InRoutes == part = "routes" /\ UNCHANGED <<part, spare>>
InPresets == part = "presets" /\ UNCHANGED <<part, s6, s7, s8, s9, s10, s11, s12, spare>>
InMenu == part = "menu" /\ UNCHANGED <<part, s9, s10, s11, s12, spare>>
InSessions == part = "sessions" /\ UNCHANGED <<part, s11, s12, spare>>
InComposer == part = "composer" /\ UNCHANGED part
InVault == part = "vault" /\ UNCHANGED <<part, s10, s11, s12, spare>>

StoresNext ==
    \/ InSkills /\ Skills!SkillsNext
    \/ InNotes /\ Notes!NotesNext
    \/ InEngine /\ Eng!EngNext
    \/ InFields /\ Fields!FieldsNext
    \/ InList /\ List!ListNext
    \/ InRoutes /\ Routes!RoutesNext
    \/ InPresets /\ Presets!PresetsNext
    \/ InMenu /\ Menu!MenuNext
    \/ InSessions /\ Sessions!FilesNext
    \/ InComposer /\ Box!ComposerNext
    \/ InVault /\ Vault!VaultNext

(* What goes on by itself: timers, answers and the code after an await.  A behaviour stays in
   its part, so one condition stands for one of each part; the second calls of a part that
   needs fairness for each call have their own. *)
GoesOn ==
    \/ InSkills /\ \E c \in {"c1", "c2"} : Skills!CallStep(c)
    \/ InNotes /\ \E c \in {"c1", "c2"} : Notes!CallStep(c)
    \/ InEngine /\ \E j \in {j1, j2} : Eng!JobStep(j)
    \/ InSessions /\ ((\E j \in s6 : Sessions!JobStep(j)) \/ Sessions!RunEnds)
    \/ InVault /\ Vault!ToolStep("c1")

SecondGoesOn ==
    \/ InVault /\ Vault!ToolStep("c2")

StoresFairness == WF_all(GoesOn) /\ WF_all(SecondGoesOn)

StoresSpec == StoresInit /\ [][StoresNext]_all /\ StoresFairness

-----------------------------------------------------------------------------
(***************************************************************************)
(* What every store and every page over it promises, as its module says    *)
(* it: what a prompt is given of the notes and of the engine's facts, and  *)
(* when a folder counts as consolidated; that settings survive the next    *)
(* start; that commands, model pairs and presets stay usable; that a       *)
(* session file stays in its partition, and what is typed in a chat in     *)
(* that chat; that a paged note is whole.                                  *)
(***************************************************************************)
StoresHold ==
    /\ part = "notes" => Notes!NotesTypeOK /\ Notes!PromptBounded
    /\ part = "engine" => Eng!EngTypeOK /\ Eng!FactsBounded /\ Eng!MarkIsLast /\ Eng!RecallClean
    /\ part = "fields" => Fields!FieldsHold
    /\ part = "list" => List!DeletedStaysGone /\ List!OneById
    /\ part = "routes" => Routes!PairsMatch
    /\ part = "presets" => Presets!PresetsUsable
    /\ part = "menu" => Menu!CurrentShown
    /\ part = "skills" => Skills!SkillsTypeOK
    /\ part = "sessions" =>
         /\ Sessions!FilesTypeOK /\ Sessions!StaysHome
         /\ Sessions!ShownIsHere /\ Sessions!StoreBounded
    /\ part = "composer" => Box!TextStaysHome
    /\ part = "vault" => Vault!PagesWhole

(***************************************************************************)
(* What no step of a store may do: break a budget, drop what was just      *)
(* learnt, lose a command but by its delete button, take the chat's model  *)
(* away, save a preset other than as edited, turn another row's switch,    *)
(* patch a skill that was not meant or more of it than was asked, open a   *)
(* chat not asked for last, take away a queued prompt under edit, attach a *)
(* file where it was not asked, write a note other than was shown, out of  *)
(* scope, or without a snapshot.                                           *)
(***************************************************************************)
StoresStep ==
    [][/\ part = "notes" => Notes!BudgetHeld
       /\ part = "engine" => Eng!JustLearntKept
       /\ part = "list" => List!LeavesByDelete /\ List!WrittenStaysGone
       /\ part = "routes" => Routes!NotStolen
       /\ part = "presets" => Presets!SavedAsEdited
       /\ part = "menu" => Menu!ToggleFlipsOne /\ Menu!HiddenStaysHidden
       /\ part = "skills" => Skills!MeantOne /\ Skills!OnlyItsPart
       /\ part = "sessions" => Sessions!OpensLastAsked
       /\ part = "composer" => Box!EditedStays /\ Box!AttachedWhereAsked
       /\ part = "vault" => Vault!AcceptedAsShown /\ Vault!NothingLost /\ Vault!WithinScope]_all

Waiting ==
    \/ part = "notes" /\ \E c \in {"c1", "c2"} : Notes!Waits(c)
    \/ part = "engine" /\ \E j \in {j1, j2} : Eng!Waits(j)
    \/ part = "skills" /\ \E c \in {"c1", "c2"} : Skills!Waits(c)
    \/ part = "sessions" /\ Sessions!Waits
    \/ part = "vault" /\ \E c \in {"c1", "c2"} : Vault!Waits(c)

(***************************************************************************)
(* What was begun ends: a tool call on the notes, the skills or the vault, *)
(* a background job of the memory, a save, load, rename or branch of a     *)
(* session.                                                                *)
(***************************************************************************)
StoresSettle == Waiting ~> ~Waiting

=============================================================================
