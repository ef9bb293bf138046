----------------------------- MODULE MoaPresets -----------------------------
(***************************************************************************)
(* The presets of the Mixture of Agents: the section of the settings page  *)
(* that edits a draft of them, made once and never made again, the two     *)
(* gates a draft passes to be saved, the loader, and the picks of the chat *)
(* that put a preset in charge or take it out.  A slot is complete, lacks  *)
(* its model ("half"), or names the mixture itself ("moa").                *)
(***************************************************************************)
EXTENDS Integers, Sequences, FiniteSets, SequencesExt, Places

CONSTANTS
    Names,          \* preset names
    Whole,          \* complete slots
    Seed,           \* the complete slot of the default preset
    None,
    MaxRefs,        \* bound: references of a preset
    MaxOps          \* bound: edits of the section, picks, imports

VARIABLES
    live,           \* settings.moa: None, or a configuration
    draft,          \* moaDraft of the settings tab
    chosen,         \* moaSelected
    problems,       \* the list of problems is on the page
    moaOps

presetVars == <<live, draft, chosen, problems, moaOps>>

Slots == Whole \cup {"half", "moa"}
Preset == [refs : BoundedSeq(Slots, MaxRefs), agg : Slots, enabled : BOOLEAN]

-----------------------------------------------------------------------------
(* The tolerant read. *)

NormalPreset(p) ==
    LET refs == KeepAt(p.refs, {i \in DOMAIN p.refs : p.refs[i] \in Whole}) IN
    [p EXCEPT !.refs = IF refs = <<>> THEN <<Seed>> ELSE refs,
              !.agg = IF @ \in Whole THEN @ ELSE Seed]

(* A default name that is not a preset gives way to a preset, an active one to none. *)
NormalConfig(c) ==
    LET names == DOMAIN c.presets IN
    [presets |-> [n \in names |-> NormalPreset(c.presets[n])],
     default |-> IF c.default \in names THEN c.default ELSE CHOOSE n \in names : TRUE,
     active |-> IF c.active \in names THEN c.active ELSE None]

(* What the section starts from when nothing was ever saved. *)
FirstName == CHOOSE n \in Names : TRUE
Fresh == [presets |-> [n \in {FirstName} |-> [refs |-> <<Seed>>, agg |-> Seed, enabled |-> TRUE]],
          default |-> FirstName, active |-> None]

(* The loud write: validateMoaPayload finds no problem. *)
PresetValid(p) == p.refs # <<>> /\ ToSet(p.refs) \subseteq Whole /\ p.agg \in Whole
Valid(c) == \A n \in DOMAIN c.presets : PresetValid(c.presets[n])

(* moaConfigComplete, the second gate: a slot needs a provider and a model, of any kind. *)
Complete(c) ==
    \A n \in DOMAIN c.presets :
        c.presets[n].refs # <<>> /\ "half" \notin ToSet(c.presets[n].refs) \cup {c.presets[n].agg}

SetActive(c, n) == [NormalConfig(c) EXCEPT !.active = n]

(* exactMoaPresetName *)
NamedPreset(n) == live # None /\ n \in DOMAIN live.presets /\ live.presets[n].enabled

-----------------------------------------------------------------------------
PresetsInit ==
    /\ live = None /\ draft = None /\ chosen = None /\ problems = FALSE
    /\ moaOps = 0

MayOp == moaOps < MaxOps /\ moaOps' = moaOps + 1

(* The section is drawn: the draft is made if there is none yet. *)
OpenSection ==
    /\ draft = None
    /\ draft' = IF live = None THEN Fresh ELSE NormalConfig(live)
    /\ UNCHANGED <<live, chosen, problems, moaOps>>

Selected == IF chosen \in DOMAIN draft.presets THEN chosen ELSE draft.default

Select(n) ==
    /\ draft # None /\ n \in DOMAIN draft.presets /\ n # chosen
    /\ chosen' = n /\ problems' = FALSE
    /\ UNCHANGED <<live, draft, moaOps>>

(* moaSave: only a draft that passes both gates is saved; an explicit action that fails shows
   the problems, a quiet one waits. *)
MoaSave(d, explicit) ==
    IF Valid(d) /\ Complete(d) THEN live' = NormalConfig(d) /\ problems' = FALSE
    ELSE live' = live /\ problems' = (explicit \/ problems)

Edited(d, explicit) == draft' = d /\ MoaSave(d, explicit)

SetDefault ==
    /\ MayOp
    /\ draft # None /\ Edited([draft EXCEPT !.default = Selected], TRUE)
    /\ UNCHANGED chosen

DeletePreset ==
    /\ MayOp
    /\ draft # None /\ Cardinality(DOMAIN draft.presets) > 1
    /\ LET rest == DOMAIN draft.presets \ {Selected}
           next == CHOOSE n \in rest : TRUE
       IN  /\ Edited([presets |-> [n \in rest |-> draft.presets[n]],
                      default |-> IF draft.default = Selected THEN next ELSE draft.default,
                      active |-> IF draft.active = Selected THEN None ELSE draft.active], TRUE)
           /\ chosen' = next

AddPreset(n) ==
    /\ MayOp
    /\ draft # None /\ n \notin DOMAIN draft.presets
    /\ Edited([draft EXCEPT !.presets =
                [k \in DOMAIN @ \cup {n} |-> IF k = n THEN @[Selected] ELSE @[k]]], TRUE)
    /\ chosen' = n

(* What the section makes of one preset: a switch, a slot, a slot less or one more.  A change of
   the provider of a slot leaves it without a model. *)
EditsOf(p) ==
    {[p EXCEPT !.enabled = ~@]}
    \cup {[p EXCEPT !.refs[i] = s] : i \in DOMAIN p.refs, s \in Whole \cup {"half"}}
    \cup {[p EXCEPT !.agg = s] : s \in Whole \cup {"half"}}
    \cup {[p EXCEPT !.refs = RemoveAt(@, i)] : i \in {k \in DOMAIN p.refs : Len(p.refs) > 1}}
    \cup {[p EXCEPT !.refs = Append(@, s)] : s \in {a \in {p.agg} : Len(p.refs) < MaxRefs}}

(* moaUpdatePreset: an edit of the selected preset, saved quietly. *)
UpdatePreset ==
    /\ MayOp
    /\ draft # None
    /\ \E q \in EditsOf(draft.presets[Selected]) :
            Edited([draft EXCEPT !.presets[Selected] = q], FALSE)
    /\ UNCHANGED chosen

-----------------------------------------------------------------------------
(* The chat: the model menu, /model with the exact name of an enabled preset, and a normal
   model, which takes the preset out. *)

PickPreset(n) ==
    /\ MayOp
    /\ live # None /\ n \in DOMAIN live.presets
    /\ live' = SetActive(live, n)
    /\ UNCHANGED <<draft, chosen, problems>>

SlashPreset(n) ==
    /\ MayOp
    /\ NamedPreset(n) /\ live' = SetActive(live, n)
    /\ UNCHANGED <<draft, chosen, problems>>

PickNormal ==
    /\ MayOp
    /\ live # None /\ live.active # None
    /\ live' = SetActive(live, None)
    /\ UNCHANGED <<draft, chosen, problems>>

-----------------------------------------------------------------------------
(* A document edited by hand, or imported: anything may stand in its presets. *)
HandMade ==
    {[presets |-> [n \in {FirstName} |-> p], default |-> d, active |-> a] :
        p \in Preset, d \in Names, a \in Names \cup {None}}

(* The loader, at a start of the app: a new settings page. *)
Restart ==
    /\ \/ live' = (IF live = None THEN None ELSE NormalConfig(live)) /\ UNCHANGED moaOps
       \/ MayOp /\ (\E c \in HandMade : live' = NormalConfig(c))
    /\ draft' = None /\ chosen' = None /\ problems' = FALSE

(* An import or a reset leaves the page, and its draft, as they are. *)
Import ==
    /\ MayOp
    /\ \/ \E c \in HandMade : live' = NormalConfig(c)
       \/ live' = None
    /\ UNCHANGED <<draft, chosen, problems>>

PresetsNext ==
    \/ OpenSection \/ SetDefault \/ DeletePreset \/ UpdatePreset
    \/ \E n \in Names : Select(n) \/ AddPreset(n) \/ PickPreset(n) \/ SlashPreset(n)
    \/ PickNormal \/ Restart \/ Import

PresetsSpec == PresetsInit /\ [][PresetsNext]_presetVars

-----------------------------------------------------------------------------
(* Properties. A formula with primes is about every step. *)

(* What is in force can always be run: every slot of every preset complete, the default and the
   active name among the presets, and nothing left that the next start would repair. *)
PresetsUsable ==
    live # None =>
        /\ Valid(live) /\ live.default \in DOMAIN live.presets
        /\ live.active \in DOMAIN live.presets \cup {None}
        /\ NormalConfig(live) = live

(* The two gates and the tolerant read agree: an edit of the section is saved as it was made,
   nothing of it repaired or dropped on the way. *)
SavedAsEdited ==
    (draft' # draft /\ draft # None /\ draft' # None /\ live' # live) => live'.presets = draft'.presets

=============================================================================
