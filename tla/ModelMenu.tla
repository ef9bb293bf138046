------------------------------ MODULE ModelMenu -----------------------------
(***************************************************************************)
(* The model menu and its dialog of visible models.  A model and its fast  *)
(* variant are one family with one row and one switch, and a dated         *)
(* snapshot gives way to its alias.  The stored set of visible models is   *)
(* None until the user first changes it; a key with no model (None) is the *)
(* mark of a provider hidden as a whole.  The rows shown follow the        *)
(* catalogs, the search and the collapsed groups; the keyboard moves over  *)
(* the same rows.                                                          *)
(***************************************************************************)
EXTENDS Integers, Sequences, FiniteSets, SequencesExt

CONSTANTS
    Groups,         \* the providers, in the order of their names
    Catalogs,       \* what a provider may report: sequences of models
    FastOf,         \* [m]: the id of the fast variant of m, or None
    AliasOf,        \* [m]: the model that a dated snapshot m is one of, or None
    Matches,        \* the models the search text at hand finds
    None,
    DefaultVisible, \* families shown of a provider never customised
    MaxChanges      \* bound: switches, catalogs, picks

VARIABLES
    catalog,        \* [p]: the provider's models
    stored,         \* settings.visibleModels
    current,        \* the pair in use: [prov, model]
    searching,      \* the search field holds a text
    collapsed,      \* groups folded away
    override,       \* row the keyboard moved to, or None
    last,           \* the last switch or pick: [op, prov, model] (observer)
    changes

menuVars == <<catalog, stored, current, searching, collapsed, override, last, changes>>

Providers == ToSet(Groups)
Models == DOMAIN FastOf
Present(cat, m) == m # None /\ \E n \in DOMAIN cat : cat[n] = m

(* collapseModelFamilies: the base ids, in the order of the catalog. *)
IsFamily(cat, m) == m \in ToSet(cat) /\ ~ (\E b \in ToSet(cat) : FastOf[b] = m) /\ ~ Present(cat, AliasOf[m])
Families(cat) == SelectSeq(cat, LAMBDA m : IsFamily(cat, m))

FastIn(cat, m) == IF Present(cat, FastOf[m]) THEN FastOf[m] ELSE None

Key(p, m) == <<p, m>>
Sentinel(p) == <<p, None>>
Defaults(p) ==
    LET cat == catalog[p]
        fams == {k \in DOMAIN cat : IsFamily(cat, cat[k])}
    IN  {Key(p, cat[n]) : n \in {k \in fams : Cardinality({j \in fams : j <= k}) <= DefaultVisible}}

(* resolveVisibleKeys: a provider with no key of its own shows its defaults. *)
Working ==
    IF stored = None THEN UNION {Defaults(p) : p \in Providers}
    ELSE stored \cup UNION {Defaults(p) : p \in {q \in Providers : ~ \E k \in stored : k[1] = q}}

(* effectiveVisibleKeys: the marks are not shown. *)
Visible == {k \in Working : k[2] # None}

(* toggleModelVisibility: hiding the last model leaves the mark, showing one takes it away. *)
Toggled(p, m) ==
    LET without == Working \ {Key(p, m)} IN
    IF Key(p, m) \notin Working THEN (Working \ {Sentinel(p)}) \cup {Key(p, m)}
    ELSE IF \E k \in without : k[1] = p /\ k[2] # None THEN without
    ELSE without \cup {Sentinel(p)}

(* setProviderVisibility *)
ProviderSet(p, on) ==
    {k \in Working : k[1] # p}
        \cup (IF on THEN {Key(p, m) : m \in {k \in Models : IsFamily(catalog[p], k)}} ELSE {Sentinel(p)})

-----------------------------------------------------------------------------
(* groupMenuModels and the rows under it; the model in use is always among them, but while
   searching only the matches are. *)
RowsOf(p) ==
    LET cat == catalog[p]
        fams == Families(cat)
        shown == SelectSeq(fams, LAMBDA m :
                    IF searching THEN m \in Matches \/ FastIn(cat, m) \in Matches
                    ELSE \/ Key(p, m) \in Visible
                         \/ p = current.prov /\ current.model \in {m, FastIn(cat, m)})
    IN  IF ~searching /\ p \in collapsed THEN <<>>
        ELSE [n \in DOMAIN shown |-> [prov |-> p, model |-> shown[n], fast |-> FastIn(cat, shown[n])]]

Rows == FlattenSeq([n \in DOMAIN Groups |-> RowsOf(Groups[n])])

IsCurrent(row) == \/ row.prov = current.prov /\ row.model = current.model
                  \/ row.fast # None /\ row.fast = current.model

(* The row the keyboard stands on: where it moved to while that row exists, else the first
   match of a search, else the model in use. *)
AutoIndex ==
    IF searching THEN (IF Rows = <<>> THEN 0 ELSE 1)
    ELSE LET here == {n \in DOMAIN Rows : IsCurrent(Rows[n])} IN
         IF here = {} THEN 0 ELSE CHOOSE n \in here : \A k \in here : n <= k

KbIndex == IF override # None /\ override <= Len(Rows) THEN override ELSE AutoIndex

-----------------------------------------------------------------------------
MenuInit ==
    /\ catalog \in [Providers -> Catalogs]
    /\ stored = None
    /\ \E p \in Providers : catalog[p] # <<>> /\ current = [prov |-> p, model |-> Head(catalog[p])]
    /\ searching = FALSE /\ collapsed = {} /\ override = None
    /\ last = None /\ changes = 0

MayChange == changes < MaxChanges /\ changes' = changes + 1

Toggle(p, m) ==
    /\ MayChange
    /\ IsFamily(catalog[p], m) /\ stored' = Toggled(p, m)
    /\ last' = [op |-> "toggle", prov |-> p, model |-> m]
    /\ UNCHANGED <<catalog, current, searching, collapsed, override>>

SetProvider(p, on) ==
    /\ MayChange
    /\ (\E m \in Models : IsFamily(catalog[p], m)) /\ stored' = ProviderSet(p, on)
    /\ last' = [op |-> "master", prov |-> p, model |-> None]
    /\ UNCHANGED <<catalog, current, searching, collapsed, override>>

(* A refresh reports another list; the menu stays open meanwhile. *)
Refresh(p) ==
    /\ MayChange
    /\ \E cat \in Catalogs \ {<<>>} : catalog' = [catalog EXCEPT ![p] = cat]
    /\ last' = None
    /\ UNCHANGED <<stored, current, searching, collapsed, override>>

Collapse(p) ==
    /\ collapsed' = IF p \in collapsed THEN collapsed \ {p} ELSE collapsed \cup {p}
    /\ UNCHANGED <<catalog, stored, current, searching, override, last, changes>>

(* A keystroke in the search field takes the keyboard back to the top. *)
Search ==
    /\ searching' = ~searching /\ override' = None
    /\ UNCHANGED <<catalog, stored, current, collapsed, last, changes>>

StepKb(delta) ==
    /\ Rows # <<>>
    /\ LET from == IF KbIndex > 0 THEN KbIndex - 1 ELSE IF delta = 1 THEN -1 ELSE 0
       IN  override' = ((from + delta + Len(Rows)) % Len(Rows)) + 1
    /\ UNCHANGED <<catalog, stored, current, searching, collapsed, last, changes>>

(* commitRow: a click on a row, or Enter on the keyboard's; the menu closes and the next opening
   starts anew. *)
Commit(n) ==
    /\ MayChange
    /\ n \in DOMAIN Rows
    /\ current' = IF IsCurrent(Rows[n]) THEN current
                  ELSE [prov |-> Rows[n].prov, model |-> Rows[n].model]
    /\ searching' = FALSE /\ override' = None
    /\ last' = [op |-> "pick", prov |-> Rows[n].prov, model |-> Rows[n].model]
    /\ UNCHANGED <<catalog, stored, collapsed>>

MenuNext ==
    \/ \E p \in Providers :
        \/ \E m \in Models : Toggle(p, m)
        \/ \E on \in BOOLEAN : SetProvider(p, on)
        \/ Refresh(p) \/ Collapse(p)
    \/ \E delta \in {-1, 1} : StepKb(delta)
    \/ \E n \in 1..Len(Rows) : Commit(n)
    \/ Search

MenuSpec == MenuInit /\ [][MenuNext]_menuVars

-----------------------------------------------------------------------------
(* Properties. A formula with primes is about every step. *)

Done(op) == changes' # changes /\ last' # None /\ last'.op = op

(* A switch of the dialog turns the one row it stands at on or off, whatever was stored, hidden
   as a whole or never touched before. *)
ToggleFlipsOne ==
    Done("toggle") =>
        LET k == Key(last'.prov, last'.model) IN
        Visible' = (Visible \ {k}) \cup ({k} \ Visible)

(* A provider hidden as a whole stays hidden until one of its own switches is turned: no switch
   of another provider and no new catalog brings its models back. *)
HiddenStaysHidden ==
    \A p \in Providers :
        (stored # None /\ Sentinel(p) \in stored /\ 
            (changes' = changes \/ last' = None \/ last'.op = "pick" \/ last'.prov # p))
            => ~ \E k \in Visible' : k[1] = p

(* While the menu is neither searched nor folded the pair in use has a row, and the keyboard
   starts there; unless it is a superseded snapshot, the fast variant of a model without a row of
   its own (of such a snapshot), or a fast variant that another provider offers too. *)
CurrentShown ==
    (/\ ~searching /\ collapsed = {}
     /\ Present(catalog[current.prov], current.model)
     /\ ~Present(catalog[current.prov], AliasOf[current.model])
     /\ \A b \in Models : (Present(catalog[current.prov], b) /\ FastOf[b] = current.model)
                              => IsFamily(catalog[current.prov], b)
     /\ ~ \E p \in Providers \ {current.prov}, b \in Models :
            FastOf[b] = current.model /\ Present(catalog[p], b) /\ Present(catalog[p], FastOf[b]))
        => AutoIndex > 0 /\ Rows[AutoIndex].prov = current.prov

=============================================================================
