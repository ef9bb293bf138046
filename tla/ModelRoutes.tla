----------------------------- MODULE ModelRoutes ----------------------------
(***************************************************************************)
(* Which provider and model a request goes to: the global pair with the    *)
(* catalog each provider's server last reported, the pins of the auxiliary *)
(* tasks, and the fallback rows.  Pairs are set from the settings page     *)
(* (drafts with an Apply button), from the chat and Quick Ask menus and by *)
(* /model; catalogs come back from the servers at any later time and may   *)
(* heal a pick.  A fetch keeps the settings object it was started with; an *)
(* import puts another one in its place.  None stands for an empty string  *)
(* or a missing pin.                                                       *)
(***************************************************************************)
EXTENDS Integers, Sequences, FiniteSets, SequencesExt

CONSTANTS
    Providers,      \* the preset providers
    Own,            \* Own[p]: the models the server of p may report
    Typed,          \* ids the user types by hand
    Slots,          \* auxiliary tasks
    None,
    MaxFetches,     \* bound: connection tests and refreshes
    MaxEdits,       \* bound: changes by the user
    MaxRows         \* bound: fallback rows

VARIABLES
    active, model,  \* the global pair
    catalog,        \* [p]: models of provider p, in the order reported
    urls,           \* providers with a base URL
    aux,            \* [k]: pin of task k, or None
    fallbacks,      \* rows of [prov, model]
    pick,           \* drafts of the Model page
    auxEdit,        \* None, or the open row with its drafts
    fetches,        \* requests on their way: providers asked and settings object
    gen,            \* which settings object is live
    fetched, edits

routeVars == <<active, model, catalog, urls, aux, fallbacks, pick, auxEdit, fetches, gen,
               fetched, edits>>

Models == Typed \cup UNION {Own[p] : p \in Providers}
Reports(p) == {<<>>} \cup SetToAllKPermutations(Own[p])

(* applyFetchedModels: only the catalog of the active provider heals the pick, and an empty
   one never does. *)
Heal(cat, current, isActive) ==
    IF ~isActive \/ cat = <<>> \/ current \in ToSet(cat) THEN current ELSE Head(cat)

(* rememberModelInCatalog *)
Remembered(cat, m) == IF m \in ToSet(cat) THEN cat ELSE Append(cat, m)

-----------------------------------------------------------------------------
RoutesInit ==
    /\ active \in Providers /\ model = None
    /\ catalog = [p \in Providers |-> <<>>]
    /\ urls = Providers
    /\ aux = [k \in Slots |-> None] /\ fallbacks = <<>>
    /\ pick = [prov |-> None, model |-> None] /\ auxEdit = None
    /\ fetches = {} /\ gen = 0 /\ fetched = 0 /\ edits = 0

MayEdit == edits < MaxEdits /\ edits' = edits + 1

globals == <<active, model>>
pins == <<aux, fallbacks>>
pageVars == <<pick, auxEdit>>
netVars == <<fetches, fetched>>

(* Test connection on the viewed provider, or a refresh of every usable one. *)
StartFetch(asked) ==
    /\ fetched < MaxFetches /\ fetched' = fetched + 1
    /\ asked # {} /\ asked \subseteq urls
    /\ fetches' = fetches \cup {[asked |-> asked, gen |-> gen]}
    /\ UNCHANGED <<globals, catalog, urls, pins, pageVars, gen, edits>>

TestConnection(p) == StartFetch({p})
RefreshModels == StartFetch(urls)

(* The answers: each provider fails, reports nothing or reports its models.  They are written
   into the settings object the request was started with. *)
FetchLands(f) ==
    \E answer \in [f.asked -> UNION {Reports(p) : p \in f.asked}] :
        /\ \A p \in f.asked : answer[p] \in Reports(p)
        /\ fetches' = fetches \ {f}
        /\ LET told == {p \in f.asked : f.gen = gen /\ answer[p] # <<>>}
               cats == [p \in Providers |-> IF p \in told THEN answer[p] ELSE catalog[p]]
               after[S \in SUBSET told] ==      \* one provider after the other
                   IF S = {} THEN model
                   ELSE LET p == CHOOSE p \in S : TRUE
                        IN  Heal(cats[p], after[S \ {p}], p = active)
           IN  catalog' = cats /\ model' = after[told]
        /\ UNCHANGED <<active, urls, pins, pageVars, gen, fetched, edits>>

(* The menu of the chat and of Quick Ask; /model and the custom id of the Model page. *)
SelectModel(p, m) ==
    /\ MayEdit
    /\ m \in ToSet(catalog[p])
    /\ active' = p /\ model' = m
    /\ UNCHANGED <<catalog, urls, pins, pageVars, netVars, gen>>

SlashModel(m) ==
    /\ MayEdit
    /\ model' = m /\ catalog' = [catalog EXCEPT ![active] = Remembered(@, m)]
    /\ UNCHANGED <<active, urls, pins, pageVars, netVars, gen>>

(* The drafts of the Model page; a change of provider clears the model. *)
PickProvider(p) ==
    /\ p \in urls \cup {active} /\ pick' = [prov |-> p, model |-> None]
    /\ pick.prov # p
    /\ UNCHANGED <<globals, catalog, urls, pins, auxEdit, netVars, gen, edits>>

PickModel(m) ==
    /\ m \in ToSet(catalog[IF pick.prov = None THEN active ELSE pick.prov]) \ {pick.model}
    /\ pick' = [pick EXCEPT !.model = m]
    /\ UNCHANGED <<globals, catalog, urls, pins, auxEdit, netVars, gen, edits>>

(* Apply reads the drafts as they are now: the provider is activated and the model set. *)
ApplyPick ==
    /\ MayEdit
    /\ LET p == IF pick.prov = None THEN active ELSE pick.prov
           m == IF pick.prov = None /\ pick.model = None THEN model ELSE pick.model
       IN  m # None /\ active' = p /\ model' = m
    /\ pick' = [prov |-> None, model |-> None]
    /\ UNCHANGED <<catalog, urls, pins, auxEdit, netVars, gen>>

SetUrl(p) ==
    /\ MayEdit
    /\ urls' = IF p \in urls THEN urls \ {p} ELSE urls \cup {p}
    /\ UNCHANGED <<globals, catalog, pins, pageVars, netVars, gen>>

-----------------------------------------------------------------------------
(* Auxiliary tasks: one row is open at a time, its drafts are shared by all rows. *)

ChangeAux(k) ==
    /\ auxEdit' = IF auxEdit # None /\ auxEdit.slot = k THEN None
                  ELSE [slot |-> k, at |-> active, pair |-> aux[k]]
    /\ UNCHANGED <<globals, catalog, urls, pins, pick, netVars, gen, edits>>

(* Without a provider of its own the row shows the active one, of the last drawing. *)
Shown == IF auxEdit.pair # None /\ auxEdit.pair.prov # None THEN {auxEdit.pair.prov}
         ELSE {active, auxEdit.at}

(* A change of the provider in the row clears the model; "chosen" says that it was made. *)
AuxProvider(p) ==
    /\ auxEdit # None /\ p \in urls \cup Shown
    /\ auxEdit' = [auxEdit EXCEPT !.pair = [prov |-> p, model |-> None, chosen |-> TRUE]]
    /\ UNCHANGED <<globals, catalog, urls, pins, pick, netVars, gen, edits>>

AuxModel(m) ==
    /\ auxEdit # None /\ \E p \in Shown : m \in ToSet(catalog[p])
    /\ auxEdit' = [auxEdit EXCEPT !.pair =
                      IF auxEdit.pair = None THEN [prov |-> None, model |-> m, chosen |-> FALSE]
                      ELSE [@ EXCEPT !.model = m]]
    /\ UNCHANGED <<globals, catalog, urls, pins, pick, netVars, gen, edits>>

ApplyAux ==
    /\ MayEdit
    /\ auxEdit # None /\ auxEdit.pair # None /\ auxEdit.pair.model # None
    /\ \E p \in Shown : aux' = [aux EXCEPT ![auxEdit.slot] = [auxEdit.pair EXCEPT !.prov = p]]
    /\ auxEdit' = None
    /\ UNCHANGED <<globals, catalog, urls, fallbacks, pick, netVars, gen>>

SetToMain(k) ==
    /\ MayEdit
    /\ aux[k] # None /\ aux' = [aux EXCEPT ![k] = None] /\ auxEdit' = None
    /\ UNCHANGED <<globals, catalog, urls, fallbacks, pick, netVars, gen>>

-----------------------------------------------------------------------------
(* Fallback rows: a new row has the first usable provider and no model. *)

AddFallback ==
    /\ MayEdit
    /\ Len(fallbacks) < MaxRows
    /\ fallbacks' = Append(fallbacks,
            [prov |-> IF urls = {} THEN None ELSE CHOOSE p \in urls : TRUE, model |-> None])
    /\ UNCHANGED <<globals, catalog, urls, aux, pageVars, netVars, gen>>

RemoveFallback(n) ==
    /\ MayEdit
    /\ fallbacks' = RemoveAt(fallbacks, n)
    /\ UNCHANGED <<globals, catalog, urls, aux, pageVars, netVars, gen>>

FallbackProvider(row, p) == [prov |-> p, model |-> None]

EditFallback(n) ==
    /\ MayEdit
    /\ LET row == fallbacks[n] IN
       \/ \E p \in urls : p # row.prov /\ fallbacks' = [fallbacks EXCEPT ![n] = FallbackProvider(row, p)]
       \/ \E m \in IF row.prov # None /\ catalog[row.prov] # <<>>
                   THEN ToSet(catalog[row.prov]) ELSE Typed :
            fallbacks' = [fallbacks EXCEPT ![n].model = m]
    /\ UNCHANGED <<globals, catalog, urls, aux, pageVars, netVars, gen>>

-----------------------------------------------------------------------------
(* The loader keeps a pin whose provider still has a URL; the page's drafts are gone. *)
Sanitized == [k \in Slots |-> IF aux[k] # None /\ aux[k].prov \in urls THEN aux[k] ELSE None]

Restart ==
    /\ aux' = Sanitized
    /\ pick' = [prov |-> None, model |-> None] /\ auxEdit' = None /\ fetches' = {}
    /\ UNCHANGED <<globals, catalog, urls, fallbacks, gen, fetched, edits>>

(* An import of an export of these settings: another settings object, the drafts stay. *)
Import ==
    /\ MayEdit
    /\ gen' = gen + 1 /\ aux' = Sanitized
    /\ UNCHANGED <<globals, catalog, urls, fallbacks, pageVars, netVars>>

RoutesNext ==
    \/ \E p \in Providers :
        \/ TestConnection(p) \/ PickProvider(p) \/ SetUrl(p) \/ AuxProvider(p)
        \/ \E m \in Own[p] : SelectModel(p, m)
    \/ RefreshModels
    \/ \E f \in fetches : FetchLands(f)
    \/ \E m \in Models : PickModel(m) \/ AuxModel(m)
    \/ \E m \in Typed : SlashModel(m)
    \/ \E k \in Slots : ChangeAux(k) \/ SetToMain(k)
    \/ \E n \in DOMAIN fallbacks : RemoveFallback(n) \/ EditFallback(n)
    \/ ApplyPick \/ ApplyAux \/ AddFallback \/ Restart \/ Import

RoutesSpec == RoutesInit /\ [][RoutesNext]_routeVars

-----------------------------------------------------------------------------
(* Properties. A formula with primes is about every step. *)

Owned(pair) == pair.model = None \/ pair.model \in Own[pair.prov] \cup Typed

(* A pin whose provider was chosen in its row, or a fallback row, never names a model of another
   provider, whatever drafts of other rows, late catalogs, picks or imports come between. *)
PairsMatch ==
    /\ \A k \in Slots : (aux[k] # None /\ aux[k].chosen) => Owned(aux[k])
    /\ \A n \in DOMAIN fallbacks : fallbacks[n].model # None /\ fallbacks[n].prov # None => Owned(fallbacks[n])

(* Testing a connection or refreshing the menu never takes the chat's model away unless the
   active provider's own server no longer reports it. *)
NotStolen ==
    (fetches' # fetches /\ fetched' = fetched /\ model' # model) =>
        /\ model' \in Own[active] \cup Typed
        /\ catalog'[active] # <<>> /\ ~ \E n \in DOMAIN catalog'[active] : catalog'[active][n] = model

=============================================================================
