---------------------------- MODULE CommandList ----------------------------
(***************************************************************************)
(* The list of prompt commands of the settings page.  Every row is drawn   *)
(* with the position and the command it had; every handler changes the     *)
(* list at once, waits for the settings to be written and only then draws  *)
(* the rows again.  Meanwhile, and for good when the write fails, the rows *)
(* on the screen are those of an older list.  A command is identified by   *)
(* its id; its text tells the seeded commands from the user's own.         *)
(***************************************************************************)
EXTENDS Integers, Sequences, FiniteSets, SequencesExt, FiniteSetsExt, Places

CONSTANTS
    Seeds,          \* the texts of the default commands
    Texts,          \* the texts the user writes
    None,
    MaxOps          \* bound: changes of the list

VARIABLES
    commands,       \* s.promptSnippets, with None for a hole
    rows,           \* what the page was last drawn with
    disk,           \* the list in data.json
    saves,          \* writes on their way that end with a new drawing
    armed,          \* ids whose delete button was clicked once
    dragging,       \* position of the row being dragged, or 0
    modal,          \* the editor: None, or the command it was opened on ("new" for none)
    deleted,        \* ids whose deletion still counts (observer)
    ops

listVars == <<commands, rows, disk, saves, armed, dragging, modal, deleted, ops>>

Ids(list) == {list[n].id : n \in {k \in DOMAIN list : list[k] # None}}

(* A new id never repeats one. *)
FreshId == Max(Ids(commands) \cup Ids(rows) \cup Ids(disk) \cup deleted \cup {0}) + 1

(* Array.splice(from, 1) then splice(to, 0, moved), positions from 1: beyond the end nothing
   is taken and a hole is put in. *)
Moved(list, from, to) ==
    LET taken == IF from <= Len(list) THEN list[from] ELSE None
        rest == IF from <= Len(list) THEN RemoveAt(list, from) ELSE list
        at == IF to <= Len(rest) THEN to ELSE Len(rest) + 1
    IN  InsertAt(rest, at, taken)

(* sanitizeSnippets: what the next start reads back. *)
Sanitized(list) == KeepAt(list, {k \in DOMAIN list : list[k] # None})

-----------------------------------------------------------------------------
ListInit ==
    /\ commands = [n \in 1..Cardinality(Seeds) |-> [id |-> n, text |-> SetToSeq(Seeds)[n]]]
    /\ rows = commands /\ disk = commands
    /\ saves = 0 /\ armed = {} /\ dragging = 0 /\ modal = None
    /\ deleted = {} /\ ops = 0

MayChange == ops < MaxOps /\ ops' = ops + 1

(* Every handler below ends in "await saveSettings(); renderCommandRows()". *)
Saving == saves' = saves + 1

DragStart(n) ==
    /\ n \in DOMAIN rows /\ rows[n] # None
    /\ dragging = 0 /\ dragging' = n
    /\ UNCHANGED <<commands, rows, disk, saves, armed, modal, deleted, ops>>

DragEnd ==
    /\ dragging # 0 /\ dragging' = 0
    /\ UNCHANGED <<commands, rows, disk, saves, armed, modal, deleted, ops>>

(* The target is counted before the dragged row is taken out. *)
Drop(n, lower) ==
    /\ MayChange
    /\ dragging \notin {0, n} /\ n \in DOMAIN rows
    /\ commands' = Moved(commands, dragging, IF lower THEN n + 1 ELSE n)
    /\ dragging' = 0 /\ Saving
    /\ UNCHANGED <<rows, disk, armed, modal, deleted>>

(* The arrow was enabled by the list of the drawing. *)
Arrow(n, to) ==
    /\ MayChange
    /\ n \in DOMAIN rows /\ to \in {n - 1, n + 1} /\ to \in DOMAIN rows
    /\ commands' = Moved(commands, n, to) /\ Saving
    /\ UNCHANGED <<rows, disk, armed, dragging, modal, deleted>>

Duplicate(n) ==
    /\ MayChange
    /\ n \in DOMAIN rows
    /\ commands' = InsertAt(commands, IF n <= Len(commands) THEN n + 1 ELSE Len(commands) + 1,
                            [rows[n] EXCEPT !.id = FreshId])
    /\ Saving
    /\ UNCHANGED <<rows, disk, armed, dragging, modal, deleted>>

(* The first click arms the button, for a while. *)
Arm(n) ==
    /\ n \in DOMAIN rows /\ rows[n].id \notin armed
    /\ armed' = armed \cup {rows[n].id}
    /\ UNCHANGED <<commands, rows, disk, saves, dragging, modal, deleted, ops>>

Disarm(id) ==
    /\ id \in armed /\ armed' = armed \ {id}
    /\ UNCHANGED <<commands, rows, disk, saves, dragging, modal, deleted, ops>>

Delete(n) ==
    /\ MayChange
    /\ n \in DOMAIN rows /\ rows[n].id \in armed
    /\ ~ \E k \in DOMAIN commands : commands[k] = None   \* x.id of a hole throws
    /\ commands' = KeepAt(commands, {k \in DOMAIN commands : commands[k].id # rows[n].id})
    /\ deleted' = deleted \cup {rows[n].id} /\ Saving
    /\ UNCHANGED <<rows, disk, armed, dragging, modal>>

OpenEditor(cmd) ==
    /\ modal = None /\ modal' = cmd
    /\ UNCHANGED <<commands, rows, disk, saves, armed, dragging, deleted, ops>>

CloseEditor ==
    /\ modal # None /\ modal' = None
    /\ UNCHANGED <<commands, rows, disk, saves, armed, dragging, deleted, ops>>

(* Save of the editor: the command is found by its id and replaced as a whole; the search
   throws at a hole on its way. *)
EditorSaves(text) ==
    /\ MayChange
    /\ modal # None
    /\ LET at == {k \in DOMAIN commands : commands[k] = None \/ commands[k].id = modal.id} IN
       IF modal.text = None
       THEN commands' = Append(commands, [id |-> FreshId, text |-> text]) /\ Saving
       ELSE IF at = {} THEN commands' = commands /\ Saving
       ELSE IF commands[Min(at)] = None THEN UNCHANGED <<commands, saves>>
       ELSE commands' = [commands EXCEPT ![Min(at)].text = text] /\ Saving
    /\ modal' = None
    /\ UNCHANGED <<rows, disk, armed, dragging, deleted>>

(* Restore defaults, at the second click: seeds whose text is in no command, saved without
   waiting, and the rows drawn at once. *)
Restore ==
    /\ MayChange
    /\ ~ \E k \in DOMAIN commands : commands[k] = None
    /\ LET missing == Seeds \ {commands[k].text : k \in DOMAIN commands} IN
       commands' = commands \o [k \in 1..Cardinality(missing) |->
                       [id |-> FreshId + k - 1, text |-> SetToSeq(missing)[k]]]
    /\ rows' = commands' /\ armed' = {} /\ dragging' = 0 /\ disk' \in {disk, commands'}
    /\ UNCHANGED <<saves, modal, deleted>>

(* A write lands and its handler draws the rows, a hole ends the drawing where it is met. *)
SaveLands ==
    /\ saves > 0 /\ saves' = saves - 1
    /\ disk' = commands
    /\ LET holes == {k \in DOMAIN commands : commands[k] = None} IN
       rows' = IF holes = {} THEN commands ELSE SubSeq(commands, 1, Min(holes) - 1)
    /\ armed' = {} /\ dragging' = 0
    /\ UNCHANGED <<commands, modal, deleted, ops>>

(* A failed write throws out of the handler: nothing is drawn. *)
SaveFails ==
    /\ saves > 0 /\ saves' = saves - 1
    /\ UNCHANGED <<commands, rows, disk, armed, dragging, modal, deleted, ops>>

(* The next start reads data.json, and with it what was deleted and never written. *)
Restart ==
    /\ saves = 0 /\ modal = None
    /\ commands' = Sanitized(disk) /\ rows' = commands' /\ disk' = disk
    /\ armed' = {} /\ dragging' = 0 /\ deleted' = deleted \ Ids(disk)
    /\ UNCHANGED <<saves, modal, ops>>

ListNext ==
    \/ \E n \in DOMAIN rows :
        \/ DragStart(n) \/ Duplicate(n) \/ Arm(n) \/ Delete(n) \/ OpenEditor(rows[n])
        \/ \E lower \in BOOLEAN : Drop(n, lower)
        \/ \E to \in {n - 1, n + 1} : Arrow(n, to)
    \/ \E id \in armed : Disarm(id)
    \/ \E text \in Texts : EditorSaves(text)
    \/ OpenEditor([id |-> 0, text |-> None])
    \/ DragEnd \/ CloseEditor \/ Restore \/ SaveLands \/ SaveFails \/ Restart

ListSpec == ListInit /\ [][ListNext]_listVars

-----------------------------------------------------------------------------
(* Properties. A formula with primes is about every step. *)

(* No click on a row of an older drawing brings a deleted command back, and no two commands
   share an id, so the editor and the delete button reach the one they were drawn for. *)
DeletedStaysGone == Ids(commands) \cap deleted = {}
OneById == \A m, n \in DOMAIN commands :
    (m # n /\ commands[m] # None /\ commands[n] # None) => commands[m].id # commands[n].id

(* Whatever the order of clicks, drags and writes, a command leaves the list by its own delete
   button, or with a restart that found it never written. *)
LeavesByDelete ==
    Ids(commands) \ Ids(commands') \subseteq deleted' \cup (Ids(commands) \ Ids(disk))

(* A deletion that data.json holds is never undone, by no later write and no restart: only one
   whose write failed can come back, with the restart that reads the older list. *)
WrittenStaysGone == deleted \ Ids(disk) \subseteq deleted' \ Ids(disk')

=============================================================================
