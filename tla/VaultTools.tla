----------------------------- MODULE VaultTools -----------------------------
(***************************************************************************)
(* The note tools: a call resolves its path under the workspace policy of  *)
(* its run, shows a preview, is accepted, reads the note again, takes a    *)
(* snapshot and writes, while the user edits notes, the settings change    *)
(* and other calls do the same.                                            *)
(***************************************************************************)
EXTENDS Naturals, Sequences, FiniteSets, SequencesExt, FiniteSetsExt

CONSTANTS
    Calls, OpsOf,   \* calls, and the tools each may be of
    Raws, Folders,  \* paths as a model gives them, sequences of names: of notes, and of folders
    Root, Config, Excluded,     \* the workspace folder, Obsidian's own, those left out
    Modes,          \* policies of the settings
    Missing, First, Typed,  \* notes not there at first, the text of the others; texts the user writes, None to delete it
    Olds, News,     \* lines a call replaces, and writes
    Store,          \* openagent/checkpoints, as a path
    Counted,        \* the notes whose snapshots end in the name of this one
    MaxSnapshots,   \* checkpointMaxSnapshots
    Ceiling,        \* most lines one read returns
    None,
    MaxOps, MaxEdits    \* bounds

VARIABLES
    mode,           \* the policy of the settings now
    note,           \* the text of each path, None when there is no file
    mtime,          \* when each was written last, 0 when there is no file
    touched,        \* ghost: the write that last changed what is at each path
    writes,         \* writes so far
    snaps,          \* the snapshots
    call, ops, edits

vaultVars == <<mode, note, mtime, touched, writes, snaps, call, ops, edits>>

-----------------------------------------------------------------------------
(* WorkspacePolicy *)

Within(root, path) == IsPrefix(root, path)

Allowed(m, path) ==
    /\ ~Within(Config, path)
    /\ ~\E x \in Excluded : Within(x, path)
    /\ m = "strict" => Within(Root, path)

Routed(m, raw) == IF m # "whole" /\ ~Within(Root, raw) THEN Root \o raw ELSE raw

(* resolvePath, None when it throws *)
Resolved(m, raw) == IF Allowed(m, Routed(m, raw)) THEN Routed(m, raw) ELSE None

Paths == {Routed(m, raw) : m \in Modes, raw \in Raws}
StoreFolder(m) == Resolved(m, Store)

-----------------------------------------------------------------------------
(* planWrite and planEdit: the text a call would write over this one, None when it refuses. *)

Replaced(text, old, new) ==
    LET at == CHOOSE n \in DOMAIN text : text[n] = old /\ \A k \in 1..(n - 1) : text[k] # old
    IN  [text EXCEPT ![at] = new]

Planned(r, text) ==
    CASE r.op = "create" -> IF text = None THEN <<r.new>> ELSE None
      [] r.op = "overwrite" -> <<r.new>>
      [] r.op = "append" -> IF text = None THEN <<r.new>> ELSE Append(text, r.new)
      [] r.op = "edit" -> IF text = None \/ r.old \notin ToSet(text) THEN None ELSE Replaced(text, r.old, r.new)
      [] OTHER -> text

Previewed == {"create", "overwrite", "append", "edit"}

-----------------------------------------------------------------------------
VaultInit ==
    /\ mode \in Modes
    /\ note = [p \in Paths |-> IF p \in Missing THEN None ELSE First]
    /\ mtime = [p \in Paths |-> IF note[p] = None THEN 0 ELSE 1]
    /\ touched = [p \in Paths |-> 1]
    /\ writes = 1 /\ snaps = {}
    /\ call = [c \in Calls |-> None] /\ ops = 0 /\ edits = 0

At(c, stage) == call[c] # None /\ call[c].stage = stage
PathOf(c) == Resolved(call[c].mode, call[c].raw)

(* What is at the path of a folder: every note in it, whether the policy allows the note or not. *)
InFolder(folder) == {p \in Paths : note[p] # None /\ Within(folder, p)}
OfFolder(c) == call[c].op = "delete" /\ call[c].raw \in Folders

Written(p, text) ==
    /\ writes' = writes + 1
    /\ note' = [note EXCEPT ![p] = text]
    /\ mtime' = [mtime EXCEPT ![p] = IF text = None THEN 0 ELSE writes + 1]
    /\ touched' = [touched EXCEPT ![p] = writes + 1]

(* The user writes or deletes a note a call is about, or changes the workspace in the settings. *)
UserWrites(p, text) ==
    /\ edits < MaxEdits /\ edits' = edits + 1
    /\ \E c \in Calls : call[c] # None /\ PathOf(c) = p
    /\ text # note[p] /\ Written(p, text)
    /\ UNCHANGED <<mode, snaps, call, ops>>
ChangeMode(m) ==
    /\ edits < MaxEdits /\ edits' = edits + 1
    /\ m # mode /\ mode' = m
    /\ UNCHANGED <<note, mtime, touched, writes, snaps, call, ops>>

(* A call of a run whose policy was read when it began; the reading tools need no approval. *)
Ask(c, op, raw, to, old, new) ==
    /\ ops < MaxOps /\ ops' = ops + 1
    /\ call[c] = None /\ op \in OpsOf[c]
    /\ call' = [call EXCEPT ![c] =
            [op |-> op, mode |-> mode, raw |-> raw, to |-> to, old |-> old, new |-> new,
             stage |-> CASE op \in Previewed -> "preview" [] op \in {"read", "find"} -> "run" [] OTHER -> "asked",
             preview |-> None, stale |-> FALSE, seen |-> None, plan |-> None, snap |-> None,
             next |-> 1, got |-> <<>>, since |-> 0, mark |-> 0]]
    /\ UNCHANGED <<mode, note, mtime, touched, writes, snaps, edits>>

Ends(c) == call' = [call EXCEPT ![c] = None]
CallOnly == UNCHANGED <<mode, note, mtime, touched, writes, snaps, ops, edits>>

(* buildApprovalPreview: the note is read, and stamped with its time a moment later; an error
   leaves the card without a preview. *)
PreviewRead(c) ==
    /\ At(c, "preview")
    /\ LET p == PathOf(c) IN
       call' = [call EXCEPT ![c] =
            IF p = None \/ Planned(call[c], note[p]) = None THEN [@ EXCEPT !.stage = "asked", !.preview = None]
            ELSE [@ EXCEPT !.stage = "stamp", !.since = mtime[p],
                           !.preview = [plan |-> Planned(call[c], note[p]), mtime |-> 0]]]
    /\ CallOnly

PreviewStamp(c) ==
    /\ At(c, "stamp")
    /\ call' = [call EXCEPT ![c].stage = "asked", ![c].stale = FALSE, ![c].preview.mtime = mtime[PathOf(c)]]
    /\ CallOnly

(* Mutant: the button does not look at the note again. *)
AcceptBlind(c) == At(c, "asked") /\ call' = [call EXCEPT ![c].stage = "run"] /\ CallOnly

(* The button: denied when the workspace changed, turned down when the note did. *)
Accept(c) ==
    /\ At(c, "asked")
    /\ IF mode # call[c].mode THEN Ends(c)
       ELSE IF call[c].preview # None /\ call[c].preview.mtime # mtime[PathOf(c)]
            THEN call' = [call EXCEPT ![c].stale = TRUE]
            ELSE call' = [call EXCEPT ![c].stage = "run"]
    /\ CallOnly

Recheck(c) ==
    /\ At(c, "asked") /\ call[c].stale
    /\ IF mode # call[c].mode THEN Ends(c) ELSE call' = [call EXCEPT ![c].stage = "preview"]
    /\ CallOnly

(* No approval is asked for in this mode, or for this tool any more. *)
Unasked(c) ==
    /\ At(c, "preview") \/ (At(c, "asked") /\ call[c].preview = None)
    /\ call' = [call EXCEPT ![c].stage = "run"] /\ CallOnly

Deny(c) == At(c, "asked") /\ Ends(c) /\ CallOnly

-----------------------------------------------------------------------------
(* The tool runs: the note as it is by now is planned again. *)
Reread(c) ==
    /\ At(c, "run") /\ call[c].op \notin {"read", "find"} /\ ~OfFolder(c)
    /\ LET p == PathOf(c)
           dest == IF call[c].to = None THEN p ELSE Resolved(call[c].mode, call[c].to) IN
       IF p = None \/ dest = None THEN Ends(c)
       ELSE IF Planned(call[c], note[p]) = None THEN Ends(c)
       ELSE call' = [call EXCEPT ![c].stage = IF note[p] = None THEN "write" ELSE "snap",
                                 ![c].seen = note[p], ![c].plan = Planned(call[c], note[p])]
    /\ CallOnly

Latest == Max({0} \cup {s.at : s \in snaps} \cup {call[c].snap.at : c \in {d \in Calls : At(d, "snapped")}})

(* checkpointBeforeWrite: the text is read once more and stamped, in the second of the last stamp
   or a later one, then stored unless a snapshot of that name is there. *)
SnapRead(c, at) ==
    /\ At(c, "snap") /\ at \in {Latest, Latest + 1}
    /\ LET p == PathOf(c) IN
       IF note[p] = None \/ StoreFolder(call[c].mode) = None
       THEN call' = [call EXCEPT ![c].stage = "write"]
       ELSE call' = [call EXCEPT ![c].stage = "snapped", ![c].mark = touched[p],
                                 ![c].snap = [of |-> p, at |-> at, text |-> note[p]]]
    /\ CallOnly

SameName(s, t) == s.of = t.of /\ s.at = t.at

(* The newest of those that end in the name stay; only the folder itself is looked at, not the
   one under the workspace. *)
Pruned(all, p, m) ==
    LET mine == {s \in all : s.of \in Counted[p]} IN
    IF StoreFolder(m) # Store THEN all
    ELSE {s \in all : s \in mine => Cardinality({t \in mine : t.at > s.at}) < MaxSnapshots}

SnapWrite(c) ==
    /\ At(c, "snapped")
    /\ LET s == call[c].snap IN
       /\ snaps' = IF \E t \in snaps : SameName(s, t) THEN snaps
                   ELSE Pruned(snaps \cup {s}, s.of, call[c].mode)
       /\ call' = [call EXCEPT ![c].stage = "write",
                               ![c].snap = IF \E t \in snaps : SameName(s, t) THEN None ELSE @]
    /\ UNCHANGED <<mode, note, mtime, touched, writes, ops, edits>>

(* The last step: over the file there was, or a new one that must not be there. *)
Commit(c) ==
    /\ At(c, "write")
    /\ LET r == call[c]
           p == PathOf(c)
           dest == IF r.to = None THEN p ELSE Resolved(r.mode, r.to)
           fails == IF r.seen = None THEN note[p] # None ELSE note[p] = None IN
       IF fails \/ (r.op = "rename" /\ note[dest] # None)
       THEN UNCHANGED <<note, mtime, touched, writes>>
       ELSE IF r.op = "rename"
            THEN /\ note' = [note EXCEPT ![p] = None, ![dest] = note[p]]
                 /\ mtime' = [mtime EXCEPT ![p] = 0, ![dest] = mtime[p]]
                 /\ touched' = [touched EXCEPT ![p] = writes + 1, ![dest] = writes + 1]
                 /\ writes' = writes + 1
            ELSE Written(p, IF r.op = "delete" THEN None ELSE r.plan)
    /\ Ends(c)
    /\ UNCHANGED <<mode, snaps, ops, edits>>

(* delete_note takes what is at its path: a folder goes with all that is in it.  Only the path of
   the folder was checked, and no snapshot is taken of a folder. *)
TrashFolder(c) ==
    /\ At(c, "run") /\ OfFolder(c)
    /\ LET gone == IF PathOf(c) = None THEN {} ELSE InFolder(PathOf(c)) IN
       /\ writes' = writes + 1
       /\ note' = [p \in Paths |-> IF p \in gone THEN None ELSE note[p]]
       /\ mtime' = [p \in Paths |-> IF p \in gone THEN 0 ELSE mtime[p]]
       /\ touched' = [p \in Paths |-> IF p \in gone THEN writes + 1 ELSE touched[p]]
    /\ Ends(c)
    /\ UNCHANGED <<mode, snaps, ops, edits>>

-----------------------------------------------------------------------------
(* read_note, a page at a time: each page is refused above the ceiling and says where to go on. *)
Page(text, from, limit) == SubSeq(text, from, IF limit = 0 THEN Len(text) ELSE Min({Len(text), from + limit - 1}))

ReadPage(c, limit) ==
    /\ At(c, "run") /\ call[c].op = "read"
    /\ LET p == PathOf(c) IN
       IF (p = None \/ note[p] = None) THEN Ends(c)
       ELSE LET text == note[p]
                page == Page(text, call[c].next, limit)
                mark == IF call[c].next = 1 THEN touched[p] ELSE call[c].mark IN
            IF call[c].next > Len(text) THEN Ends(c)
            ELSE IF Len(page) > Ceiling THEN limit = 0 /\ UNCHANGED call
            ELSE call' = [call EXCEPT ![c].got = @ \o page, ![c].mark = mark,
                                      ![c].next = @ + Len(page),
                                      ![c].stage = IF call[c].next + Len(page) > Len(text) THEN "read" ELSE "run"]
    /\ CallOnly

(* search_vault and list_files look at every note the policy allows, get_active_note at the one
   the user looks at. *)
Find(c) ==
    /\ At(c, "run") /\ call[c].op = "find"
    /\ call' = [call EXCEPT ![c].stage = "read", ![c].seen = {p \in Paths : note[p] # None /\ Allowed(call[c].mode, p)}]
    /\ CallOnly

ReadActive(c, p) ==
    /\ At(c, "run") /\ call[c].op = "find" /\ note[p] # None
    /\ IF Allowed(call[c].mode, p) /\ Len(note[p]) <= Ceiling
       THEN call' = [call EXCEPT ![c].stage = "read", ![c].seen = {p}]
       ELSE Ends(c)
    /\ CallOnly

Return(c) == At(c, "read") /\ Ends(c) /\ CallOnly

-----------------------------------------------------------------------------
ToolStep(c) ==
    \/ PreviewRead(c) \/ PreviewStamp(c) \/ Reread(c) \/ SnapWrite(c) \/ Commit(c) \/ TrashFolder(c)
    \/ \E at \in 0..(MaxOps + 1) : SnapRead(c, at)
    \/ \E limit \in 1..Ceiling : ReadPage(c, limit)
    \/ Find(c) \/ Return(c)

VaultNext ==
    \/ \E p \in Paths, text \in Typed : UserWrites(p, text)
    \/ \E m \in Modes : ChangeMode(m)
    \/ \E c \in Calls : ToolStep(c) \/ Accept(c) \/ Recheck(c) \/ Unasked(c) \/ Deny(c) \/ ReadPage(c, 0)
    \/ \E c \in Calls, p \in Paths : ReadActive(c, p)
    \/ \E c \in Calls, raw \in Raws, new \in News :
        \/ \E op \in {"create", "overwrite", "append"} : Ask(c, op, raw, None, None, new)
        \/ \E old \in Olds : Ask(c, "edit", raw, None, old, new)
    \/ \E c \in Calls, raw \in Raws, op \in {"delete", "read", "find"} : Ask(c, op, raw, None, None, None)
    \/ \E c \in Calls, folder \in Folders : Ask(c, "delete", folder, None, None, None)
    \/ \E c \in Calls, raw, to \in Raws : raw # to /\ Ask(c, "rename", raw, to, None, None)

VaultFairness == \A c \in Calls : WF_vaultVars(ToolStep(c))
VaultSpec == VaultInit /\ [][VaultNext]_vaultVars /\ VaultFairness

-----------------------------------------------------------------------------
(* Properties. A formula with primes is about every step. *)

(* An accepted preview is of the note as it is: what the tool would write now is what was shown,
   unless the note changed in the moment between the preview's read and its stamp. *)
AcceptedAsShown ==
    \A c \in Calls :
        (At(c, "asked") /\ call'[c] # None /\ call'[c].stage = "run" /\ call[c].preview # None)
            => LET shown == call[c].preview IN
               /\ call[c].mode = mode
               /\ shown.mtime = call[c].since => shown.plan = Planned(call[c], note[PathOf(c)])

(* No note the agent writes over or trashes is gone for good: the text is in a snapshot, unless
   the note changed after the snapshot was read, another snapshot of that note has the name, or
   the policy keeps the agent out of the snapshots' folder.  The notes of a folder it trashes are
   not among them: of these no snapshot is taken. *)
NothingLost ==
    \A c \in Calls :
        (At(c, "write") /\ call[c].snap # None /\ call[c].op # "rename" /\ mtime' # mtime
           /\ call'[c] = None /\ call[c].mark = touched[PathOf(c)])
            => \E s \in snaps : s.of = PathOf(c) /\ s.text = note[PathOf(c)]

(* A call writes and reads only where the policy of its run lets it, whatever the settings say by
   then: of a folder that is trashed, the policy allows the folder; what is in it goes also
   where the policy leaves it out. *)
WithinScope ==
    /\ \A c \in Calls : (call[c] # None /\ call'[c] = None /\ note' # note)
            => \A p \in Paths : note'[p] # note[p] =>
                 \/ Allowed(call[c].mode, p)
                 \/ /\ OfFolder(c) /\ At(c, "run")
                    /\ Allowed(call[c].mode, PathOf(c)) /\ Within(PathOf(c), p)
    /\ \A c \in Calls : At(c, "read") /\ call[c].op = "find" => \A p \in call[c].seen : Allowed(call[c].mode, p)

(* A note read page by page to its end is the whole note, if nobody changed it meanwhile. *)
PagesWhole ==
    \A c \in Calls :
        At(c, "read") /\ call[c].op = "read" /\ call[c].mark = touched[PathOf(c)] => call[c].got = note[PathOf(c)]

(* A call that runs ends. Checked as: Waits leads to ~Waits. *)
Waits(c) == call[c] # None /\ call[c].stage \notin {"preview", "stamp", "asked"}

=============================================================================
