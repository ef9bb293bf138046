------------------------------ MODULE MemoryNotes ------------------------------
(***************************************************************************)
(* The memory notes (agent/memory.ts and the tools save_memory and          *)
(* update_user_profile): MEMORY.md, a list of bullet entries under a budget  *)
(* of characters, changed by the tool calls of concurrent runs, each in      *)
(* three steps with an await between, while the user edits the note and      *)
(* changes the budget.  USER.md is a second file under the same code.        *)
(***************************************************************************)
EXTENDS Naturals, Sequences, FiniteSets, FiniteSetsExt, SequencesExt

CONSTANTS
    Calls,      \* tool calls that can overlap
    Entries,    \* texts of entries
    Long,       \* those that take two units of the budget, the others one
    Activity,   \* those that are a session's log (transientMemoryActivityReason)
    Limits,     \* budgets the settings allow
    None,
    MaxOps,     \* bound: tool calls
    MaxEdits    \* bound: edits of the user and changes of the budget

VARIABLES
    note,      \* the entries of the file, and how many other lines it holds
    limit,     \* memoryCharLimit
    call,      \* the tool calls
    prompt,    \* the entries being put into a system prompt
    ops, edits \* bounds

notesVars == <<note, limit, call, prompt, ops, edits>>

Ready == [pc |-> "ready", op |-> None, next |-> <<>>, budget |-> 0]

NotesInit ==
    /\ note = [entries |-> <<>>, other |-> 0] /\ limit \in Limits
    /\ call = [c \in Calls |-> Ready] /\ prompt = <<>> /\ ops = 0 /\ edits = 0

-----------------------------------------------------------------------------
(* The operations on a list of entries.                                    *)

Cost(e)  == IF e \in Long THEN 2 ELSE 1
Usage(s) == Len(s) + Cardinality({i \in DOMAIN s : s[i] \in Long})

\* uniqueMatchIndex: the needle is an entry's text here, so it matches where
\* that entry is.
Matches(s, needle) == {i \in DOMAIN s : s[i] = needle}

Refused == <<None>>

Replaced(s, needle, e, max) ==
    LET M == Matches(s, needle)
        t == [s EXCEPT ![CHOOSE i \in M : TRUE] = e]
    IN IF Cardinality(M) # 1 THEN Refused ELSE IF Usage(t) > max THEN Refused ELSE t

Added(s, e, max) == IF Usage(s) + Cost(e) > max THEN Refused ELSE Append(s, e)

Removed(s, needle) ==
    LET M == Matches(s, needle) IN
    IF Cardinality(M) # 1 THEN Refused ELSE RemoveAt(s, CHOOSE i \in M : TRUE)

\* save_memory's actions; a log of activity is refused before anything is read.
Ops == [do : {"add"}, e : Entries \ Activity]
       \cup [do : {"replace"}, old : Entries, e : Entries \ Activity]
       \cup [do : {"remove"}, old : Entries]

Applied(op, s, max) ==
    CASE op.do = "add"     -> Added(s, op.e, max)
      [] op.do = "replace" -> Replaced(s, op.old, op.e, max)
      [] op.do = "remove"  -> Removed(s, op.old)

\* selectWithinLimit: the most recent entries that fit, up to the first that
\* does not.
Selected(s, max) ==
    LET fits == {n \in 0 .. Len(s) : Usage(SubSeq(s, Len(s) - n + 1, Len(s))) <= max}
    IN SubSeq(s, Len(s) - Max(fits) + 1, Len(s))

-----------------------------------------------------------------------------
\* What was read for a prompt has gone into it.
Built == prompt' = <<>>

\* mutateMemory: the file is read, the operation is applied to what was read,
\* and refused with the inventory when it does not fit or match.
Mutate(c, op) ==
    LET next == Applied(op, note.entries, limit) IN
    /\ call[c].pc = "ready" /\ ops < MaxOps /\ ops' = ops + 1
    /\ call' = IF next = Refused THEN call
               ELSE [call EXCEPT ![c] = [pc |-> "look", op |-> op, next |-> next, budget |-> limit]]
    /\ UNCHANGED <<note, limit, edits>> /\ Built

\* writeEntries reads the file again, for the drift guard only.
Look(c) ==
    /\ call[c].pc = "look"
    /\ call' = [call EXCEPT ![c] = IF note.other > 0 THEN Ready ELSE [@ EXCEPT !.pc = "write"]]
    /\ UNCHANGED <<note, limit, ops, edits>> /\ Built

\* And writes the list as of its first read.
Write(c) ==
    /\ call[c].pc = "write"
    /\ note' = [entries |-> call[c].next, other |-> 0]
    /\ call' = [call EXCEPT ![c] = Ready]
    /\ UNCHANGED <<limit, ops, edits>> /\ Built

\* A read or the write is refused by the vault.
Fails(c) ==
    /\ call[c].pc # "ready" /\ call' = [call EXCEPT ![c] = Ready]
    /\ UNCHANGED <<note, limit, ops, edits>> /\ Built

\* readMemory, for a system prompt.
ReadMemory ==
    /\ prompt' = Selected(note.entries, limit)
    /\ UNCHANGED <<note, limit, call, ops, edits>>

Edit ==
    /\ edits < MaxEdits /\ edits' = edits + 1 /\ UNCHANGED <<call, ops>> /\ Built

\* The note is a file of the user's: a bullet, a line of another kind, a line less.
UserEdits ==
    /\ Edit /\ UNCHANGED limit
    /\ \/ \E e \in Entries : note' = [note EXCEPT !.entries = Append(@, e)]
       \/ note' = [note EXCEPT !.other = @ + 1]
       \/ note.entries # <<>> /\ note' = [note EXCEPT !.entries = Tail(@)]

\* The settings page changes the budget.
SetLimits(n) == Edit /\ n # limit /\ limit' = n /\ UNCHANGED note

CallStep(c) == Look(c) \/ Write(c) \/ Fails(c)

NotesNext ==
    \/ ReadMemory \/ UserEdits
    \/ \E n \in Limits : SetLimits(n)
    \/ \E c \in Calls : CallStep(c) \/ \E op \in Ops : Mutate(c, op)

NotesSpec == NotesInit /\ [][NotesNext]_notesVars /\ \A c \in Calls : WF_notesVars(CallStep(c))

-----------------------------------------------------------------------------
NotesTypeOK ==
    /\ note \in [entries : Seq(Entries), other : Nat] /\ limit \in Limits /\ prompt \in Seq(Entries)
    /\ \A c \in Calls : call[c].pc \in {"ready", "look", "write"}

\* Whatever the user does to the note between a call's read and its write, an
\* addition or a replacement never leaves more in it than the budget it was
\* held against: a list over the budget is only ever shortened.
BudgetHeld ==
    \A c \in Calls : Write(c) =>
          \/ Usage(note'.entries) <= call[c].budget
          \/ call[c].op.do = "remove"

\* A prompt never carries more than the largest budget, and what it carries is
\* the end of the list.
PromptBounded == Usage(prompt) <= Max(Limits)

\* Every call of the tool returns.
\* Checked as: Waits leads to ~Waits.
Waits(c) == call[c].pc # "ready"
=============================================================================
