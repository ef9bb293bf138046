----------------------------- MODULE SkillFiles -----------------------------
(***************************************************************************)
(* The skills folder: the agent's create_skill and manage_skill calls and  *)
(* the page that switches skills on and off and deletes them.  A call      *)
(* looks its skill up by name, reads, and writes, with the others, the     *)
(* user and a switch of the folder in between.                             *)
(***************************************************************************)
EXTENDS Naturals, Sequences, FiniteSets, SequencesExt, Functions

CONSTANTS
    Calls,          \* the calls and page clicks
    Names, Lower,   \* skill names, and each without its case
    Dirs, SlugOf,   \* folders of the skills folder, and the one a name is created in
    Marks, Rel,     \* pieces of text; supporting files
    None,
    MaxText, MaxOps, MaxEdits   \* bounds

VARIABLES
    active,         \* whether the store still points at this folder
    md,             \* the SKILL.md of each folder, None when there is none
    files,          \* the supporting files
    call,           \* the calls
    ops, edits

skillVars == <<active, md, files, call, ops, edits>>

Doc(name, text) == [name |-> name, on |-> TRUE, text |-> text]
Texts == UNION {[1..n -> Marks] : n \in 0..MaxText}

SkillsInit ==
    /\ active = TRUE
    /\ \E n \in Names, m \in Marks : md = [d \in Dirs |-> IF d = SlugOf[n] THEN Doc(n, <<m>>) ELSE None]
    /\ files = [d \in Dirs |-> {}]
    /\ call = [c \in Calls |-> None] /\ ops = 0 /\ edits = 0

(* The user or a sync writes a skill file, or another profile takes over. *)
UserWrites(d, n, m) ==
    /\ edits < MaxEdits /\ edits' = edits + 1
    /\ md' = [md EXCEPT ![d] = Doc(n, <<m, m>>)] /\ UNCHANGED <<active, files, call, ops>>
SwitchFolder ==
    /\ edits < MaxEdits /\ edits' = edits + 1
    /\ active /\ active' = FALSE /\ UNCHANGED <<md, files, call, ops>>

-----------------------------------------------------------------------------
Asked(op, name) ==
    [op |-> op, name |-> name, dir |-> None, old |-> None, new |-> None, rel |-> None,
     left |-> {}, seen |-> {}, read |-> None, stage |-> "list", on |-> TRUE]

Start(c) ==
    /\ ops < MaxOps /\ ops' = ops + 1
    /\ call[c] = None /\ active
    /\ UNCHANGED <<active, md, files, edits>>

Patch(c, name, old, new) ==
    Start(c) /\ call' = [call EXCEPT ![c] = [Asked("patch", name) EXCEPT !.old = old, !.new = new]]
Update(c, name, new) == Start(c) /\ call' = [call EXCEPT ![c] = [Asked("update", name) EXCEPT !.new = new]]
WriteFile(c, name, rel) == Start(c) /\ call' = [call EXCEPT ![c] = [Asked("write", name) EXCEPT !.rel = rel]]
RemoveFile(c, name, rel) == Start(c) /\ call' = [call EXCEPT ![c] = [Asked("remove", name) EXCEPT !.rel = rel]]
DeleteTree(c, name) == Start(c) /\ call' = [call EXCEPT ![c] = Asked("delete", name)]
(* createSkill looks nothing up: a skill already in the folder is overwritten. *)
Create(c, name, new) ==
    /\ Start(c)
    /\ call' = [call EXCEPT ![c] = [Asked("create", name) EXCEPT !.new = new, !.dir = SlugOf[name], !.stage = "write"]]
(* The switch of a row turns the skill to what it was not when the row was drawn. *)
Toggle(c, d) ==
    /\ md[d] # None /\ Start(c)
    /\ call' = [call EXCEPT ![c] = [Asked("toggle", None) EXCEPT !.dir = d, !.on = ~md[d].on, !.stage = "read"]]

Ends(c) == call' = [call EXCEPT ![c] = None]

(* The delete button of a row removes the SKILL.md alone. *)
PageDeletes(d) ==
    /\ ops < MaxOps /\ ops' = ops + 1
    /\ active /\ md[d] # None /\ md' = [md EXCEPT ![d] = None]
    /\ UNCHANGED <<active, files, call, edits>>

(* loadSkills lists the skill files at once, those of another folder after a switch (here
   none), ... *)
ListFiles(c) ==
    /\ call[c] # None /\ call[c].stage = "list"
    /\ LET there == {d \in Dirs : md[d] # None} IN
       IF active /\ there # {}
       THEN call' = [call EXCEPT ![c].left = there, ![c].stage = "look"]
       ELSE Ends(c)
    /\ UNCHANGED <<active, md, files, ops, edits>>

(* resolveSkill, of the skills that were read: an exact name, whichever comes first, or the only
   one that differs in case. *)
Answers(s, name) == Lower[s.name] = Lower[name]
CaseLess(seen, name) == {s \in seen : Answers(s, name)}

Resolved(seen, name) ==
    IF \E s \in seen : s.name = name THEN {s \in seen : s.name = name}
    ELSE IF Cardinality(CaseLess(seen, name)) = 1 THEN CaseLess(seen, name) ELSE {}

GoTo(c, s, seen) ==
    call' = [call EXCEPT ![c].dir = s.dir, ![c].left = {}, ![c].seen = seen,
                         ![c].stage = IF call[c].op = "patch" THEN "read" ELSE "write"]

\* Mutant: a call that finds no skill of its name does not return.
ResolveMute(c, seen) == \E s \in Resolved(seen, call[c].name) : GoTo(c, s, seen)

Resolve(c, seen) ==
    \/ \E s \in Resolved(seen, call[c].name) : GoTo(c, s, seen)
    \/ Resolved(seen, call[c].name) = {} /\ Ends(c)

(* ... and awaits one read after the other; a file that is gone by then is left out.  The last
   one read, the name is resolved. *)
Look(c) ==
    /\ call[c] # None /\ call[c].stage = "look"
    /\ \E d \in call[c].left :
          LET found == IF md[d] = None THEN {} ELSE {[dir |-> d, name |-> md[d].name]}
              seen == call[c].seen \cup found
          IN  IF call[c].left = {d} THEN Resolve(c, seen)
              ELSE call' = [call EXCEPT ![c].left = @ \ {d}, ![c].seen = seen]
    /\ UNCHANGED <<active, md, files, ops, edits>>

Hits(text, m) == Cardinality({n \in DOMAIN text : text[n] = m})

(* readSkillRaw, and of a patch the count of what it replaces. *)
Read(c) ==
    /\ call[c] # None /\ call[c].stage = "read"
    /\ LET doc == md[call[c].dir] IN
       IF doc = None \/ (call[c].op = "toggle" /\ ~active) \/ (call[c].op = "patch" /\ Hits(doc.text, call[c].old) # 1)
       THEN Ends(c) ELSE call' = [call EXCEPT ![c].read = doc, ![c].stage = "write"]
    /\ UNCHANGED <<active, md, files, ops, edits>>

(* The file as the call writes it, from what it read or anew. *)
Written(r) ==
    CASE r.op = "patch" -> [r.read EXCEPT !.text = [n \in DOMAIN @ |-> IF @[n] = r.old THEN r.new ELSE @[n]]]
      [] r.op = "toggle" -> [r.read EXCEPT !.on = r.on]
      [] r.op = "update" -> Doc(r.name, <<r.new>>)
      [] OTHER -> Doc(Lower[r.name], <<r.new>>)

(* The last step: the file must still be there, but for a new skill. *)
WriteMd(c) ==
    /\ call[c] # None /\ call[c].stage = "write" /\ call[c].op \in {"patch", "toggle", "update", "create"}
    /\ LET r == call[c] IN
       md' = IF md[r.dir] # None \/ r.op = "create" THEN [md EXCEPT ![r.dir] = Written(r)] ELSE md
    /\ Ends(c) /\ UNCHANGED <<active, files, ops, edits>>

(* Supporting files; the paths are checked against the folder of the moment. *)
WriteRest(c) ==
    /\ call[c] # None /\ call[c].stage = "write" /\ call[c].op \in {"write", "remove", "delete"}
    /\ LET r == call[c] IN
       IF ~active THEN UNCHANGED <<md, files>>
       ELSE /\ files' = [files EXCEPT ![r.dir] = CASE r.op = "write" -> @ \cup {r.rel}
                                                   [] r.op = "remove" -> @ \ {r.rel}
                                                   [] r.op = "delete" -> {}]
            /\ md' = IF r.op = "delete" THEN [md EXCEPT ![r.dir] = None] ELSE md
    /\ Ends(c) /\ UNCHANGED <<active, ops, edits>>

CallStep(c) == ListFiles(c) \/ Look(c) \/ Read(c) \/ WriteMd(c) \/ WriteRest(c)

SkillsNext ==
    \/ \E d \in Dirs, n \in Names, m \in Marks : UserWrites(d, n, m)
    \/ \E d \in Dirs : PageDeletes(d)
    \/ SwitchFolder
    \/ \E c \in Calls : CallStep(c)
    \/ \E c \in Calls, n \in Names, m, new \in Marks : m # new /\ Patch(c, n, m, new)
    \/ \E c \in Calls, n \in Names, m \in Marks : Update(c, n, m) \/ Create(c, n, m)
    \/ \E c \in Calls, n \in Names, f \in Rel : WriteFile(c, n, f) \/ RemoveFile(c, n, f)
    \/ \E c \in Calls, n \in Names : DeleteTree(c, n)
    \/ \E c \in Calls, d \in Dirs : Toggle(c, d)

SkillsFairness == \A c \in Calls : WF_skillVars(CallStep(c))
SkillsSpec == SkillsInit /\ [][SkillsNext]_skillVars /\ SkillsFairness

-----------------------------------------------------------------------------
(* Properties. A formula with primes is about every step. *)

SkillsTypeOK ==
    /\ \A d \in Dirs : md[d] = None \/ md[d] \in [name : Names, on : BOOLEAN, text : Texts]
    /\ files \in [Dirs -> SUBSET Rel] /\ active \in BOOLEAN

(* A call by name changes no folder but one whose skill, as the lookup of the call had read it,
   bears the name in its very letters or was the only one it read that answers to it: not
   another, however long the reads take and whatever others write between them.  What others
   wrote to a skill file after the lookup had read it, the call does not see: by the time it
   writes, the folder may hold a skill of another name. *)
MeantOne ==
    \A c \in Calls, d \in Dirs :
        (/\ call[c] # None /\ call'[c] = None /\ call[c].op \notin {"toggle", "create"}
         /\ md'[d] # md[d] \/ files'[d] # files[d])
            => \E s \in call[c].seen :
                  /\ s.dir = d
                  /\ s.name = call[c].name \/ CaseLess(call[c].seen, call[c].name) = {s}

(* A patch writes a text in which one piece of what it read is replaced and nothing else; a
   switch changes the flag alone.  What another wrote in between is theirs to lose. *)
OnlyItsPart ==
    \A c \in Calls :
        (call[c] # None /\ call'[c] = None /\ md' # md /\ call[c].op \in {"patch", "toggle"})
            => LET old == call[c].read new == md'[call[c].dir] IN
               /\ new.name = old.name /\ Len(new.text) = Len(old.text)
               /\ call[c].op = "toggle" => new.text = old.text
               /\ call[c].op = "patch" =>
                    Cardinality({n \in DOMAIN old.text : old.text[n] # new.text[n]}) = 1

(* Every call ends. Checked as: Waits leads to ~Waits. *)
Waits(c) == call[c] # None

=============================================================================
