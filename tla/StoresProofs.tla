----------------------------- MODULE StoresProofs -----------------------------
(***************************************************************************)
(* TLAPS proofs about what the plugin keeps, component by component, for   *)
(* any instance of each:                                                   *)
(*   - SessionFiles: its types, that no file leaves its partition, that    *)
(*     the view shows what the store is bound to, that a partition at rest *)
(*     holds no more than Limit files, and that the chat opened is the     *)
(*     last one asked for;                                                 *)
(*   - VaultTools: that what was accepted is what was shown, that no text  *)
(*     the agent writes over is lost, that calls keep to the policy of     *)
(*     their run, and that the pages of a note make up the note;           *)
(*   - SkillFiles: that a call is about the skill it names, that a patch   *)
(*     and a switch write their own part;                                  *)
(*   - ModelRoutes: that pins and fallback rows name models of their       *)
(*     provider, and that late catalogues do not take the pick away.       *)
(***************************************************************************)
EXTENDS SessionFiles, Sequences, FiniteSetTheorems, SequenceTheorems, TLAPS

\* Lines are the lines of the notes of VaultTools, UserTexts the texts its user writes.
CONSTANTS
    Calls, OpsOf, Raws, Folders, Root, Config, Excluded, Modes, Missing, First, UserTexts, Olds, News, Store,
    Counted, MaxSnapshots, Ceiling, MaxCalls, MaxEdits, Lines,                         \* of VaultTools
    Names, SlugOf, Lower, Dirs, Marks, Rel, MaxText,                                   \* of SkillFiles
    Providers, Own, Handmade, Slots, MaxFetches, MaxRows                               \* of ModelRoutes

VARIABLES
    mode, note, mtime, touched, writes, snaps, call, calls, edits,
    active, docs, kits, model, catalog, urls, aux, fallbacks, pick, auxEdit, fetches, gen, fetched

Vault == INSTANCE VaultTools WITH Typed <- UserTexts, ops <- calls, MaxOps <- MaxCalls
Skill == INSTANCE SkillFiles WITH md <- docs, files <- kits, ops <- calls, MaxOps <- MaxCalls
Routes == INSTANCE ModelRoutes WITH Typed <- Handmade

-----------------------------------------------------------------------------
(* SessionFiles, for any partitions, titles, limit and number of gestures. *)

FileOf == [home : Partitions, turns : Nat, title : Titles \cup {None}, at : Nat,
           parent : Ids \cup {None}]

RunOf == [part : Partitions, id : Ids, rec : FileOf]

Kinds == {"save", "prune", "rename", "title", "load", "branch"}

\* What a job is aimed at: a title, the conversation it began in, or the files
\* a listing found to drop.
Targets == Titles \cup Ids \cup (SUBSET Ids) \cup {None}

JobOf == [kind : Kinds, part : Partitions, id : Ids, rec : FileOf \cup {None},
          of : Targets, req : Nat]

\* What any instance gives the constants: None is no file, no run and no list
\* of files to drop, and there are finitely many conversations.
FilesBounds ==
    /\ Limit \in Nat /\ IsFiniteSet(Ids)
    /\ None \notin FileOf /\ None \notin RunOf /\ None \notin SUBSET Ids

\* A job that carries a file carries one of the partition it works on.
JobSound(j) ==
    /\ j \in JobOf
    /\ j.kind # "load" => j.rec \in FileOf /\ j.rec.home = j.part
    /\ j.kind = "prune" => j.of \in (SUBSET Ids) \cup {None}
    /\ j.kind = "rename" => j.of \in Titles

Typed ==
    /\ dir \in Partitions /\ moved \in BOOLEAN /\ clock \in Nat /\ request \in Nat
    /\ title \in Titles \cup {None}
    /\ shown \in [id : Ids, home : Partitions, turns : Nat, parent : Ids \cup {None}]
    /\ files \in [Partitions -> [Ids -> FileOf \cup {None}]]
    /\ running # None => running \in RunOf /\ running.rec.home = running.part

\* Time t was given to a file of conversation i: on the disk, on its way, or
\* in the run that writes it.
Stamped(i, t) ==
    \/ \E p \in Partitions : files[p][i] # None /\ files[p][i].at = t
    \/ \E j \in jobs : j.kind # "load" /\ j.id = i /\ j.rec.at = t
    \/ running # None /\ running.id = i /\ running.rec.at = t

\* No two conversations were saved at one time, and none in the future.
StampsSound ==
    \A i \in Ids, t \in Nat : Stamped(i, t) =>
        t <= clock /\ \A k \in Ids : Stamped(k, t) => k = i

Works(j, p) == j.part = p /\ (j.kind = "save" \/ (j.kind = "prune" /\ j.of = None))

Drops(j, p) == j.part = p /\ j.kind = "prune" /\ j.of # None

\* A partition is within the limit, or will be after a job under way.
Bounded(p) ==
    \/ \E j \in jobs : Works(j, p)
    \/ Cardinality(Present(p)) <= Limit
    \/ \E j \in jobs : Drops(j, p) /\ Cardinality(Present(p) \ j.of) <= Limit

FilesInv ==
    /\ Typed /\ \A j \in jobs : JobSound(j)
    /\ StaysHome /\ ShownIsHere /\ StampsSound
    /\ \A p \in Partitions : Bounded(p)

-----------------------------------------------------------------------------
(* Sets of files.                                                          *)

LEMMA PresentFinite ==
    ASSUME FilesBounds, NEW S \in SUBSET Ids, NEW T \in SUBSET S
    PROVE  Cardinality(S) \in Nat /\ Cardinality(T) \in Nat /\ Cardinality(T) <= Cardinality(S)
<1>1. IsFiniteSet(S) /\ IsFiniteSet(T)
  BY FS_Subset DEF FilesBounds
<1>2. Cardinality(T) <= Cardinality(S)
  BY <1>1, FS_Subset
<1> QED BY <1>1, <1>2, FS_CardinalityType

\* What a listing leaves of a partition in which no two files have one time:
\* Limit files at most.  Each has fewer than Limit newer ones, and of two the
\* newer one has fewer than the older.
LEMMA OverflowLeavesLimit ==
    ASSUME FilesBounds, NEW fs \in [Ids -> FileOf \cup {None}],
           \A i, k \in Ids : fs[i] # None /\ fs[k] # None /\ fs[i].at = fs[k].at => i = k
    PROVE  Cardinality({i \in Ids : fs[i] # None} \ Overflow(fs)) <= Limit
<1> DEFINE newer(i) == {k \in Ids : fs[k] # None /\ fs[k].at > fs[i].at}
           kept     == {i \in Ids : fs[i] # None} \ Overflow(fs)
           rank     == [i \in kept |-> Cardinality(newer(i))]
<1>1. \A i \in Ids : fs[i] # None => fs[i].at \in Nat
  BY DEF FileOf
<1>2. \A i \in Ids : newer(i) \in SUBSET Ids /\ IsFiniteSet(newer(i))
                     /\ Cardinality(newer(i)) \in Nat
  BY FS_Subset, FS_CardinalityType DEF FilesBounds
<1>3. kept \in SUBSET Ids /\ IsFiniteSet(kept) /\ Cardinality(kept) \in Nat
  BY FS_Subset, FS_CardinalityType DEF FilesBounds
<1>4. \A i \in kept : fs[i] # None /\ ~(Cardinality(newer(i)) >= Limit)
  BY DEF Overflow
<1>5. ASSUME NEW i \in kept
      PROVE  Cardinality(newer(i)) \in 0 .. Limit - 1
  <2>1. i \in Ids /\ Cardinality(newer(i)) \in Nat
    BY <1>2, <1>3
  <2>2. ~(Cardinality(newer(i)) >= Limit)
    BY <1>4
  <2> QED BY <2>1, <2>2 DEF FilesBounds
<1>6. ASSUME NEW i \in kept, NEW k \in kept, fs[i].at > fs[k].at
      PROVE  Cardinality(newer(i)) # Cardinality(newer(k))
  <2>1. newer(i) \in SUBSET newer(k)
    BY <1>1, <1>3, <1>4, <1>6
  <2>2. i \in newer(k) /\ i \notin newer(i)
    BY <1>1, <1>3, <1>4, <1>6
  <2> QED BY <1>2, <1>3, <2>1, <2>2, FS_Subset
<1>7. ASSUME NEW i \in kept, NEW k \in kept, rank[i] = rank[k]
      PROVE  i = k
  <2>1. fs[i].at \in Nat /\ fs[k].at \in Nat
    BY <1>1, <1>3, <1>4
  <2>2. ~(fs[i].at > fs[k].at) /\ ~(fs[k].at > fs[i].at)
    BY <1>6, <1>7
  <2>3. fs[i].at = fs[k].at
    BY <2>1, <2>2
  <2> QED BY <1>3, <1>4, <2>3
<1>8. IsFiniteSet(0 .. Limit - 1) /\ Cardinality(0 .. Limit - 1) = Limit
  BY FS_Interval DEF FilesBounds
<1> HIDE DEF kept, newer
<1>9. rank \in Injection(kept, 0 .. Limit - 1)
  BY <1>5, <1>7 DEF Injection, IsInjective, rank
<1>10. Cardinality(kept) <= Limit
  BY <1>8, <1>9, FS_Injection
<1> QED BY <1>10 DEF kept

-----------------------------------------------------------------------------
(* Jobs.                                                                   *)

LEMMA SaveSound ==
    ASSUME NEW p \in Partitions, NEW i \in Ids, NEW rec \in FileOf, rec.home = p
    PROVE  JobSound(Save(p, i, rec)) /\ Save(p, i, rec).kind = "save"
           /\ Save(p, i, rec).id = i /\ Save(p, i, rec).rec = rec
<1>1. None \in Targets
  BY DEF Targets
<1>2. "save" \in Kinds
  BY DEF Kinds
<1> QED BY <1>1, <1>2 DEF JobSound, JobOf, Save

LEMMA SavedAsSound ==
    ASSUME NEW j, JobSound(j), j.kind # "load", NEW name \in Titles
    PROVE  JobSound(SavedAs(j, name)) /\ SavedAs(j, name).kind = "save"
           /\ SavedAs(j, name).id = j.id /\ SavedAs(j, name).rec.at = j.rec.at
<1> DEFINE rec == [j.rec EXCEPT !.title = name]
<1>1. j \in JobOf /\ j.rec \in FileOf /\ j.rec.home = j.part
  BY DEF JobSound
<1>2. rec \in FileOf /\ rec.home = j.rec.home /\ rec.at = j.rec.at
  BY <1>1 DEF FileOf
<1> HIDE DEF rec
<1>3. SavedAs(j, name) = [j EXCEPT !.kind = "save", !.rec = rec, !.of = None]
  BY <1>1 DEF SavedAs, rec, JobOf
<1>4. None \in Targets
  BY DEF Targets
<1>5. "save" \in Kinds
  BY DEF Kinds
<1> QED BY <1>1, <1>2, <1>3, <1>4, <1>5 DEF JobSound, JobOf

LEMMA PruningSound ==
    ASSUME NEW j, JobSound(j), j.kind # "load", NEW d \in (SUBSET Ids) \cup {None}
    PROVE  JobSound(Pruning(j, d)) /\ Pruning(j, d).kind = "prune" /\ Pruning(j, d).of = d
           /\ Pruning(j, d).part = j.part /\ Pruning(j, d).id = j.id
           /\ Pruning(j, d).rec = j.rec
<1>1. d \in Targets /\ "prune" \in Kinds
  BY DEF Targets, Kinds
<1> QED BY <1>1 DEF JobSound, JobOf, Pruning

-----------------------------------------------------------------------------
(* What most steps are: files only leave, saves and prunes under way stay   *)
(* so, and what is new was stamped before, or is stamped now for one        *)
(* conversation.                                                            *)

\* i0 is stamped by this step; any conversation, if the step stamps nothing.
StampsNow(i0, i, t) == clock' = clock + 1 /\ i = i0 /\ t = clock + 1

LEMMA StampsKept ==
    ASSUME FilesInv, Typed', NEW i0 \in Ids, clock' \in {clock, clock + 1},
           \A i \in Ids, t \in Nat : Stamped(i, t)' => Stamped(i, t) \/ StampsNow(i0, i, t)
    PROVE  StampsSound'
<1>1. ASSUME NEW i \in Ids, NEW t \in Nat, Stamped(i, t)'
      PROVE  t <= clock'
  BY <1>1 DEF FilesInv, Typed, StampsSound, StampsNow
<1>2. ASSUME NEW i \in Ids, NEW k \in Ids, NEW t \in Nat, Stamped(i, t)', Stamped(k, t)'
      PROVE  k = i
  <2>1. Stamped(i, t) \/ StampsNow(i0, i, t)
    BY <1>2
  <2>2. Stamped(k, t) \/ StampsNow(i0, k, t)
    BY <1>2
  <2>3. ASSUME NEW l \in Ids, Stamped(l, t)
        PROVE  t # clock + 1 /\ \A m \in Ids : Stamped(m, t) => m = l
    BY <2>3 DEF FilesInv, Typed, StampsSound
  <2> QED BY <2>1, <2>2, <2>3 DEF StampsNow
<1> QED BY <1>1, <1>2 DEF StampsSound

\* A partition from which files only leave stays within its limit, as long as
\* the jobs that will see to it stay.
LEMMA BoundedKept ==
    ASSUME FilesBounds, NEW p, Bounded(p), files[p] \in [Ids -> FileOf \cup {None}],
           \A i \in Ids : files'[p][i] # None => files[p][i] # None,
           \A j \in jobs : j.part = p /\ j.kind \in {"save", "prune"} => j \in jobs'
    PROVE  Bounded(p)'
<1> DEFINE Now == {i \in Ids : files'[p][i] # None}
<1>1. Now \in SUBSET Present(p) /\ Present(p) \in SUBSET Ids
  BY DEF Present
<1>2. Present(p)' = Now
  BY DEF Present
<1> HIDE DEF Now
<1>3. CASE \E j \in jobs : Works(j, p)
  BY <1>3 DEF Bounded, Works
<1>4. CASE Cardinality(Present(p)) <= Limit
  <2>1. Cardinality(Now) <= Limit
    BY <1>1, <1>4, PresentFinite DEF FilesBounds
  <2> QED BY <1>2, <2>1 DEF Bounded
<1>5. CASE \E j \in jobs : Drops(j, p) /\ Cardinality(Present(p) \ j.of) <= Limit
  <2> PICK j \in jobs : Drops(j, p) /\ Cardinality(Present(p) \ j.of) <= Limit
    BY <1>5
  <2>1. Now \ j.of \in SUBSET (Present(p) \ j.of) /\ Present(p) \ j.of \in SUBSET Ids
    BY <1>1
  <2>2. Cardinality(Now \ j.of) <= Limit
    BY <2>1, PresentFinite DEF FilesBounds
  <2>3. j \in jobs'
    BY DEF Drops
  <2> QED BY <1>2, <2>2, <2>3 DEF Bounded, Drops
<1> QED BY <1>3, <1>4, <1>5 DEF Bounded

LEMMA QuietStep ==
    ASSUME FilesBounds, FilesInv, Typed', ShownIsHere', NEW i0 \in Ids,
           clock' \in {clock, clock + 1},
           \A p \in Partitions, i \in Ids : files'[p][i] \in {files[p][i], None},
           \/ running' \in {running, None}
           \/ Stamped(running'.id, running'.rec.at)
           \/ StampsNow(i0, running'.id, running'.rec.at),
           \A j \in jobs' \ jobs :
              /\ JobSound(j)
              /\ \/ j.kind = "load"
                 \/ Stamped(j.id, j.rec.at)
                 \/ StampsNow(i0, j.id, j.rec.at),
           \A j \in jobs : j.kind \in {"save", "prune"} => j \in jobs'
    PROVE  FilesInv'
<1> USE DEF FilesInv
<1>1. \A j \in jobs' : JobSound(j)
  OBVIOUS
<1>2. \A p \in Partitions : files[p] \in [Ids -> FileOf \cup {None}]
  BY DEF Typed
<1>3. StaysHome'
  BY <1>2 DEF StaysHome, Present
<1>4. ASSUME NEW i \in Ids, NEW t \in Nat, Stamped(i, t)'
      PROVE  Stamped(i, t) \/ StampsNow(i0, i, t)
  <2>1. CASE \E p \in Partitions : files'[p][i] # None /\ files'[p][i].at = t
    BY <2>1 DEF Stamped
  <2>2. CASE \E j \in jobs' : j.kind # "load" /\ j.id = i /\ j.rec.at = t
    <3> PICK j \in jobs' : j.kind # "load" /\ j.id = i /\ j.rec.at = t
      BY <2>2
    <3>1. CASE j \in jobs
      BY <3>1 DEF Stamped
    <3>2. CASE j \notin jobs
      BY <3>2
    <3> QED BY <3>1, <3>2
  <2>3. CASE running' # None /\ running'.id = i /\ running'.rec.at = t
    BY <2>3 DEF Stamped
  <2> QED BY <1>4, <2>1, <2>2, <2>3 DEF Stamped
<1>5. StampsSound'
  BY <1>4, StampsKept
<1>6. ASSUME NEW p \in Partitions
      PROVE  Bounded(p)'
  <2>1. \A i \in Ids : files'[p][i] # None => files[p][i] # None
    OBVIOUS
  <2> QED BY <1>2, <2>1, BoundedKept
<1> QED BY <1>1, <1>3, <1>5, <1>6

-----------------------------------------------------------------------------
(* The jobs of the store.                                                  *)

\* A job's file is on the disk, and a listing of its partition is under way.
LEMMA WriteKeeps ==
    ASSUME FilesBounds, FilesInv, NEW j \in jobs, j.kind \in {"save", "branch"},
           files' = [files EXCEPT ![j.part][j.id] = j.rec],
           jobs' = (jobs \ {j}) \cup {Pruning(j, None)},
           Typed', ShownIsHere', UNCHANGED <<clock, running>>
    PROVE  FilesInv'
<1> USE DEF FilesInv
<1>1. JobSound(j) /\ j.part \in Partitions /\ j.id \in Ids /\ j.rec \in FileOf /\ j.rec.home = j.part
  BY DEF JobSound, JobOf
<1> DEFINE k == Pruning(j, None)
<1>2. /\ JobSound(k) /\ k.kind = "prune" /\ k.of = None
      /\ k.part = j.part /\ k.id = j.id /\ k.rec = j.rec
  BY <1>1, PruningSound
<1>3. \A p \in Partitions : files[p] \in [Ids -> FileOf \cup {None}]
  BY DEF Typed
<1>4. \A p \in Partitions, i \in Ids :
         files'[p][i] = IF p = j.part /\ i = j.id THEN j.rec ELSE files[p][i]
  BY <1>1, <1>3 DEF Typed
<1> HIDE DEF k
<1>5. jobs' = (jobs \ {j}) \cup {k}
  BY DEF k
<1>6. \A h \in jobs' : JobSound(h)
  BY <1>2, <1>5
<1>7. StaysHome'
  BY <1>1, <1>3, <1>4 DEF StaysHome, Present
<1>8. ASSUME NEW i \in Ids, NEW t \in Nat, Stamped(i, t)'
      PROVE  Stamped(i, t)
  <2>1. CASE \E p \in Partitions : files'[p][i] # None /\ files'[p][i].at = t
    <3> PICK p \in Partitions : files'[p][i] # None /\ files'[p][i].at = t
      BY <2>1
    <3>1. CASE p = j.part /\ i = j.id
      BY <1>4, <3>1 DEF Stamped
    <3>2. CASE ~(p = j.part /\ i = j.id)
      BY <1>4, <3>2 DEF Stamped
    <3> QED BY <3>1, <3>2
  <2>2. CASE \E h \in jobs' : h.kind # "load" /\ h.id = i /\ h.rec.at = t
    <3> PICK h \in jobs' : h.kind # "load" /\ h.id = i /\ h.rec.at = t
      BY <2>2
    <3>1. CASE h = k
      BY <1>2, <3>1 DEF Stamped
    <3>2. CASE h # k
      BY <1>5, <3>2 DEF Stamped
    <3> QED BY <3>1, <3>2
  <2>3. CASE running' # None /\ running'.id = i /\ running'.rec.at = t
    BY <2>3 DEF Stamped
  <2> QED BY <1>8, <2>1, <2>2, <2>3 DEF Stamped
<1>9. StampsSound'
  BY <1>1, <1>8, StampsKept
<1>10. ASSUME NEW p \in Partitions
       PROVE  Bounded(p)'
  <2>1. CASE p = j.part
    BY <1>2, <1>5, <2>1 DEF Bounded, Works
  <2>2. CASE p # j.part
    <3>1. \A i \in Ids : files'[p][i] # None => files[p][i] # None
      BY <1>4, <2>2
    <3>2. \A h \in jobs : h.part = p /\ h.kind \in {"save", "prune"} => h \in jobs'
      BY <1>5, <2>2
    <3> QED BY <1>3, <3>1, <3>2, BoundedKept
  <2> QED BY <2>1, <2>2
<1> QED BY <1>6, <1>7, <1>9, <1>10

LEMMA ListKeeps ==
    ASSUME FilesBounds, FilesInv, NEW j \in jobs, List(j)
    PROVE  FilesInv'
<1> USE DEF FilesInv
<1> DEFINE d == Overflow(files[j.part])
           k == Pruning(j, d)
<1>1. /\ j.kind = "prune" /\ j.of = None /\ jobs' = (jobs \ {j}) \cup {k}
      /\ UNCHANGED <<dir, files, shown, title, running, moved, request, clock, ops>>
  BY DEF List
<1>2. JobSound(j) /\ j.part \in Partitions /\ j.id \in Ids
  BY DEF JobSound, JobOf
<1>3. d \in SUBSET Ids
  BY DEF Overflow
<1>4. /\ JobSound(k) /\ k.kind = "prune" /\ k.of = d
      /\ k.part = j.part /\ k.id = j.id /\ k.rec = j.rec
  BY <1>1, <1>2, <1>3, PruningSound
<1>5. Typed' /\ StaysHome' /\ ShownIsHere'
  BY <1>1 DEF Typed, StaysHome, ShownIsHere, Present
<1>6. files[j.part] \in [Ids -> FileOf \cup {None}]
  BY <1>2 DEF Typed
<1>7. Cardinality(Present(j.part) \ d) <= Limit
  <2>1. ASSUME NEW i \in Ids, NEW h \in Ids, files[j.part][i] # None, files[j.part][h] # None,
               files[j.part][i].at = files[j.part][h].at
        PROVE  i = h
    <3>1. files[j.part][i].at \in Nat
      BY <1>6, <2>1 DEF FileOf
    <3>2. Stamped(i, files[j.part][i].at) /\ Stamped(h, files[j.part][i].at)
      BY <1>2, <2>1 DEF Stamped
    <3> QED BY <3>1, <3>2 DEF StampsSound
  <2> QED BY <1>6, <2>1, OverflowLeavesLimit DEF Present
<1> HIDE DEF k, d
<1>8. \A h \in jobs' : JobSound(h)
  BY <1>1, <1>4
<1>9. ASSUME NEW i \in Ids, NEW t \in Nat, Stamped(i, t)'
      PROVE  Stamped(i, t)
  BY <1>1, <1>4, <1>9 DEF Stamped
<1>10. StampsSound'
  BY <1>1, <1>2, <1>5, <1>9, StampsKept
<1>11. d # None
  BY <1>3 DEF FilesBounds
<1>12. ASSUME NEW p \in Partitions
       PROVE  Bounded(p)'
  <2>1. CASE p = j.part
    BY <1>1, <1>4, <1>7, <1>11, <2>1 DEF Bounded, Drops, Present
  <2>2. CASE p # j.part
    <3>1. \A h \in jobs : h.part = p => h \in jobs'
      BY <1>1, <2>2
    <3>2. files[p] \in [Ids -> FileOf \cup {None}]
      BY DEF Typed
    <3> QED BY <1>1, <3>1, <3>2, BoundedKept
  <2> QED BY <2>1, <2>2
<1> QED BY <1>5, <1>8, <1>10, <1>12

\* The files that a listing found beyond the limit go, whatever was written
\* since: who wrote them lists the partition again.
LEMMA PruneKeeps ==
    ASSUME FilesBounds, FilesInv, NEW j \in jobs, Prune(j)
    PROVE  FilesInv'
<1> USE DEF FilesInv
<1>1. /\ j.kind = "prune" /\ j.of # None /\ jobs' = jobs \ {j}
      /\ files' = [files EXCEPT ![j.part] =
                     [i \in Ids |-> IF i \in j.of THEN None ELSE files[j.part][i]]]
      /\ UNCHANGED <<dir, shown, title, running, moved, request, clock, ops>>
  BY DEF Prune
<1>2. JobSound(j) /\ j.part \in Partitions /\ j.id \in Ids /\ j.of \in SUBSET Ids
  BY <1>1 DEF JobSound, JobOf
<1>3. \A p \in Partitions : files[p] \in [Ids -> FileOf \cup {None}]
  BY DEF Typed
<1>4. \A p \in Partitions, i \in Ids :
         files'[p][i] = IF p = j.part /\ i \in j.of THEN None ELSE files[p][i]
  BY <1>1, <1>2, <1>3 DEF Typed
<1>5. files' \in [Partitions -> [Ids -> FileOf \cup {None}]]
  BY <1>1, <1>2, <1>3 DEF Typed
<1>6. Typed' /\ StaysHome' /\ ShownIsHere'
  BY <1>1, <1>3, <1>4, <1>5 DEF Typed, StaysHome, ShownIsHere, Present
<1>7. \A h \in jobs' : JobSound(h)
  BY <1>1
<1>8. ASSUME NEW i \in Ids, NEW t \in Nat, Stamped(i, t)'
      PROVE  Stamped(i, t)
  BY <1>1, <1>4, <1>8 DEF Stamped
<1>9. StampsSound'
  BY <1>1, <1>2, <1>6, <1>8, StampsKept
<1>10. ASSUME NEW p \in Partitions
       PROVE  Bounded(p)'
  <2>1. \A i \in Ids : files'[p][i] # None => files[p][i] # None
    BY <1>4
  <2>2. CASE p # j.part
    BY <1>1, <1>3, <2>1, <2>2, BoundedKept
  <2>3. CASE p = j.part
    <3> DEFINE Now == {i \in Ids : files'[p][i] # None}
    <3>1. Now \in SUBSET Present(p) /\ Present(p) \in SUBSET Ids
          /\ Now \in SUBSET (Present(p) \ j.of)
      BY <1>4, <2>3 DEF Present
    <3>2. Present(p)' = Now
      BY DEF Present
    <3> HIDE DEF Now
    <3>3. CASE \E h \in jobs : Works(h, p)
      BY <1>1, <3>3 DEF Bounded, Works
    <3>4. CASE Cardinality(Present(p)) <= Limit
      <4>1. Cardinality(Now) <= Limit
        BY <3>1, <3>4, PresentFinite DEF FilesBounds
      <4> QED BY <3>2, <4>1 DEF Bounded
    <3>5. CASE \E h \in jobs : Drops(h, p) /\ Cardinality(Present(p) \ h.of) <= Limit
      <4> PICK h \in jobs : Drops(h, p) /\ Cardinality(Present(p) \ h.of) <= Limit
        BY <3>5
      <4>1. CASE h = j
        <5>1. Present(p) \ j.of \in SUBSET Ids
          BY <3>1
        <5>2. Cardinality(Now) <= Limit
          BY <3>1, <4>1, <5>1, PresentFinite DEF FilesBounds
        <5> QED BY <3>2, <5>2 DEF Bounded
      <4>2. CASE h # j
        <5>1. Now \ h.of \in SUBSET (Present(p) \ h.of) /\ Present(p) \ h.of \in SUBSET Ids
          BY <3>1
        <5>2. Cardinality(Now \ h.of) <= Limit
          BY <5>1, PresentFinite DEF FilesBounds
        <5>3. h \in jobs'
          BY <1>1, <4>2
        <5> QED BY <3>2, <5>2, <5>3 DEF Bounded, Drops
      <4> QED BY <4>1, <4>2
    <3> QED BY <3>3, <3>4, <3>5 DEF Bounded
  <2> QED BY <2>2, <2>3
<1> QED BY <1>6, <1>7, <1>9, <1>10

-----------------------------------------------------------------------------
(* The gestures and the answers that only add or drop jobs.                *)

LEMMA RenameKeeps ==
    ASSUME FilesBounds, FilesInv, NEW i \in Ids, NEW name \in Titles, Rename(i, name)
    PROVE  FilesInv'
<1> USE DEF FilesInv
<1> DEFINE k == [kind |-> "rename", part |-> dir, id |-> i, rec |-> files[dir][i],
                 of |-> name, req |-> 0]
<1>1. /\ files[dir][i] # None /\ jobs' = jobs \cup {k}
      /\ UNCHANGED <<dir, files, shown, title, running, moved, request, clock>>
  BY DEF Rename
<1>2. dir \in Partitions /\ files[dir][i] \in FileOf /\ files[dir][i].home = dir
  BY <1>1 DEF Typed, StaysHome, Present
<1>3. JobSound(k) /\ k.kind = "rename"
  <2>1. name \in Targets /\ "rename" \in Kinds
    BY DEF Targets, Kinds
  <2> QED BY <1>2, <2>1 DEF JobSound, JobOf
<1>4. Stamped(k.id, k.rec.at)
  BY <1>1, <1>2 DEF Stamped
<1> HIDE DEF k
<1>5. Typed' /\ ShownIsHere'
  BY <1>1 DEF Typed, ShownIsHere
<1>6. \A p \in Partitions, h \in Ids : files'[p][h] \in {files[p][h], None}
  BY <1>1
<1> QED BY <1>1, <1>3, <1>4, <1>5, <1>6, QuietStep

LEMMA RenamedKeeps ==
    ASSUME FilesBounds, FilesInv, NEW j \in jobs, Renamed(j)
    PROVE  FilesInv'
<1> USE DEF FilesInv
<1> DEFINE k == SavedAs(j, j.of)
<1>1. /\ j.kind = "rename" /\ jobs' = (jobs \ {j}) \cup {k}
      /\ title' = IF dir = j.part /\ shown.id = j.id THEN j.of ELSE title
      /\ UNCHANGED <<dir, files, shown, running, moved, request, clock, ops>>
  BY DEF Renamed
<1>2. JobSound(j) /\ j.of \in Titles /\ j.id \in Ids
  BY <1>1 DEF JobSound, JobOf
<1>3. JobSound(k) /\ k.kind = "save" /\ k.id = j.id /\ k.rec.at = j.rec.at
  BY <1>1, <1>2, SavedAsSound
<1>4. Stamped(k.id, k.rec.at)
  BY <1>1, <1>3 DEF Stamped
<1> HIDE DEF k
<1>5. Typed' /\ ShownIsHere'
  BY <1>1, <1>2 DEF Typed, ShownIsHere
<1>6. \A p \in Partitions, h \in Ids : files'[p][h] \in {files[p][h], None}
  BY <1>1
<1>7. \A h \in jobs : h.kind \in {"save", "prune"} => h \in jobs'
  BY <1>1
<1> QED BY <1>1, <1>2, <1>3, <1>4, <1>5, <1>6, <1>7, QuietStep

LEMMA DeleteKeeps ==
    ASSUME FilesBounds, FilesInv, NEW i \in Ids, Delete(i)
    PROVE  FilesInv'
<1> USE DEF FilesInv
<1>1. /\ files' = [files EXCEPT ![dir][i] = None]
      /\ UNCHANGED <<dir, shown, title, running, jobs, moved, request, clock>>
  BY DEF Delete
<1>2. \A p \in Partitions, h \in Ids :
         files'[p][h] = IF p = dir /\ h = i THEN None ELSE files[p][h]
  BY <1>1 DEF Typed
<1>3. files' \in [Partitions -> [Ids -> FileOf \cup {None}]]
  BY <1>1 DEF Typed
<1>4. Typed' /\ ShownIsHere'
  BY <1>1, <1>3 DEF Typed, ShownIsHere
<1> QED BY <1>1, <1>2, <1>4, QuietStep

\* The store moves: the view is behind until it follows.
LEMMA SwitchKeeps ==
    ASSUME FilesBounds, FilesInv, NEW p \in Partitions, Switch(p)
    PROVE  FilesInv'
<1> USE DEF FilesInv
<1>1. dir' = p /\ moved' = TRUE /\ UNCHANGED <<files, shown, title, running, jobs, request, clock>>
  BY DEF Switch
<1>2. Typed' /\ ShownIsHere' /\ shown.id \in Ids
  BY <1>1 DEF Typed, ShownIsHere
<1>3. \A q \in Partitions, h \in Ids : files'[q][h] \in {files[q][h], None}
  BY <1>1
<1> QED BY <1>1, <1>2, <1>3, QuietStep

\* Stopping a run saves what it has in the partition it began in.
LEMMA HaltedSound ==
    ASSUME FilesInv
    PROVE  \A j \in Halted : JobSound(j) /\ j.kind = "save" /\ Stamped(j.id, j.rec.at)
<1>1. CASE running = None
  BY <1>1 DEF Halted
<1>2. CASE running # None
  <2> DEFINE k == Save(running.part, running.id, running.rec)
  <2>1. running \in RunOf /\ running.rec.home = running.part
    BY <1>2 DEF FilesInv, Typed
  <2>2. JobSound(k) /\ k.kind = "save" /\ k.id = running.id /\ k.rec = running.rec
    BY <2>1, SaveSound DEF RunOf
  <2>3. Stamped(running.id, running.rec.at)
    BY <1>2 DEF Stamped
  <2> HIDE DEF k
  <2>4. Halted = {k}
    BY <1>2 DEF Halted, k
  <2> QED BY <2>2, <2>3, <2>4
<1> QED BY <1>1, <1>2

\* A new chat, also the one the view opens when it follows the store.
LEMMA StartFreshKeeps ==
    ASSUME FilesBounds, FilesInv, NEW i \in Ids, StartFresh(i),
           moved' \in BOOLEAN, UNCHANGED <<dir, files, clock>>
    PROVE  FilesInv'
<1> USE DEF FilesInv
<1>1. /\ shown' = [id |-> i, home |-> dir, turns |-> 0, parent |-> None]
      /\ title' = None /\ running' = None /\ jobs' = jobs \cup Halted /\ request' = request + 1
  BY DEF StartFresh
<1>2. Typed' /\ ShownIsHere'
  BY <1>1 DEF Typed, ShownIsHere
<1>3. \A p \in Partitions, h \in Ids : files'[p][h] \in {files[p][h], None}
  OBVIOUS
<1>4. \A j \in jobs' \ jobs : JobSound(j) /\ Stamped(j.id, j.rec.at)
  BY <1>1, HaltedSound
<1> QED BY <1>1, <1>2, <1>3, <1>4, QuietStep

LEMMA AskLoadKeeps ==
    ASSUME FilesBounds, FilesInv, NEW i \in Ids, AskLoad(i)
    PROVE  FilesInv'
<1> USE DEF FilesInv
<1> DEFINE k == [kind |-> "load", part |-> dir, id |-> i, rec |-> None, of |-> shown.id,
                 req |-> request + 1]
<1>1. /\ request' = request + 1 /\ jobs' = jobs \cup Halted \cup {k} /\ running' = None
      /\ UNCHANGED <<dir, files, shown, title, moved, clock>>
  BY DEF AskLoad
<1>2. JobSound(k) /\ k.kind = "load"
  <2>1. shown.id \in Targets /\ "load" \in Kinds
    BY DEF Targets, Kinds, Typed
  <2> QED BY <2>1 DEF JobSound, JobOf, Typed
<1> HIDE DEF k
<1>3. Typed' /\ ShownIsHere'
  BY <1>1 DEF Typed, ShownIsHere
<1>4. \A p \in Partitions, h \in Ids : files'[p][h] \in {files[p][h], None}
  BY <1>1
<1>5. \A j \in jobs' \ jobs : JobSound(j) /\ (j.kind = "load" \/ Stamped(j.id, j.rec.at))
  BY <1>1, <1>2, HaltedSound
<1> QED BY <1>1, <1>3, <1>4, <1>5, QuietStep

\* What is opened is of the partition the store is bound to.
LEMMA OpenedKeeps ==
    ASSUME FilesBounds, FilesInv, NEW j \in jobs, Opened(j)
    PROVE  FilesInv'
<1> USE DEF FilesInv
<1> DEFINE f == files[j.part][j.id]
<1>1. /\ j.kind = "load" /\ jobs' = jobs \ {j}
      /\ IF Wanted(j) /\ f # None
         THEN /\ shown' = [id |-> j.id, home |-> f.home, turns |-> f.turns, parent |-> f.parent]
              /\ title' = f.title /\ running' = running
         ELSE UNCHANGED <<shown, title, running>>
      /\ UNCHANGED <<dir, files, moved, request, clock, ops>>
  BY DEF Opened
<1>2. j.part \in Partitions /\ j.id \in Ids
  BY DEF JobSound, JobOf
<1>3. f # None => f \in FileOf /\ f.home = j.part
  BY <1>2 DEF Typed, StaysHome, Present
<1> HIDE DEF f
<1>4. Typed' /\ ShownIsHere'
  <2>1. CASE Wanted(j) /\ f # None
    <3>1. f.home \in Partitions /\ f.home = dir /\ f.turns \in Nat /\ f.title \in Titles \cup {None}
          /\ f.parent \in Ids \cup {None}
      BY <1>3, <2>1 DEF FileOf, Wanted
    <3>2. shown' \in [id : Ids, home : Partitions, turns : Nat, parent : Ids \cup {None}]
          /\ shown'.home = dir
      BY <1>1, <1>2, <2>1, <3>1
    <3> QED BY <1>1, <2>1, <3>1, <3>2 DEF Typed, ShownIsHere
  <2>2. CASE ~(Wanted(j) /\ f # None)
    BY <1>1, <2>2 DEF Typed, ShownIsHere
  <2> QED BY <2>1, <2>2
<1>5. running' = running /\ \A h \in jobs : h.kind \in {"save", "prune"} => h \in jobs'
  BY <1>1
<1>6. \A p \in Partitions, h \in Ids : files'[p][h] \in {files[p][h], None}
  BY <1>1
<1> QED BY <1>1, <1>2, <1>4, <1>5, <1>6, QuietStep

LEMMA NamedKeeps ==
    ASSUME FilesBounds, FilesInv, NEW j \in jobs, Named(j)
    PROVE  FilesInv'
<1> USE DEF FilesInv
<1>1. j.kind = "title" /\ UNCHANGED <<dir, files, shown, running, moved, request, clock, ops>>
  BY DEF Named
<1>2. JobSound(j) /\ j.id \in Ids
  BY DEF JobSound, JobOf
<1>3. \A p \in Partitions, h \in Ids : files'[p][h] \in {files[p][h], None}
  BY <1>1
<1>4. CASE \E name \in Titles : title' = name /\ jobs' = (jobs \ {j}) \cup {SavedAs(j, name)}
  <2> PICK name \in Titles : title' = name /\ jobs' = (jobs \ {j}) \cup {SavedAs(j, name)}
    BY <1>4
  <2> DEFINE k == SavedAs(j, name)
  <2>1. JobSound(k) /\ k.kind = "save" /\ k.id = j.id /\ k.rec.at = j.rec.at
    BY <1>1, <1>2, SavedAsSound
  <2>2. Stamped(k.id, k.rec.at)
    BY <1>1, <2>1 DEF Stamped
  <2>3. Typed' /\ ShownIsHere'
    BY <1>1 DEF Typed, ShownIsHere
  <2> HIDE DEF k
  <2>4. jobs' = (jobs \ {j}) \cup {k}
    BY DEF k
  <2> QED BY <1>1, <1>2, <1>3, <2>1, <2>2, <2>3, <2>4, QuietStep
<1>5. CASE jobs' = jobs \ {j} /\ title' = title
  <2>1. Typed' /\ ShownIsHere'
    BY <1>1, <1>5 DEF Typed, ShownIsHere
  <2> QED BY <1>1, <1>2, <1>3, <1>5, <2>1, QuietStep
<1> QED BY <1>4, <1>5 DEF Named

-----------------------------------------------------------------------------
(* The steps that take a new time.                                         *)

LEMMA RunBeginsKeeps ==
    ASSUME FilesBounds, FilesInv, RunBegins
    PROVE  FilesInv'
<1> USE DEF FilesInv
<1> DEFINE rec == File(shown.home, shown.turns + 1, title, clock + 1, shown.parent)
           me  == [part |-> dir, id |-> shown.id, rec |-> rec]
<1>1. /\ ~moved /\ clock' = clock + 1 /\ shown' = [shown EXCEPT !.turns = @ + 1]
      /\ running' = me /\ UNCHANGED <<dir, files, title, jobs, moved, request>>
  BY DEF RunBegins
<1>2. shown.home = dir /\ shown.id \in Ids
  BY <1>1 DEF ShownIsHere, Typed
<1>3. rec \in FileOf /\ rec.home = dir /\ rec.at = clock + 1
  BY <1>2 DEF Typed, FileOf, File
<1> HIDE DEF rec
<1>4. me \in RunOf /\ me.id = shown.id /\ me.rec.at = clock + 1 /\ me.rec.home = me.part
  BY <1>2, <1>3 DEF RunOf, Typed
<1> HIDE DEF me
<1>5. Typed'
  BY <1>1, <1>4 DEF Typed
<1>6. ShownIsHere'
  BY <1>1, <1>2 DEF ShownIsHere, Typed
<1>7. StampsNow(shown.id, running'.id, running'.rec.at)
  BY <1>1, <1>4 DEF StampsNow
<1>8. \A p \in Partitions, h \in Ids : files'[p][h] \in {files[p][h], None}
  BY <1>1
<1> QED BY <1>1, <1>2, <1>5, <1>6, <1>7, <1>8, QuietStep

\* A run ends: its save, and the title it may ask for, take the new time.
LEMMA RunEndsKeeps ==
    ASSUME FilesBounds, FilesInv, RunEnds
    PROVE  FilesInv'
<1> USE DEF FilesInv
<1> DEFINE rec   == [running.rec EXCEPT !.at = clock + 1]
           k     == Save(running.part, running.id, rec)
           n     == [kind |-> "title", part |-> running.part, id |-> running.id,
                     rec |-> rec, of |-> None, req |-> 0]
           naming == IF title = None /\ rec.turns = 1 THEN {n} ELSE {}
<1>1. /\ running # None /\ clock' = clock + 1 /\ running' = None
      /\ jobs' = jobs \cup {k} \cup naming
      /\ UNCHANGED <<dir, files, shown, title, moved, request, ops>>
  BY DEF RunEnds
<1>2. running.part \in Partitions /\ running.id \in Ids
      /\ running.rec \in FileOf /\ running.rec.home = running.part
  BY <1>1 DEF Typed, RunOf
<1>3. rec \in FileOf /\ rec.home = running.part /\ rec.at = clock + 1
  <2>1. clock + 1 \in Nat
    BY DEF Typed
  <2> QED BY <1>2, <2>1, SMTT(40) DEF FileOf
<1> HIDE DEF rec
<1>4. JobSound(k) /\ k.id = running.id /\ k.rec = rec
  BY <1>2, <1>3, SaveSound
<1>5. JobSound(n) /\ n.id = running.id /\ n.rec = rec
  <2>1. None \in Targets /\ "title" \in Kinds
    BY DEF Targets, Kinds
  <2> QED BY <1>2, <1>3, <2>1 DEF JobSound, JobOf
<1>6. naming \in SUBSET {n}
  OBVIOUS
<1> HIDE DEF k, n, naming
<1>7. \A j \in jobs' \ jobs : JobSound(j) /\ StampsNow(running.id, j.id, j.rec.at)
  BY <1>1, <1>3, <1>4, <1>5, <1>6 DEF StampsNow
<1>8. Typed' /\ ShownIsHere'
  BY <1>1 DEF Typed, ShownIsHere
<1>9. \A p \in Partitions, h \in Ids : files'[p][h] \in {files[p][h], None}
  BY <1>1
<1> QED BY <1>1, <1>2, <1>7, <1>8, <1>9, QuietStep

LEMMA BranchKeeps ==
    ASSUME FilesBounds, FilesInv, NEW i \in Ids, Branch(i)
    PROVE  FilesInv'
<1> USE DEF FilesInv
<1> DEFINE rec == File(shown.home, shown.turns, title, clock + 1, shown.id)
           k   == [kind |-> "branch", part |-> dir, id |-> i, rec |-> rec, of |-> shown.id, req |-> 0]
<1>1. /\ ~moved /\ clock' = clock + 1 /\ jobs' = jobs \cup {k}
      /\ UNCHANGED <<dir, files, shown, title, running, moved, request>>
  BY DEF Branch
<1>2. shown.home = dir /\ shown.id \in Ids
  BY <1>1 DEF ShownIsHere, Typed
<1>3. rec \in FileOf /\ rec.home = dir /\ rec.at = clock + 1
  BY <1>2 DEF Typed, FileOf, File
<1> HIDE DEF rec
<1>4. JobSound(k) /\ k.id = i /\ k.rec = rec
  <2>1. shown.id \in Targets /\ "branch" \in Kinds
    BY <1>2 DEF Targets, Kinds
  <2> QED BY <1>3, <2>1 DEF JobSound, JobOf, Typed
<1> HIDE DEF k
<1>5. \A j \in jobs' \ jobs : JobSound(j) /\ StampsNow(i, j.id, j.rec.at)
  BY <1>1, <1>3, <1>4 DEF StampsNow
<1>6. Typed' /\ ShownIsHere'
  BY <1>1 DEF Typed, ShownIsHere
<1>7. \A p \in Partitions, h \in Ids : files'[p][h] \in {files[p][h], None}
  BY <1>1
<1> QED BY <1>1, <1>5, <1>6, <1>7, QuietStep

LEMMA BranchedKeeps ==
    ASSUME FilesBounds, FilesInv, NEW j \in jobs, Branched(j)
    PROVE  FilesInv'
<1> USE DEF FilesInv
<1>1. j.kind = "branch" /\ UNCHANGED <<dir, moved, clock, ops>>
  BY DEF Branched
<1>2. JobSound(j) /\ j.part \in Partitions /\ j.id \in Ids /\ j.rec \in FileOf /\ j.rec.home = j.part
  BY <1>1 DEF JobSound, JobOf
<1>3. CASE Unchanged(j)
  <2>1. /\ files' = [files EXCEPT ![j.part][j.id] = j.rec]
        /\ jobs' = (jobs \ {j}) \cup {Pruning(j, None)}
        /\ shown' = [id |-> j.id, home |-> j.rec.home, turns |-> j.rec.turns, parent |-> j.of]
        /\ title' = j.rec.title /\ running' = running /\ request' = request + 1
    BY <1>3 DEF Branched
  <2>2. j.part = dir /\ j.of = shown.id
    BY <1>3 DEF Unchanged
  <2>3. shown' \in [id : Ids, home : Partitions, turns : Nat, parent : Ids \cup {None}]
    BY <1>2, <2>1, <2>2 DEF FileOf, Typed
  <2>4. files' \in [Partitions -> [Ids -> FileOf \cup {None}]]
    BY <1>2, <2>1 DEF Typed
  <2>5. title' \in Titles \cup {None} /\ request' \in Nat
    BY <1>2, <2>1 DEF FileOf, Typed
  <2>6. Typed'
    BY <1>1, <2>1, <2>3, <2>4, <2>5 DEF Typed
  <2>7. ShownIsHere'
    BY <1>1, <1>2, <2>1, <2>2 DEF ShownIsHere
  <2> QED BY <1>1, <2>1, <2>6, <2>7, WriteKeeps
<1>4. CASE ~Unchanged(j)
  <2>1. jobs' = jobs \ {j} /\ UNCHANGED <<files, shown, title, running, request>>
    BY <1>4 DEF Branched
  <2>2. Typed' /\ ShownIsHere'
    BY <1>1, <2>1 DEF Typed, ShownIsHere
  <2>3. \A p \in Partitions, h \in Ids : files'[p][h] \in {files[p][h], None}
    BY <2>1
  <2> QED BY <1>1, <1>2, <2>1, <2>2, <2>3, QuietStep
<1> QED BY <1>3, <1>4

-----------------------------------------------------------------------------
(* The specification.                                                      *)

LEMMA JobStepKeeps ==
    ASSUME FilesBounds, FilesInv, NEW j \in jobs, JobStep(j)
    PROVE  FilesInv'
<1>1. CASE Write(j)
  <2>1. /\ j.kind = "save" /\ files' = [files EXCEPT ![j.part][j.id] = j.rec]
        /\ jobs' = (jobs \ {j}) \cup {Pruning(j, None)}
        /\ UNCHANGED <<dir, shown, title, running, moved, request, clock, ops>>
    BY <1>1 DEF Write
  <2>2. j.part \in Partitions /\ j.id \in Ids /\ j.rec \in FileOf
    BY <2>1 DEF FilesInv, JobSound, JobOf
  <2>3. files' \in [Partitions -> [Ids -> FileOf \cup {None}]]
    BY <2>1, <2>2 DEF FilesInv, Typed
  <2>4. Typed' /\ ShownIsHere'
    BY <2>1, <2>3 DEF FilesInv, Typed, ShownIsHere
  <2> QED BY <2>1, <2>4, WriteKeeps
<1> QED
  BY <1>1, ListKeeps, PruneKeeps, RenamedKeeps, NamedKeeps, OpenedKeeps, BranchedKeeps DEF JobStep

\* FilesInv holds of every reachable state.  The limit alone is not inductive:
\* a listing drops what it saw, so the invariant says which job will see to a
\* partition over its limit, and that no two conversations share a time, by
\* which a listing orders them.
THEOREM FilesInvariance ==
    ASSUME FilesBounds
    PROVE  FilesSpec => []FilesInv
<1>1. FilesInit => FilesInv
  <2> SUFFICES ASSUME FilesInit PROVE FilesInv
    OBVIOUS
  <2>1. Typed /\ StaysHome /\ ShownIsHere
    <3>1. shown \in [id : Ids, home : Partitions, turns : Nat, parent : Ids \cup {None}]
          /\ shown.home = dir
      BY DEF FilesInit
    <3>2. files \in [Partitions -> [Ids -> FileOf \cup {None}]]
      BY DEF FilesInit
    <3> QED BY <3>1, <3>2 DEF FilesInit, Typed, StaysHome, ShownIsHere, Present
  <2>2. StampsSound
    BY DEF FilesInit, StampsSound, Stamped
  <2>3. ASSUME NEW p \in Partitions
        PROVE  Bounded(p)
    <3>1. Present(p) = {}
      BY DEF FilesInit, Present
    <3> QED BY <3>1, FS_EmptySet DEF Bounded, FilesBounds
  <2> QED BY <2>1, <2>2, <2>3 DEF FilesInv, FilesInit
<1>2. FilesInv /\ [FilesNext]_filesVars => FilesInv'
  <2> SUFFICES ASSUME FilesInv, [FilesNext]_filesVars PROVE FilesInv'
    OBVIOUS
  <2>1. CASE \E i \in Ids, n \in Titles : Rename(i, n)
    BY <2>1, RenameKeeps
  <2>2. CASE \E i \in Ids : Delete(i) \/ AskLoad(i) \/ Branch(i)
    BY <2>2, DeleteKeeps, AskLoadKeeps, BranchKeeps
  <2>3. CASE \E i \in Ids : NewChat(i) \/ Follow(i)
    <3> PICK i \in Ids : NewChat(i) \/ Follow(i)
      BY <2>3
    <3>1. StartFresh(i) /\ moved' \in BOOLEAN /\ UNCHANGED <<dir, files, clock>>
      BY DEF NewChat, Follow, FilesInv, Typed
    <3> QED BY <3>1, StartFreshKeeps
  <2>4. CASE \E p \in Partitions : Switch(p)
    BY <2>4, SwitchKeeps
  <2>5. CASE RunBegins \/ RunEnds
    BY <2>5, RunBeginsKeeps, RunEndsKeeps
  <2>6. CASE \E j \in jobs : JobStep(j)
    BY <2>6, JobStepKeeps
  <2>7. CASE UNCHANGED filesVars
    <3>1. Typed' /\ StaysHome' /\ ShownIsHere' /\ \A j \in jobs' : JobSound(j)
      BY <2>7 DEF filesVars, FilesInv, Typed, StaysHome, ShownIsHere, Present
    <3>2. StampsSound'
      BY <2>7 DEF filesVars, FilesInv, StampsSound, Stamped
    <3>3. \A p \in Partitions : Bounded(p)'
      BY <2>7 DEF filesVars, FilesInv, Bounded, Works, Drops, Present
    <3> QED BY <3>1, <3>2, <3>3 DEF FilesInv
  <2> QED BY <2>1, <2>2, <2>3, <2>4, <2>5, <2>6, <2>7 DEF FilesNext
<1> QED BY <1>1, <1>2, PTL DEF FilesSpec

\* The store and the view keep their types.
THEOREM FilesTypes ==
    ASSUME FilesBounds
    PROVE  FilesSpec => []FilesTypeOK
<1>1. FilesInv => FilesTypeOK
  <2> SUFFICES ASSUME FilesInv PROVE FilesTypeOK
    OBVIOUS
  <2>1. dir \in Partitions /\ shown.id \in Ids /\ moved \in BOOLEAN
    BY DEF FilesInv, Typed
  <2>2. \A p \in Partitions : \A i \in Present(p) : files[p][i].turns \in Nat
    BY DEF FilesInv, Typed, Present, FileOf
  <2>3. \A j \in jobs : j.part \in Partitions /\ j.id \in Ids
    BY DEF FilesInv, JobSound, JobOf
  <2> QED BY <2>1, <2>2, <2>3 DEF FilesTypeOK
<1> QED BY <1>1, FilesInvariance, PTL

\* However often the store is rebound under saves, titles, renames and branches,
\* no file lands in another partition than its conversation was held in.
THEOREM FilesStayHome ==
    ASSUME FilesBounds
    PROVE  FilesSpec => []StaysHome
<1>1. FilesInv => StaysHome
  BY DEF FilesInv
<1> QED BY <1>1, FilesInvariance, PTL

\* The view shows a conversation of the partition the store is bound to, or is
\* about to follow it.
THEOREM ViewIsHere ==
    ASSUME FilesBounds
    PROVE  FilesSpec => []ShownIsHere
<1>1. FilesInv => ShownIsHere
  BY DEF FilesInv
<1> QED BY <1>1, FilesInvariance, PTL

\* With no save and no pruning under way a partition holds no more than Limit
\* files, whatever writes, listings and prunings of one partition overlapped.
THEOREM StoreWithinLimit ==
    ASSUME FilesBounds
    PROVE  FilesSpec => []StoreBounded
<1>1. FilesInv => StoreBounded
  BY DEF FilesInv, StoreBounded, Bounded, Works, Drops
<1> QED BY <1>1, FilesInvariance, PTL

\* A step that opens a stored chat opens the one asked for last.
THEOREM LastAskedOpens ==
    ASSUME FilesBounds
    PROVE  FilesSpec => [][OpensLastAsked]_filesVars
<1>1. FilesInv /\ [FilesNext]_filesVars => [OpensLastAsked]_filesVars
  <2> SUFFICES ASSUME FilesInv, FilesNext,
                      NEW j \in jobs \ jobs', j.kind = "load", shown'.id # shown.id
               PROVE  j.req = request /\ shown'.id = j.id
    BY DEF OpensLastAsked
  <2>1. PICK k \in jobs : k = j /\ JobStep(k)
    BY DEF FilesNext, Rename, Delete, NewChat, Follow, StartFresh, AskLoad, Branch, Switch,
           RunBegins, RunEnds, JobStep, Write, List, Prune, Renamed, Named, Opened, Branched
  <2>2. Opened(j)
    BY <2>1 DEF JobStep, Write, List, Prune, Renamed, Named, Branched
  <2> QED BY <2>2 DEF Opened, Wanted
<1> QED BY <1>1, FilesInvariance, PTL DEF FilesSpec

-----------------------------------------------------------------------------
(* VaultTools, for any calls, paths, policies and texts.                   *)

Text == Seq(Lines)
Tools == Vault!Previewed \cup {"delete", "rename", "read", "find"}
Stages == {"preview", "stamp", "asked", "run", "snap", "snapped", "write", "read"}
Snap == [of : Vault!Paths, at : Nat, text : Text]
\* What a call may have seen: the text of a note, or the notes it found.
Looks == Text \cup (SUBSET Vault!Paths) \cup {None}
Card == [plan : Text, mtime : Nat]
Call ==
    [op : Tools, mode : Modes, raw : Raws \cup Folders, to : Raws \cup {None},
     old : Olds \cup {None}, new : News \cup {None}, stage : Stages,
     preview : Card \cup {None}, stale : BOOLEAN,
     seen : Looks, plan : Text \cup {None},
     snap : Snap \cup {None},
     next : Nat \ {0}, got : Text, since : Nat, mark : Nat]

From(r) == Vault!Resolved(r.mode, r.raw)
Dest(r) == IF r.to = None THEN From(r) ELSE Vault!Resolved(r.mode, r.to)

VaultTypeOK ==
    /\ mode \in Modes /\ writes \in Nat
    /\ note \in [Vault!Paths -> Text \cup {None}]
    /\ mtime \in [Vault!Paths -> 0 .. writes] /\ touched \in [Vault!Paths -> 0 .. writes]
    /\ snaps \subseteq Snap
    /\ call \in [Calls -> Call \cup {None}]
    /\ \A c \in Calls : call[c] # None => call[c].since <= writes /\ call[c].mark <= writes

\* The time of a note tells its text.
TimeTells ==
    /\ \A p \in Vault!Paths : note[p] = None <=> mtime[p] = 0
    /\ \A p, q \in Vault!Paths : mtime[p] = mtime[q] => note[p] = note[q]

\* What a tool needs it is given.
Asked(r) ==
    /\ r.op \in Vault!Previewed => r.new # None
    /\ r.op = "rename" <=> r.to # None

\* What the stage of a call says of its record.
Staged(r) ==
    /\ r.raw \notin Raws => r.op = "delete" /\ r.stage \in {"asked", "run"}
    /\ r.stage = "preview" => r.op \in Vault!Previewed
    /\ r.op \in {"read", "find"} => r.stage \in {"run", "read"}
    /\ r.stage = "read" => r.op \in {"read", "find"}
    /\ r.stage \in {"snap", "snapped", "write"} =>
         /\ r.op \notin {"read", "find"} /\ From(r) # None /\ Dest(r) # None
         /\ r.plan # None
    /\ r.stage = "stamp" => r.preview # None
    /\ r.stale => r.op \in Vault!Previewed
    /\ r.preview # None => r.op \in Vault!Previewed /\ From(r) # None
    /\ r.snap # None => r.stage \in {"snapped", "write"} /\ r.snap.of = From(r)
    /\ r.stage = "snapped" => r.snap # None
    /\ r.stage = "read" => From(r) # None \/ r.op = "find"
    /\ r.next # 1 => From(r) # None /\ r.op = "read"

\* A preview that was card is of every note that has the time it was read at.
Shown(r) ==
    r.preview # None /\ r.stage \in {"stamp", "asked"} =>
        /\ \A p \in Vault!Paths : mtime[p] = r.since => Vault!Planned(r, note[p]) = r.preview.plan
        /\ r.since = 0 => Vault!Planned(r, None) = r.preview.plan

Fresh(r) == r.mark = touched[From(r)]

\* What was read of a note that stayed as it was is its beginning.
ReadSoFar(r) ==
    r.op = "read" =>
        /\ r.next = 1 => r.got = <<>> /\ r.stage # "read"
        /\ r.next # 1 /\ Fresh(r) =>
             /\ note[From(r)] # None /\ r.next - 1 <= Len(note[From(r)])
             /\ r.got = SubSeq(note[From(r)], 1, r.next - 1)
             /\ r.stage = "read" => r.next - 1 = Len(note[From(r)])

Found(r) == r.stage = "read" /\ r.op = "find" => \A p \in r.seen : Vault!Allowed(r.mode, p)

Waiting == {call[c].snap : c \in {d \in Calls : Vault!At(d, "snapped")}}

\* A snapshot taken of a note that stayed as it was: what is later has its text,
\* and one of them is stored once its call stored its own.
Guarded(r) ==
    r.snap # None /\ Fresh(r) =>
        /\ note[From(r)] # None
        /\ \A s \in snaps \cup Waiting : s.of = From(r) /\ s.at > r.snap.at => s.text = note[From(r)]
        /\ r.stage = "snapped" => r.snap.text = note[From(r)]
        /\ r.stage = "write" => \E s \in snaps : s.of = From(r) /\ s.at >= r.snap.at /\ s.text = note[From(r)]

\* Each name is stored once, and each note with snapshots has a newest one; some
\* stamp is the latest of all.
Newest ==
    /\ \A s, t \in snaps : Vault!SameName(s, t) => s = t
    /\ \A s \in snaps : \E t \in snaps : t.of = s.of /\ \A u \in snaps : u.of = s.of => u.at <= t.at
    /\ \E m \in {0} \cup {s.at : s \in snaps \cup Waiting} :
          \A s \in snaps \cup Waiting : s.at <= m

CallInv(r) == Asked(r) /\ Staged(r) /\ Shown(r) /\ ReadSoFar(r) /\ Found(r) /\ Guarded(r)

VaultInv == VaultTypeOK /\ TimeTells /\ Newest /\ \A c \in Calls : call[c] # None => CallInv(call[c])

\* What the code, and the model's bounds, give the constants: texts are lines, None
\* is none of them, the settings keep at least one snapshot (five, in fact), and no
\* name of a note is the end of another.
VaultBounds ==
    /\ First \in Text /\ UserTexts \subseteq Text \cup {None} /\ Olds \cup News \subseteq Lines
    /\ None \notin Text /\ None \notin Raws /\ None \notin Olds \cup News
    /\ None \notin Card /\ None \notin Snap /\ None \notin Call
    /\ MaxSnapshots \in Nat \ {0} /\ Ceiling \in Nat \ {0} /\ MaxCalls \in Nat
    /\ Counted = [p \in Vault!Paths |-> {p}]

-----------------------------------------------------------------------------
(* The operators.                                                          *)

LEMMA PathsOf ==
    ASSUME NEW m \in Modes, NEW raw \in Raws
    PROVE  Vault!Resolved(m, raw) # None =>
             Vault!Resolved(m, raw) \in Vault!Paths /\ Vault!Allowed(m, Vault!Resolved(m, raw))
  BY DEF Vault!Resolved, Vault!Paths

LEMMA FromTo ==
    ASSUME NEW r \in Call, r.raw \in Raws
    PROVE  /\ From(r) # None => From(r) \in Vault!Paths /\ Vault!Allowed(r.mode, From(r))
           /\ Dest(r) # None => Dest(r) \in Vault!Paths /\ Vault!Allowed(r.mode, Dest(r))
<1>1. r.mode \in Modes /\ r.raw \in Raws /\ r.to \in Raws \cup {None}
  BY DEF Call
<1> QED BY <1>1, PathsOf DEF From, Dest

LEMMA ReplacedText ==
    ASSUME NEW text \in Text, NEW old, NEW new \in Lines
    PROVE  Vault!Replaced(text, old, new) \in Text
<1> DEFINE at == CHOOSE n \in DOMAIN text : text[n] = old /\ \A k \in 1 .. (n - 1) : text[k] # old
<1>1. Vault!Replaced(text, old, new) = [text EXCEPT ![at] = new]
  BY DEF Vault!Replaced
<1> HIDE DEF at
<1>2. text \in [1 .. Len(text) -> Lines] /\ Len(text) \in Nat
  BY DEF Text
<1>3. [text EXCEPT ![at] = new] \in [1 .. Len(text) -> Lines]
  BY <1>2
<1> QED BY <1>1, <1>2, <1>3 DEF Text

LEMMA PlannedText ==
    ASSUME VaultBounds, NEW r \in Call, Asked(r), NEW text \in Text \cup {None}
    PROVE  Vault!Planned(r, text) \in Text \cup {None}
<1>1. r.op \in {"create", "overwrite", "append", "edit"} => r.new \in Lines
  BY DEF Asked, Call, Vault!Previewed, VaultBounds
<1>2. r.op = "edit" /\ text # None => Vault!Replaced(text, r.old, r.new) \in Text
  BY <1>1, ReplacedText
<1>3. r.new \in Lines => <<r.new>> \in Text /\ (text # None => Append(text, r.new) \in Text)
  BY AppendProperties DEF Text
<1> QED BY <1>1, <1>2, <1>3 DEF Vault!Planned

\* What a call would write depends on what it was asked, not on where it is.
LEMMA PlannedSame ==
    ASSUME NEW r, NEW s, r.op = s.op, r.old = s.old, r.new = s.new, NEW text
    PROVE  Vault!Planned(r, text) = Vault!Planned(s, text)
  BY DEF Vault!Planned

-----------------------------------------------------------------------------
(* The init state, and steps that touch no note and no snapshot.           *)

LEMMA VaultStarts == ASSUME VaultBounds, Vault!VaultInit PROVE VaultInv
<1> DEFINE P == Vault!Paths
<1>1. /\ mode \in Modes /\ writes = 1 /\ snaps = {}
      /\ note = [p \in P |-> IF p \in Missing THEN None ELSE First]
      /\ mtime = [p \in P |-> IF note[p] = None THEN 0 ELSE 1]
      /\ touched = [p \in P |-> 1]
      /\ call = [c \in Calls |-> None]
  BY DEF Vault!VaultInit
<1>2. First \in Text /\ First # None
  BY DEF VaultBounds
<1> HIDE DEF P
<1>3. note \in [P -> Text \cup {None}] /\ mtime \in [P -> 0 .. writes] /\ touched \in [P -> 0 .. writes]
  BY <1>1, <1>2
<1>4. \A p \in P : (note[p] = None /\ mtime[p] = 0) \/ (note[p] = First /\ mtime[p] = 1)
  BY <1>1, <1>2
<1>5. VaultTypeOK
  BY <1>1, <1>3 DEF VaultTypeOK, P
<1>6. TimeTells
  BY <1>2, <1>4 DEF TimeTells, P
<1>7. Waiting = {}
  BY <1>1 DEF Waiting, Vault!At
<1>8. Newest
  <2>1. 0 \in {0} \cup {s.at : s \in snaps \cup Waiting}
    OBVIOUS
  <2> QED BY <1>1, <1>7, <2>1 DEF Newest
<1> QED BY <1>1, <1>5, <1>6, <1>8 DEF VaultInv

\* Where nothing is written, what holds of a call goes on to hold.
LEMMA CallStays ==
    ASSUME NEW r, CallInv(r), UNCHANGED <<note, mtime, touched>>,
           (r.snap # None => snaps' = snaps),
           r.snap # None /\ Fresh(r) =>
              \A s \in Waiting' : s.of = From(r) /\ s.at > r.snap.at => s.text = note[From(r)]
    PROVE  CallInv(r)'
<1>1. Asked(r)' /\ Staged(r)' /\ Found(r)'
  BY DEF CallInv, Asked, Staged, Found, From, Dest
<1>2. Shown(r)' /\ ReadSoFar(r)'
  BY DEF CallInv, Shown, ReadSoFar, Fresh, From
<1>3. Guarded(r)'
  BY DEF CallInv, Guarded, Fresh, From
<1> QED BY <1>1, <1>2, <1>3 DEF CallInv

\* A call goes on, begins or ends, none of it with a snapshot yet to be stored.
LEMMA CallGoes ==
    ASSUME VaultInv, NEW c \in Calls, NEW r, call' = [call EXCEPT ![c] = r],
           UNCHANGED <<note, mtime, touched, writes, snaps>>, mode' \in Modes,
           ~Vault!At(c, "snapped"),
           r # None => /\ r \in Call /\ r.since <= writes /\ r.mark <= writes
                       /\ r.stage # "snapped" /\ CallInv(r)
    PROVE  VaultInv'
<1>1. call \in [Calls -> Call \cup {None}]
  BY DEF VaultInv, VaultTypeOK
<1>2. call'[c] = r /\ \A d \in Calls \ {c} : call'[d] = call[d]
  BY <1>1
<1>3. Waiting' = Waiting
  <2>1. \A d \in Calls : Vault!At(d, "snapped")' <=> Vault!At(d, "snapped")
    BY <1>2 DEF Vault!At
  <2>2. \A d \in Calls : Vault!At(d, "snapped") => call'[d] = call[d]
    BY <1>2
  <2> QED BY <2>1, <2>2 DEF Waiting
<1>4. VaultTypeOK'
  BY <1>1, <1>2 DEF VaultInv, VaultTypeOK
<1>5. TimeTells' /\ Newest'
  BY <1>3 DEF VaultInv, TimeTells, Newest, Vault!SameName
<1>6. ASSUME NEW d \in Calls, call'[d] # None
      PROVE  CallInv(call[d])'
  <2>0. PICK q : q = call'[d]
    OBVIOUS
  <2>1. CallInv(q)
    BY <1>2, <1>6, <2>0 DEF VaultInv
  <2>2. q.snap # None /\ Fresh(q) =>
           \A s \in Waiting' : s.of = From(q) /\ s.at > q.snap.at => s.text = note[From(q)]
    BY <1>3, <2>1 DEF CallInv, Guarded
  <2>3. CallInv(q)'
    BY <2>1, <2>2, CallStays
  <2> QED BY <2>0, <2>3
<1> QED BY <1>4, <1>5, <1>6 DEF VaultInv

-----------------------------------------------------------------------------
(* The approval card.                                                      *)

LEMMA CallNow ==
    ASSUME VaultInv, NEW c \in Calls, call[c] # None
    PROVE  /\ call[c] \in Call /\ call[c].since <= writes /\ call[c].mark <= writes
           /\ CallInv(call[c]) /\ Vault!PathOf(c) = From(call[c]) /\ mode \in Modes
  BY DEF VaultInv, VaultTypeOK, Vault!PathOf, From

\* The note a call is about, if it is about one.
LEMMA NoteOf ==
    ASSUME VaultInv, NEW p \in Vault!Paths
    PROVE  /\ note[p] \in Text \cup {None} /\ mtime[p] \in Nat /\ mtime[p] <= writes
           /\ touched[p] \in Nat /\ touched[p] <= writes
  BY DEF VaultInv, VaultTypeOK

LEMMA Quiet ==
    ASSUME NEW q, Asked(q), Staged(q), Shown(q), q.snap = None, q.op \notin {"read", "find"}
    PROVE  CallInv(q)
  BY DEF CallInv, ReadSoFar, Found, Guarded

LEMMA CallEnds ==
    ASSUME VaultInv, NEW c \in Calls, Vault!Ends(c), Vault!CallOnly, ~Vault!At(c, "snapped")
    PROVE  VaultInv'
<1>1. call' = [call EXCEPT ![c] = None] /\ mode' \in Modes
      /\ UNCHANGED <<note, mtime, touched, writes, snaps>>
  BY DEF Vault!Ends, Vault!CallOnly, VaultInv, VaultTypeOK
<1> QED BY <1>1, CallGoes

ToStage(r, st) == [r EXCEPT !.stage = st]
ToShown(r, st, card) == [r EXCEPT !.stage = st, !.preview = card]
ToRead(r, st, n, card) == [r EXCEPT !.stage = st, !.since = n, !.preview = card]
ToStamped(r, st, card) == [r EXCEPT !.stage = st, !.stale = FALSE, !.preview = card]
ToStale(r) == [r EXCEPT !.stale = TRUE]
ToSeen(r, st, seen) == [r EXCEPT !.stage = st, !.seen = seen]
ToPlan(r, st, seen, plan) == [r EXCEPT !.stage = st, !.seen = seen, !.plan = plan]
ToSnapped(r, st, k, snap) == [r EXCEPT !.stage = st, !.mark = k, !.snap = snap]
ToStored(r, st, snap) == [r EXCEPT !.stage = st, !.snap = snap]
ToPage(r, got, k, m, st) == [r EXCEPT !.got = got, !.mark = k, !.next = m, !.stage = st]

\* A record of a call stays one when these of its fields change, and the others keep their values.
LEMMA ToStageKept ==
    ASSUME NEW r \in Call, NEW st \in Stages
    PROVE  LET q == ToStage(r, st) IN
           /\ q \in Call
           /\ q.stage = st /\ q.op = r.op /\ q.mode = r.mode /\ q.raw = r.raw /\ q.to = r.to /\ q.old = r.old
           /\ q.new = r.new /\ q.preview = r.preview /\ q.stale = r.stale /\ q.seen = r.seen /\ q.plan = r.plan /\ q.snap = r.snap
           /\ q.next = r.next /\ q.got = r.got /\ q.since = r.since /\ q.mark = r.mark
<1> DEFINE q == ToStage(r, st)
<1>1. q \in Call
  BY DEF Call, ToStage
<1>2. q.stage = st /\ q.op = r.op /\ q.mode = r.mode /\ q.raw = r.raw /\ q.to = r.to /\ q.old = r.old
  BY DEF Call, ToStage
<1>3. q.new = r.new /\ q.preview = r.preview /\ q.stale = r.stale /\ q.seen = r.seen /\ q.plan = r.plan /\ q.snap = r.snap
  BY DEF Call, ToStage
<1>4. q.next = r.next /\ q.got = r.got /\ q.since = r.since /\ q.mark = r.mark
  BY DEF Call, ToStage
<1> QED BY <1>1, <1>2, <1>3, <1>4

LEMMA ToShownKept ==
    ASSUME NEW r \in Call, NEW st \in Stages, NEW card \in Card \cup {None}
    PROVE  LET q == ToShown(r, st, card) IN
           /\ q \in Call
           /\ q.stage = st /\ q.preview = card /\ q.op = r.op /\ q.mode = r.mode /\ q.raw = r.raw /\ q.to = r.to
           /\ q.old = r.old /\ q.new = r.new /\ q.stale = r.stale /\ q.seen = r.seen /\ q.plan = r.plan /\ q.snap = r.snap
           /\ q.next = r.next /\ q.got = r.got /\ q.since = r.since /\ q.mark = r.mark
<1> DEFINE q == ToShown(r, st, card)
<1>1. q \in Call
  BY DEF Call, ToShown
<1>2. q.stage = st /\ q.preview = card /\ q.op = r.op /\ q.mode = r.mode /\ q.raw = r.raw /\ q.to = r.to
  BY DEF Call, ToShown
<1>3. q.old = r.old /\ q.new = r.new /\ q.stale = r.stale /\ q.seen = r.seen /\ q.plan = r.plan /\ q.snap = r.snap
  BY DEF Call, ToShown
<1>4. q.next = r.next /\ q.got = r.got /\ q.since = r.since /\ q.mark = r.mark
  BY DEF Call, ToShown
<1> QED BY <1>1, <1>2, <1>3, <1>4

LEMMA ToReadKept ==
    ASSUME NEW r \in Call, NEW st \in Stages, NEW n \in Nat, NEW card \in Card \cup {None}
    PROVE  LET q == ToRead(r, st, n, card) IN
           /\ q \in Call
           /\ q.stage = st /\ q.since = n /\ q.preview = card /\ q.op = r.op /\ q.mode = r.mode /\ q.raw = r.raw
           /\ q.to = r.to /\ q.old = r.old /\ q.new = r.new /\ q.stale = r.stale /\ q.seen = r.seen /\ q.plan = r.plan
           /\ q.snap = r.snap /\ q.next = r.next /\ q.got = r.got /\ q.mark = r.mark
<1> DEFINE q == ToRead(r, st, n, card)
<1>1. q \in Call
  BY DEF Call, ToRead
<1>2. q.stage = st /\ q.since = n /\ q.preview = card /\ q.op = r.op /\ q.mode = r.mode /\ q.raw = r.raw
  BY DEF Call, ToRead
<1>3. q.to = r.to /\ q.old = r.old /\ q.new = r.new /\ q.stale = r.stale /\ q.seen = r.seen /\ q.plan = r.plan
  BY DEF Call, ToRead
<1>4. q.snap = r.snap /\ q.next = r.next /\ q.got = r.got /\ q.mark = r.mark
  BY DEF Call, ToRead
<1> QED BY <1>1, <1>2, <1>3, <1>4

LEMMA ToStampedKept ==
    ASSUME NEW r \in Call, NEW st \in Stages, NEW card \in Card \cup {None}
    PROVE  LET q == ToStamped(r, st, card) IN
           /\ q \in Call
           /\ q.stage = st /\ q.stale = FALSE /\ q.preview = card /\ q.op = r.op /\ q.mode = r.mode /\ q.raw = r.raw
           /\ q.to = r.to /\ q.old = r.old /\ q.new = r.new /\ q.seen = r.seen /\ q.plan = r.plan /\ q.snap = r.snap
           /\ q.next = r.next /\ q.got = r.got /\ q.since = r.since /\ q.mark = r.mark
<1> DEFINE q == ToStamped(r, st, card)
<1>1. q \in Call
  BY DEF Call, ToStamped
<1>2. q.stage = st /\ q.stale = FALSE /\ q.preview = card /\ q.op = r.op /\ q.mode = r.mode /\ q.raw = r.raw
  BY DEF Call, ToStamped
<1>3. q.to = r.to /\ q.old = r.old /\ q.new = r.new /\ q.seen = r.seen /\ q.plan = r.plan /\ q.snap = r.snap
  BY DEF Call, ToStamped
<1>4. q.next = r.next /\ q.got = r.got /\ q.since = r.since /\ q.mark = r.mark
  BY DEF Call, ToStamped
<1> QED BY <1>1, <1>2, <1>3, <1>4

LEMMA ToStaleKept ==
    ASSUME NEW r \in Call
    PROVE  LET q == ToStale(r) IN
           /\ q \in Call
           /\ q.stale = TRUE /\ q.op = r.op /\ q.mode = r.mode /\ q.raw = r.raw /\ q.to = r.to /\ q.old = r.old
           /\ q.new = r.new /\ q.stage = r.stage /\ q.preview = r.preview /\ q.seen = r.seen /\ q.plan = r.plan /\ q.snap = r.snap
           /\ q.next = r.next /\ q.got = r.got /\ q.since = r.since /\ q.mark = r.mark
<1> DEFINE q == ToStale(r)
<1>1. q \in Call
  BY DEF Call, ToStale
<1>2. q.stale = TRUE /\ q.op = r.op /\ q.mode = r.mode /\ q.raw = r.raw /\ q.to = r.to /\ q.old = r.old
  BY DEF Call, ToStale
<1>3. q.new = r.new /\ q.stage = r.stage /\ q.preview = r.preview /\ q.seen = r.seen /\ q.plan = r.plan /\ q.snap = r.snap
  BY DEF Call, ToStale
<1>4. q.next = r.next /\ q.got = r.got /\ q.since = r.since /\ q.mark = r.mark
  BY DEF Call, ToStale
<1> QED BY <1>1, <1>2, <1>3, <1>4

LEMMA ToSeenKept ==
    ASSUME NEW r \in Call, NEW st \in Stages, NEW seen \in Looks
    PROVE  LET q == ToSeen(r, st, seen) IN
           /\ q \in Call
           /\ q.stage = st /\ q.seen = seen /\ q.op = r.op /\ q.mode = r.mode /\ q.raw = r.raw /\ q.to = r.to
           /\ q.old = r.old /\ q.new = r.new /\ q.preview = r.preview /\ q.stale = r.stale /\ q.plan = r.plan /\ q.snap = r.snap
           /\ q.next = r.next /\ q.got = r.got /\ q.since = r.since /\ q.mark = r.mark
<1> DEFINE q == ToSeen(r, st, seen)
<1>1. q \in Call
  BY DEF Call, ToSeen
<1>2. q.stage = st /\ q.seen = seen /\ q.op = r.op /\ q.mode = r.mode /\ q.raw = r.raw /\ q.to = r.to
  BY DEF Call, ToSeen
<1>3. q.old = r.old /\ q.new = r.new /\ q.preview = r.preview /\ q.stale = r.stale /\ q.plan = r.plan /\ q.snap = r.snap
  BY DEF Call, ToSeen
<1>4. q.next = r.next /\ q.got = r.got /\ q.since = r.since /\ q.mark = r.mark
  BY DEF Call, ToSeen
<1> QED BY <1>1, <1>2, <1>3, <1>4

LEMMA ToPlanKept ==
    ASSUME NEW r \in Call, NEW st \in Stages, NEW seen \in Looks, NEW plan \in Text \cup {None}
    PROVE  LET q == ToPlan(r, st, seen, plan) IN
           /\ q \in Call
           /\ q.stage = st /\ q.seen = seen /\ q.plan = plan /\ q.op = r.op /\ q.mode = r.mode /\ q.raw = r.raw
           /\ q.to = r.to /\ q.old = r.old /\ q.new = r.new /\ q.preview = r.preview /\ q.stale = r.stale /\ q.snap = r.snap
           /\ q.next = r.next /\ q.got = r.got /\ q.since = r.since /\ q.mark = r.mark
<1> DEFINE q == ToPlan(r, st, seen, plan)
<1>1. q \in Call
  BY DEF Call, ToPlan
<1>2. q.stage = st /\ q.seen = seen /\ q.plan = plan /\ q.op = r.op /\ q.mode = r.mode /\ q.raw = r.raw
  BY DEF Call, ToPlan
<1>3. q.to = r.to /\ q.old = r.old /\ q.new = r.new /\ q.preview = r.preview /\ q.stale = r.stale /\ q.snap = r.snap
  BY DEF Call, ToPlan
<1>4. q.next = r.next /\ q.got = r.got /\ q.since = r.since /\ q.mark = r.mark
  BY DEF Call, ToPlan
<1> QED BY <1>1, <1>2, <1>3, <1>4

LEMMA ToSnappedKept ==
    ASSUME NEW r \in Call, NEW st \in Stages, NEW k \in Nat, NEW snap \in Snap \cup {None}
    PROVE  LET q == ToSnapped(r, st, k, snap) IN
           /\ q \in Call
           /\ q.stage = st /\ q.mark = k /\ q.snap = snap /\ q.op = r.op /\ q.mode = r.mode /\ q.raw = r.raw
           /\ q.to = r.to /\ q.old = r.old /\ q.new = r.new /\ q.preview = r.preview /\ q.stale = r.stale /\ q.seen = r.seen
           /\ q.plan = r.plan /\ q.next = r.next /\ q.got = r.got /\ q.since = r.since
<1> DEFINE q == ToSnapped(r, st, k, snap)
<1>1. q \in Call
  BY DEF Call, ToSnapped
<1>2. q.stage = st /\ q.mark = k /\ q.snap = snap /\ q.op = r.op /\ q.mode = r.mode /\ q.raw = r.raw
  BY DEF Call, ToSnapped
<1>3. q.to = r.to /\ q.old = r.old /\ q.new = r.new /\ q.preview = r.preview /\ q.stale = r.stale /\ q.seen = r.seen
  BY DEF Call, ToSnapped
<1>4. q.plan = r.plan /\ q.next = r.next /\ q.got = r.got /\ q.since = r.since
  BY DEF Call, ToSnapped
<1> QED BY <1>1, <1>2, <1>3, <1>4

LEMMA ToStoredKept ==
    ASSUME NEW r \in Call, NEW st \in Stages, NEW snap \in Snap \cup {None}
    PROVE  LET q == ToStored(r, st, snap) IN
           /\ q \in Call
           /\ q.stage = st /\ q.snap = snap /\ q.op = r.op /\ q.mode = r.mode /\ q.raw = r.raw /\ q.to = r.to
           /\ q.old = r.old /\ q.new = r.new /\ q.preview = r.preview /\ q.stale = r.stale /\ q.seen = r.seen /\ q.plan = r.plan
           /\ q.next = r.next /\ q.got = r.got /\ q.since = r.since /\ q.mark = r.mark
<1> DEFINE q == ToStored(r, st, snap)
<1>1. q \in Call
  BY DEF Call, ToStored
<1>2. q.stage = st /\ q.snap = snap /\ q.op = r.op /\ q.mode = r.mode /\ q.raw = r.raw /\ q.to = r.to
  BY DEF Call, ToStored
<1>3. q.old = r.old /\ q.new = r.new /\ q.preview = r.preview /\ q.stale = r.stale /\ q.seen = r.seen /\ q.plan = r.plan
  BY DEF Call, ToStored
<1>4. q.next = r.next /\ q.got = r.got /\ q.since = r.since /\ q.mark = r.mark
  BY DEF Call, ToStored
<1> QED BY <1>1, <1>2, <1>3, <1>4

LEMMA ToPageKept ==
    ASSUME NEW r \in Call, NEW got \in Text, NEW k \in Nat, NEW m \in Nat \ {0}, NEW st \in Stages
    PROVE  LET q == ToPage(r, got, k, m, st) IN
           /\ q \in Call
           /\ q.got = got /\ q.mark = k /\ q.next = m /\ q.stage = st /\ q.op = r.op /\ q.mode = r.mode
           /\ q.raw = r.raw /\ q.to = r.to /\ q.old = r.old /\ q.new = r.new /\ q.preview = r.preview /\ q.stale = r.stale
           /\ q.seen = r.seen /\ q.plan = r.plan /\ q.snap = r.snap /\ q.since = r.since
<1> DEFINE q == ToPage(r, got, k, m, st)
<1>1. q \in Call
  BY DEF Call, ToPage
<1>2. q.got = got /\ q.mark = k /\ q.next = m /\ q.stage = st /\ q.op = r.op /\ q.mode = r.mode
  BY DEF Call, ToPage
<1>3. q.raw = r.raw /\ q.to = r.to /\ q.old = r.old /\ q.new = r.new /\ q.preview = r.preview /\ q.stale = r.stale
  BY DEF Call, ToPage
<1>4. q.seen = r.seen /\ q.plan = r.plan /\ q.snap = r.snap /\ q.since = r.since
  BY DEF Call, ToPage
<1> QED BY <1>1, <1>2, <1>3, <1>4

LEMMA PreviewReadStep ==
    ASSUME VaultBounds, VaultInv, NEW c \in Calls, Vault!PreviewRead(c)
    PROVE  VaultInv'
<1> DEFINE r == call[c]
           p == From(r)
           plan == Vault!Planned(r, note[p])
<1>1. /\ r # None /\ r.stage = "preview" /\ UNCHANGED <<note, mtime, touched, writes, snaps, mode>>
      /\ ~Vault!At(c, "snapped")
  BY DEF Vault!PreviewRead, Vault!At, Vault!CallOnly
<1>2. /\ r \in Call /\ r.since <= writes /\ r.mark <= writes /\ CallInv(r) /\ Vault!PathOf(c) = p /\ mode \in Modes
  BY <1>1, CallNow
<1>3. r.op \in Vault!Previewed /\ r.op \notin {"read", "find"} /\ r.snap = None /\ r.raw \in Raws
  BY <1>1, <1>2 DEF CallInv, Staged, Vault!Previewed
<1>4. CASE p = None \/ plan = None
  <2> DEFINE q == ToShown(r, "asked", None)
  <2>1. call' = [call EXCEPT ![c] = q]
    BY <1>2, <1>4 DEF Vault!PreviewRead, ToShown
  <2> HIDE DEF r
  <2>s. "asked" \in Stages /\ None \in Card \cup {None} /\ r \in Call
    BY <1>2 DEF Stages
  <2>2. /\ q \in Call /\ q.stage = "asked" /\ q.preview = None /\ q.snap = r.snap /\ q.op = r.op
        /\ q.since = r.since /\ q.mark = r.mark /\ q.new = r.new /\ q.to = r.to /\ q.next = r.next /\ q.stale = r.stale
        /\ q.raw = r.raw
    BY <2>s, ToShownKept
  <2> HIDE DEF q
  <2>3. Asked(q) /\ Staged(q) /\ Shown(q)
    BY <1>2, <1>3, <2>2 DEF CallInv, Asked, Staged, Shown
  <2>4. CallInv(q)
    BY <1>3, <2>2, <2>3, Quiet
  <2> QED BY <1>1, <1>2, <2>1, <2>2, <2>4, CallGoes
<1>5. CASE p # None /\ plan # None
  <2>0. p \in Vault!Paths
    BY <1>2, <1>3, <1>5, FromTo
  <2>1. call' = [call EXCEPT ![c] = [r EXCEPT !.stage = "stamp", !.since = mtime[p],
                                               !.preview = [plan |-> plan, mtime |-> 0]]]
    BY <1>2, <1>5 DEF Vault!PreviewRead
  <2>n. /\ note[p] \in Text \cup {None} /\ mtime[p] \in Nat /\ mtime[p] <= writes
    BY <2>0, NoteOf
  <2>p. plan \in Text
    BY <1>2, <1>5, <2>n, PlannedText DEF CallInv
  <2> HIDE DEF plan
  <2>v. [plan |-> plan, mtime |-> 0] \in Card
    BY <2>p DEF Card
  <2> DEFINE card == [plan |-> plan, mtime |-> 0]
  <2>w. card.plan = plan /\ card # None /\ card \in Card
    BY <2>v DEF VaultBounds
  <2> DEFINE q == ToRead(r, "stamp", mtime[p], card)
  <2>q. call' = [call EXCEPT ![c] = q]
    BY <2>1 DEF ToRead
  <2> HIDE DEF card, r, p
  <2>s. "stamp" \in Stages /\ mtime[p] \in Nat /\ card \in Card \cup {None} /\ r \in Call
    BY <1>2, <2>n, <2>w DEF Stages
  <2>2. /\ q \in Call /\ q.stage = "stamp" /\ q.preview = card /\ q.snap = r.snap /\ q.op = r.op
        /\ q.since = mtime[p] /\ q.mark = r.mark /\ q.new = r.new /\ q.old = r.old /\ q.to = r.to /\ q.next = r.next
        /\ q.mode = r.mode /\ q.raw = r.raw /\ q.stale = r.stale
    BY <2>s, ToReadKept
  <2> HIDE DEF q
  <2>3. From(q) = p
    BY <2>2 DEF From, p
  <2>4. Asked(q) /\ Staged(q)
    BY <1>2, <1>3, <1>5, <2>2, <2>3, <2>w DEF CallInv, Asked, Staged
  <2>5. \A text : Vault!Planned(q, text) = Vault!Planned(r, text)
    BY <2>2, PlannedSame
  <2>6. Shown(q)
    <3>1. \A o \in Vault!Paths : mtime[o] = mtime[p] => note[o] = note[p]
      BY <2>0 DEF VaultInv, TimeTells
    <3>2. mtime[p] = 0 => note[p] = None
      BY <2>0 DEF VaultInv, TimeTells
    <3>3. Vault!Planned(q, note[p]) = plan
      BY <2>5 DEF plan
    <3> QED BY <2>2, <2>w, <3>1, <3>2, <3>3 DEF Shown
  <2>7. CallInv(q)
    BY <1>3, <2>2, <2>4, <2>6, Quiet
  <2> QED BY <1>1, <1>2, <2>q, <2>2, <2>7, <2>n, CallGoes
<1> QED BY <1>4, <1>5

LEMMA PreviewStampStep ==
    ASSUME VaultBounds, VaultInv, NEW c \in Calls, Vault!PreviewStamp(c)
    PROVE  VaultInv'
<1> DEFINE r == call[c]
           p == From(r)
<1>1. /\ r # None /\ r.stage = "stamp" /\ UNCHANGED <<note, mtime, touched, writes, snaps, mode>>
      /\ ~Vault!At(c, "snapped")
  BY DEF Vault!PreviewStamp, Vault!At, Vault!CallOnly
<1>2. /\ r \in Call /\ r.since <= writes /\ r.mark <= writes /\ CallInv(r) /\ Vault!PathOf(c) = p /\ mode \in Modes
  BY <1>1, CallNow
<1>3. /\ r.op \in Vault!Previewed /\ r.op \notin {"read", "find"} /\ r.snap = None
      /\ r.preview # None /\ p # None /\ r.raw \in Raws
  BY <1>1, <1>2 DEF CallInv, Staged, Vault!Previewed
<1>4. p \in Vault!Paths
  BY <1>2, <1>3, FromTo
<1>5. mtime[p] \in Nat
  BY <1>4, NoteOf
<1>6. r.preview \in Card
  BY <1>2, <1>3 DEF Call
<1> DEFINE card == [r.preview EXCEPT !.mtime = mtime[p]]
           q == ToStamped(r, "asked", card)
<1>7. call' = [call EXCEPT ![c] = q]
  <2>1. call' = [call EXCEPT ![c].stage = "asked", ![c].stale = FALSE, ![c].preview.mtime = mtime[p]]
    BY <1>2 DEF Vault!PreviewStamp
  <2> QED BY <2>1 DEF ToStamped
<1> HIDE DEF r, p
<1>8. card \in Card /\ card.plan = r.preview.plan
  BY <1>5, <1>6 DEF Card
<1>9. card # None
  BY <1>8 DEF VaultBounds
<1> HIDE DEF card
<1>10. "asked" \in Stages /\ card \in Card \cup {None}
  BY <1>8 DEF Stages
<1>11. /\ q \in Call /\ q.stage = "asked" /\ q.preview = card /\ q.snap = r.snap /\ q.op = r.op
       /\ q.since = r.since /\ q.mark = r.mark /\ q.new = r.new /\ q.old = r.old /\ q.to = r.to /\ q.next = r.next
       /\ q.mode = r.mode /\ q.raw = r.raw /\ q.stale = FALSE
  BY <1>2, <1>10, ToStampedKept, ZenonT(30)
<1> HIDE DEF q
<1>12. From(q) = p
  BY <1>11 DEF From, p
<1>13. Asked(q) /\ Staged(q)
  BY <1>2, <1>3, <1>11, <1>12 DEF CallInv, Asked, Staged
<1>14. Shown(q)
  <2>1. \A text : Vault!Planned(q, text) = Vault!Planned(r, text)
    BY <1>11, PlannedSame
  <2> QED BY <1>1, <1>2, <1>3, <1>8, <1>11, <2>1 DEF CallInv, Shown
<1>15. CallInv(q)
  BY <1>3, <1>11, <1>13, <1>14, Quiet
<1> QED BY <1>1, <1>2, <1>7, <1>11, <1>15, CallGoes

\* A call that has not run yet, or reads nothing, goes to another stage.
LEMMA CallTurns ==
    ASSUME VaultInv, NEW c \in Calls, call[c] # None, NEW st \in {"preview", "run"},
           call' = [call EXCEPT ![c] = ToStage(call[c], st)], Vault!CallOnly,
           call[c].stage \in {"preview", "asked"}, st = "preview" => call[c].op \in Vault!Previewed
    PROVE  VaultInv'
<1> DEFINE r == call[c]
           q == ToStage(r, st)
<1>1. /\ r \in Call /\ r.since <= writes /\ r.mark <= writes /\ CallInv(r) /\ mode \in Modes
      /\ st \in Stages /\ ~Vault!At(c, "snapped") /\ UNCHANGED <<note, mtime, touched, writes, snaps, mode>>
  BY CallNow DEF Stages, Vault!At, Vault!CallOnly
<1>2. r.stage \in {"preview", "asked"} /\ (st = "preview" => r.op \in Vault!Previewed) /\ call' = [call EXCEPT ![c] = q]
  OBVIOUS
<1> HIDE DEF r
<1>3. r.op \notin {"read", "find"} /\ r.snap = None
  BY <1>1, <1>2 DEF CallInv, Staged
<1>4. /\ q \in Call /\ q.stage = st /\ q.preview = r.preview /\ q.snap = r.snap /\ q.op = r.op
      /\ q.since = r.since /\ q.mark = r.mark /\ q.new = r.new /\ q.old = r.old /\ q.to = r.to /\ q.next = r.next
      /\ q.mode = r.mode /\ q.raw = r.raw /\ q.stale = r.stale
  BY <1>1, ToStageKept
<1> HIDE DEF q
<1>5. Asked(q) /\ Staged(q) /\ Shown(q)
  <2>1. From(q) = From(r) /\ q.stage \in {"preview", "run"}
    BY <1>4 DEF From
  <2>2. Asked(q)
    BY <1>1, <1>4 DEF CallInv, Asked
  <2>3. Staged(r) /\ q.snap = None /\ q.op \notin {"read", "find"}
    BY <1>1, <1>3, <1>4 DEF CallInv
  <2>4. Staged(q)
    BY <1>2, <1>4, <2>1, <2>3, SMTT(40) DEF Staged, Vault!Previewed
  <2>5. Shown(q)
    BY <2>1 DEF Shown
  <2> QED BY <2>2, <2>4, <2>5
<1>6. CallInv(q)
  BY <1>3, <1>4, <1>5, Quiet
<1> QED BY <1>1, <1>2, <1>4, <1>6, CallGoes

LEMMA AcceptStep ==
    ASSUME VaultInv, NEW c \in Calls, Vault!Accept(c)
    PROVE  VaultInv'
<1> DEFINE r == call[c]
<1>1. r # None /\ r.stage = "asked" /\ Vault!CallOnly /\ ~Vault!At(c, "snapped")
  BY DEF Vault!Accept, Vault!At
<1>2. /\ r \in Call /\ r.since <= writes /\ r.mark <= writes /\ CallInv(r) /\ mode \in Modes
      /\ UNCHANGED <<note, mtime, touched, writes, snaps, mode>>
  BY <1>1, CallNow DEF Vault!CallOnly
<1>3. CASE Vault!Ends(c)
  BY <1>1, <1>3, CallEnds
<1>4. CASE call' = [call EXCEPT ![c].stage = "run"]
  <2>1. call' = [call EXCEPT ![c] = ToStage(call[c], "run")]
    BY <1>4 DEF ToStage
  <2> QED BY <1>1, <2>1, CallTurns
<1>5. CASE call' = [call EXCEPT ![c].stale = TRUE] /\ r.preview # None
  <2> DEFINE q == ToStale(r)
  <2>1. call' = [call EXCEPT ![c] = q] /\ r.preview # None
    BY <1>5 DEF ToStale
  <2> HIDE DEF r
  <2>2. /\ q \in Call /\ q.stage = r.stage /\ q.preview = r.preview /\ q.snap = r.snap /\ q.op = r.op
        /\ q.since = r.since /\ q.mark = r.mark /\ q.new = r.new /\ q.old = r.old /\ q.to = r.to /\ q.next = r.next
        /\ q.mode = r.mode /\ q.raw = r.raw /\ q.stale = TRUE
    BY <1>2, ToStaleKept
  <2>3. r.op \notin {"read", "find"} /\ r.snap = None /\ r.op \in Vault!Previewed
    BY <1>1, <1>2, <2>1 DEF CallInv, Staged
  <2> HIDE DEF q
  <2>4. \A text : Vault!Planned(q, text) = Vault!Planned(r, text)
    BY <2>2, PlannedSame
  <2>5. Asked(q) /\ Staged(q)
    BY <1>1, <1>2, <2>2, <2>3 DEF CallInv, Asked, Staged, From
  <2>6. Shown(q)
    BY <1>1, <1>2, <2>2, <2>4 DEF CallInv, Shown
  <2>7. CallInv(q)
    BY <2>2, <2>3, <2>5, <2>6, Quiet
  <2> QED BY <1>1, <1>2, <2>1, <2>2, <2>7, CallGoes
<1> QED BY <1>3, <1>4, <1>5 DEF Vault!Accept

LEMMA ButtonSteps ==
    ASSUME VaultInv, NEW c \in Calls, Vault!Recheck(c) \/ Vault!Unasked(c) \/ Vault!Deny(c)
    PROVE  VaultInv'
<1>1. CASE Vault!Recheck(c)
  <2>1. call[c] # None /\ call[c].stage = "asked" /\ call[c].stale /\ Vault!CallOnly /\ ~Vault!At(c, "snapped")
    BY <1>1 DEF Vault!Recheck, Vault!At
  <2>2. CASE Vault!Ends(c)
    BY <2>1, <2>2, CallEnds
  <2>3. CASE call' = [call EXCEPT ![c].stage = "preview"]
    <3>1. call' = [call EXCEPT ![c] = ToStage(call[c], "preview")]
      BY <2>3 DEF ToStage
    <3>2. call[c].op \in Vault!Previewed
      BY <2>1, CallNow DEF CallInv, Staged
    <3> QED BY <2>1, <3>1, <3>2, CallTurns
  <2> QED BY <1>1, <2>2, <2>3 DEF Vault!Recheck
<1>2. CASE Vault!Unasked(c)
  <2>1. call[c] # None /\ call[c].stage \in {"preview", "asked"} /\ Vault!CallOnly
    BY <1>2 DEF Vault!Unasked, Vault!At
  <2>2. call' = [call EXCEPT ![c] = ToStage(call[c], "run")]
    BY <1>2 DEF Vault!Unasked, ToStage
  <2> QED BY <2>1, <2>2, CallTurns
<1>3. CASE Vault!Deny(c)
  <2>1. Vault!Ends(c) /\ Vault!CallOnly /\ ~Vault!At(c, "snapped")
    BY <1>3 DEF Vault!Deny, Vault!At
  <2> QED BY <2>1, CallEnds
<1> QED BY <1>1, <1>2, <1>3

-----------------------------------------------------------------------------
(* The tool runs.                                                          *)

LEMMA RereadStep ==
    ASSUME VaultBounds, VaultInv, NEW c \in Calls, Vault!Reread(c)
    PROVE  VaultInv'
<1> DEFINE r == call[c]
           p == From(r)
           plan == Vault!Planned(r, note[p])
           st == IF note[p] = None THEN "write" ELSE "snap"
           q == ToPlan(r, st, note[p], plan)
<1>1. /\ r # None /\ r.stage = "run" /\ r.op \notin {"read", "find"} /\ Vault!CallOnly
      /\ ~Vault!At(c, "snapped") /\ UNCHANGED <<note, mtime, touched, writes, snaps, mode>>
      /\ ~(r.op = "delete" /\ r.raw \in Folders)
  BY DEF Vault!Reread, Vault!At, Vault!CallOnly, Vault!OfFolder
<1>2. /\ r \in Call /\ r.since <= writes /\ r.mark <= writes /\ CallInv(r) /\ Vault!PathOf(c) = p /\ mode \in Modes
  BY <1>1, CallNow
<1>r. r.raw \in Raws
  BY <1>1, <1>2 DEF CallInv, Staged, Call
<1>3. \/ Vault!Ends(c)
      \/ p # None /\ Dest(r) # None /\ plan # None /\ call' = [call EXCEPT ![c] = q]
  BY <1>2 DEF Vault!Reread, Dest, From, ToPlan
<1>4. CASE Vault!Ends(c)
  BY <1>1, <1>4, CallEnds
<1>5. CASE p # None /\ Dest(r) # None /\ plan # None /\ call' = [call EXCEPT ![c] = q]
  <2>1. p \in Vault!Paths
    BY <1>2, <1>5, <1>r, FromTo
  <2>2. note[p] \in Text \cup {None}
    BY <2>1, NoteOf
  <2>3. plan \in Text
    BY <1>2, <1>5, <2>2, PlannedText DEF CallInv
  <2>4. st \in Stages /\ st \in {"write", "snap"} /\ note[p] \in Looks
        /\ plan \in Text \cup {None} /\ plan # None
    BY <2>2, <2>3, <1>5 DEF Stages, Looks
  <2>4a. call' = [call EXCEPT ![c] = q]
    BY <1>5
  <2>4b. r \in Call
    BY <1>2
  <2> HIDE DEF plan, st, r, p
  <2>5. /\ q \in Call /\ q.stage = st /\ q.preview = r.preview /\ q.snap = r.snap /\ q.op = r.op
        /\ q.since = r.since /\ q.mark = r.mark /\ q.new = r.new /\ q.old = r.old /\ q.to = r.to /\ q.next = r.next
        /\ q.mode = r.mode /\ q.raw = r.raw /\ q.stale = r.stale /\ q.plan = plan
    BY <2>4, <2>4b, ToPlanKept
  <2>6. r.snap = None
    BY <1>1, <1>2 DEF CallInv, Staged
  <2>7. p # None /\ Dest(r) # None
    BY <1>5
  <2> HIDE DEF q
  <2>8. From(q) = p /\ Dest(q) = Dest(r)
    BY <2>5 DEF From, Dest, p
  <2>9. Asked(q) /\ Staged(q) /\ Shown(q)
    BY <1>1, <1>2, <1>r, <2>4, <2>5, <2>6, <2>7, <2>8 DEF CallInv, Asked, Staged, Shown
  <2>10. CallInv(q)
    BY <1>1, <2>5, <2>6, <2>9, Quiet
  <2> QED BY <1>1, <1>2, <2>4, <2>4a, <2>5, <2>10, CallGoes
<1> QED BY <1>3, <1>4, <1>5

LEMMA FindSteps ==
    ASSUME VaultInv, NEW c \in Calls, Vault!Find(c) \/ \E p \in Vault!Paths : Vault!ReadActive(c, p)
    PROVE  VaultInv'
<1> DEFINE r == call[c]
<1>1. /\ r # None /\ r.stage = "run" /\ r.op = "find" /\ Vault!CallOnly
      /\ ~Vault!At(c, "snapped") /\ UNCHANGED <<note, mtime, touched, writes, snaps, mode>>
  BY DEF Vault!Find, Vault!ReadActive, Vault!At, Vault!CallOnly
<1>2. r \in Call /\ r.since <= writes /\ r.mark <= writes /\ CallInv(r) /\ mode \in Modes
  BY <1>1, CallNow
<1>3. \/ Vault!Ends(c)
      \/ \E seen \in SUBSET Vault!Paths :
            /\ \A p \in seen : Vault!Allowed(r.mode, p)
            /\ call' = [call EXCEPT ![c] = ToSeen(r, "read", seen)]
  <2>1. CASE Vault!Find(c)
    <3> DEFINE seen == {p \in Vault!Paths : note[p] # None /\ Vault!Allowed(r.mode, p)}
    <3>1. seen \in SUBSET Vault!Paths /\ \A p \in seen : Vault!Allowed(r.mode, p)
      OBVIOUS
    <3>2. call' = [call EXCEPT ![c] = ToSeen(r, "read", seen)]
      BY <2>1 DEF Vault!Find, ToSeen
    <3> HIDE DEF seen
    <3> QED BY <3>1, <3>2
  <2>2. ASSUME NEW p \in Vault!Paths, Vault!ReadActive(c, p), ~Vault!Ends(c)
        PROVE  \E seen \in SUBSET Vault!Paths :
                  /\ \A o \in seen : Vault!Allowed(r.mode, o)
                  /\ call' = [call EXCEPT ![c] = ToSeen(r, "read", seen)]
    <3>1. Vault!Allowed(r.mode, p) /\ call' = [call EXCEPT ![c] = ToSeen(r, "read", {p})]
      BY <2>2 DEF Vault!ReadActive, ToSeen
    <3>2. {p} \in SUBSET Vault!Paths /\ \A o \in {p} : Vault!Allowed(r.mode, o)
      BY <3>1
    <3> QED BY <3>1, <3>2
  <2> QED BY <2>1, <2>2
<1>4. CASE Vault!Ends(c)
  BY <1>1, <1>4, CallEnds
<1>5. ASSUME NEW seen \in SUBSET Vault!Paths, \A p \in seen : Vault!Allowed(r.mode, p),
             call' = [call EXCEPT ![c] = ToSeen(r, "read", seen)]
      PROVE  VaultInv'
  <2> DEFINE q == ToSeen(r, "read", seen)
  <2>1. "read" \in Stages /\ seen \in Looks /\ call' = [call EXCEPT ![c] = q]
        /\ \A p \in seen : Vault!Allowed(r.mode, p)
    BY <1>5 DEF Stages, Looks
  <2>2. r.snap = None /\ r.op \notin Vault!Previewed
    BY <1>1, <1>2 DEF CallInv, Staged, Vault!Previewed
  <2> HIDE DEF r
  <2>3. /\ q \in Call /\ q.stage = "read" /\ q.preview = r.preview /\ q.snap = r.snap /\ q.op = r.op
        /\ q.since = r.since /\ q.mark = r.mark /\ q.new = r.new /\ q.old = r.old /\ q.to = r.to /\ q.next = r.next
        /\ q.mode = r.mode /\ q.raw = r.raw /\ q.stale = r.stale /\ q.seen = seen
    BY <1>2, <2>1, ToSeenKept
  <2> HIDE DEF q
  <2>4. Asked(q) /\ Staged(q) /\ Shown(q)
    BY <1>1, <1>2, <2>2, <2>3 DEF CallInv, Asked, Staged, Shown, From
  <2>5. ReadSoFar(q) /\ Guarded(q)
    BY <1>1, <2>2, <2>3 DEF ReadSoFar, Guarded
  <2>6. Found(q)
    BY <2>1, <2>3 DEF Found
  <2>7. CallInv(q)
    BY <2>4, <2>5, <2>6 DEF CallInv
  <2> QED BY <1>1, <1>2, <2>1, <2>3, <2>7, CallGoes
<1> QED BY <1>3, <1>4, <1>5

LEMMA ReturnStep ==
    ASSUME VaultInv, NEW c \in Calls, Vault!Return(c)
    PROVE  VaultInv'
<1>1. Vault!Ends(c) /\ Vault!CallOnly /\ ~Vault!At(c, "snapped")
  BY DEF Vault!Return, Vault!At
<1> QED BY <1>1, CallEnds

\* What the tools are asked with: each has the fields it needs.
Request(op, to, old, new) ==
    \/ op \in {"create", "overwrite", "append"} /\ to = None /\ old = None /\ new \in News
    \/ op = "edit" /\ to = None /\ old \in Olds /\ new \in News
    \/ op \in {"delete", "read", "find"} /\ to = None /\ old = None /\ new = None
    \/ op = "rename" /\ to \in Raws /\ old = None /\ new = None

LEMMA AskStep ==
    ASSUME VaultBounds, VaultInv, NEW c \in Calls, NEW raw, NEW op, NEW to, NEW old, NEW new,
           raw \in Raws \/ (raw \in Folders /\ op = "delete"),
           Request(op, to, old, new), Vault!Ask(c, op, raw, to, old, new)
    PROVE  VaultInv'
<1> DEFINE st == CASE op \in Vault!Previewed -> "preview" [] op \in {"read", "find"} -> "run" [] OTHER -> "asked"
           q == [op |-> op, mode |-> mode, raw |-> raw, to |-> to, old |-> old, new |-> new, stage |-> st,
                 preview |-> None, stale |-> FALSE, seen |-> None, plan |-> None, snap |-> None,
                 next |-> 1, got |-> <<>>, since |-> 0, mark |-> 0]
<1>1. call[c] = None /\ call' = [call EXCEPT ![c] = q] /\ UNCHANGED <<note, mtime, touched, writes, snaps, mode>>
  BY DEF Vault!Ask
<1>2. op \in Tools /\ to \in Raws \cup {None} /\ old \in Olds \cup {None} /\ new \in News \cup {None}
  BY DEF Request, Tools, Vault!Previewed
<1>3. /\ op \in Vault!Previewed => st = "preview" /\ new # None
      /\ op \in {"read", "find"} => st = "run"
      /\ op \in {"delete", "rename"} => st = "asked"
      /\ op = "rename" <=> to # None
  BY DEF Request, Vault!Previewed, VaultBounds
<1>4. st \in Stages /\ mode \in Modes /\ <<>> \in Text /\ writes \in Nat
  BY <1>2, <1>3 DEF Stages, Tools, VaultInv, VaultTypeOK, Text
<1> HIDE DEF st
<1>5. q \in Call
  BY <1>2, <1>4 DEF Call, Looks
<1>6. /\ q.op = op /\ q.to = to /\ q.new = new /\ q.stage = st /\ q.preview = None /\ q.stale = FALSE
      /\ q.snap = None /\ q.next = 1 /\ q.got = <<>> /\ q.since = 0 /\ q.mark = 0 /\ q # None
      /\ q.raw = raw
  BY <1>5 DEF VaultBounds
<1>7. ~Vault!At(c, "snapped")
  BY <1>1 DEF Vault!At
<1> HIDE DEF q
<1>8. st \in {"preview", "run", "asked"} /\ (st = "preview" => op \in Vault!Previewed)
  BY <1>2, <1>3 DEF Tools
<1>9. Asked(q) /\ Staged(q) /\ Shown(q) /\ ReadSoFar(q) /\ Found(q) /\ Guarded(q)
  BY <1>3, <1>6, <1>8 DEF Asked, Staged, Shown, ReadSoFar, Found, Guarded
<1>10. CallInv(q)
  BY <1>9 DEF CallInv
<1>11. q.since <= writes /\ q.mark <= writes /\ q.stage # "snapped" /\ mode' \in Modes
  BY <1>1, <1>4, <1>6, <1>8
<1> QED BY <1>1, <1>5, <1>7, <1>10, <1>11, CallGoes

LEMMA Untouched ==
    ASSUME VaultInv, UNCHANGED <<note, mtime, touched, writes, snaps, call>>, mode' \in Modes
    PROVE  VaultInv'
<1>1. Waiting' = Waiting
  BY DEF Waiting, Vault!At
<1>2. VaultTypeOK' /\ TimeTells' /\ Newest'
  BY <1>1 DEF VaultInv, VaultTypeOK, TimeTells, Newest, Vault!SameName
<1>3. ASSUME NEW d \in Calls, call'[d] # None
      PROVE  CallInv(call[d])'
  <2>0. PICK q : q = call'[d] /\ q = call[d]
    OBVIOUS
  <2>1. CallInv(q)
    BY <1>3, <2>0 DEF VaultInv
  <2>2. CallInv(q)'
    <3>1. q.snap # None /\ Fresh(q) =>
           \A s \in Waiting' : s.of = From(q) /\ s.at > q.snap.at => s.text = note[From(q)]
      BY <1>1, <2>1 DEF CallInv, Guarded
    <3> QED BY <2>1, <3>1, CallStays
  <2> QED BY <2>0, <2>2
<1> QED BY <1>2, <1>3 DEF VaultInv

-----------------------------------------------------------------------------
(* Snapshots.                                                              *)

LEMMA LatestIs ==
    ASSUME VaultInv
    PROVE  Vault!Latest \in Nat /\ \A s \in snaps \cup Waiting : s \in Snap /\ s.at <= Vault!Latest
<1> DEFINE S == {0} \cup {s.at : s \in snaps \cup Waiting}
           T == {0} \cup {s.at : s \in snaps} \cup {call[c].snap.at : c \in {d \in Calls : Vault!At(d, "snapped")}}
<1>1. S = T
  BY DEF Waiting
<1>2. Vault!Latest = CHOOSE x \in T : \A y \in T : x >= y
  BY DEF Vault!Latest, Vault!Max
<1>3. \A s \in Waiting : s \in Snap
  <2> SUFFICES ASSUME NEW d \in Calls, Vault!At(d, "snapped")
               PROVE  call[d].snap \in Snap
    BY DEF Waiting
  <2>1. call[d] # None /\ call[d].stage = "snapped"
    BY DEF Vault!At
  <2>2. call[d] \in Call /\ call[d].snap # None
    BY <2>1, CallNow DEF CallInv, Staged
  <2> QED BY <2>2 DEF Call
<1>4. \A s \in snaps \cup Waiting : s \in Snap /\ s.at \in Nat
  BY <1>3 DEF VaultInv, VaultTypeOK, Snap
<1>5. PICK m \in S : \A s \in snaps \cup Waiting : s.at <= m
  BY DEF VaultInv, Newest
<1>6. S \subseteq Nat
  BY <1>4
<1> HIDE DEF T
<1>7. m \in Nat /\ \A y \in S : m >= y
  BY <1>4, <1>5, <1>6
<1>8. m \in T /\ \A y \in T : m >= y
  BY <1>1, <1>5, <1>7
<1>9. Vault!Latest \in T /\ \A y \in T : Vault!Latest >= y
  BY <1>2, <1>8
<1>10. Vault!Latest \in S /\ \A y \in S : Vault!Latest >= y
  BY <1>1, <1>9
<1>11. \A s \in snaps \cup Waiting : s.at \in S
  OBVIOUS
<1> HIDE DEF S
<1>12. Vault!Latest \in Nat
  BY <1>6, <1>10
<1> QED BY <1>4, <1>10, <1>11, <1>12

\* A call reads its snapshot, or goes on without one.
LEMMA SnapReadStep ==
    ASSUME VaultBounds, VaultInv, NEW c \in Calls, NEW at \in Nat, Vault!SnapRead(c, at)
    PROVE  VaultInv'
<1> DEFINE r == call[c]
           p == From(r)
           s == [of |-> p, at |-> at, text |-> note[p]]
<1>1. /\ r # None /\ r.stage = "snap" /\ Vault!CallOnly /\ at \in {Vault!Latest, Vault!Latest + 1}
      /\ ~Vault!At(c, "snapped") /\ UNCHANGED <<note, mtime, touched, writes, snaps, mode>>
  BY DEF Vault!SnapRead, Vault!At, Vault!CallOnly
<1>2. /\ r \in Call /\ r.since <= writes /\ r.mark <= writes /\ CallInv(r) /\ Vault!PathOf(c) = p /\ mode \in Modes
  BY <1>1, CallNow
<1>3. /\ r.op \notin {"read", "find"} /\ p # None /\ Dest(r) # None /\ r.plan # None /\ r.snap = None
      /\ r.raw \in Raws
  BY <1>1, <1>2 DEF CallInv, Staged
<1>4. p \in Vault!Paths
  BY <1>2, <1>3, FromTo
<1>5. /\ note[p] \in Text \cup {None} /\ touched[p] \in Nat /\ touched[p] <= writes
  BY <1>4, NoteOf
<1>6. CASE call' = [call EXCEPT ![c].stage = "write"]
  <2> DEFINE q == ToStage(r, "write")
  <2>1. call' = [call EXCEPT ![c] = q]
    BY <1>6 DEF ToStage
  <2>2. "write" \in Stages
    BY DEF Stages
  <2> HIDE DEF r
  <2>3. /\ q \in Call /\ q.stage = "write" /\ q.preview = r.preview /\ q.snap = r.snap /\ q.op = r.op
        /\ q.since = r.since /\ q.mark = r.mark /\ q.new = r.new /\ q.old = r.old /\ q.to = r.to /\ q.next = r.next
        /\ q.mode = r.mode /\ q.raw = r.raw /\ q.stale = r.stale /\ q.plan = r.plan
    BY <1>2, <2>2, ToStageKept
  <2> HIDE DEF q, p
  <2>4. From(q) = From(r) /\ Dest(q) = Dest(r)
    BY <2>3 DEF From, Dest
  <2>5. Asked(q) /\ Staged(q) /\ Shown(q)
    BY <1>1, <1>2, <1>3, <2>3, <2>4 DEF CallInv, Asked, Staged, Shown
  <2>6. CallInv(q)
    BY <1>3, <2>3, <2>5, Quiet
  <2> QED BY <1>1, <1>2, <2>1, <2>3, <2>6, CallGoes
<1>7. CASE note[p] # None /\ call' = [call EXCEPT ![c] = ToSnapped(r, "snapped", touched[p], s)]
  <2> DEFINE q == ToSnapped(r, "snapped", touched[p], s)
  <2>1. call' = [call EXCEPT ![c] = q] /\ note[p] # None
    BY <1>7
  <2>2. s \in Snap /\ s.of = p /\ s.at = at /\ s.text = note[p]
    BY <1>4, <1>5, <2>1 DEF Snap
  <2> HIDE DEF s
  <2>3. "snapped" \in Stages /\ s \in Snap \cup {None} /\ s # None /\ touched[p] \in Nat
    BY <1>5, <2>2 DEF Stages, VaultBounds
  <2> HIDE DEF r
  <2>4. /\ q \in Call /\ q.stage = "snapped" /\ q.preview = r.preview /\ q.snap = s /\ q.op = r.op
        /\ q.since = r.since /\ q.mark = touched[p] /\ q.new = r.new /\ q.old = r.old /\ q.to = r.to /\ q.next = r.next
        /\ q.mode = r.mode /\ q.raw = r.raw /\ q.stale = r.stale /\ q.plan = r.plan
    BY <1>2, <2>3, ToSnappedKept
  <2>q. q # None
    BY <2>4 DEF VaultBounds
  <2> HIDE DEF q
  <2>5. From(q) = From(r) /\ Dest(q) = Dest(r)
    BY <2>4 DEF From, Dest
  <2>6. \A d \in Calls : call'[d] = IF d = c THEN q ELSE call[d]
    BY <2>1 DEF VaultInv, VaultTypeOK
  <2>7. Waiting' = Waiting \cup {s}
    <3>1. \A d \in Calls \ {c} : call'[d] = call[d] /\ (Vault!At(d, "snapped")' <=> Vault!At(d, "snapped"))
      BY <2>6 DEF Vault!At
    <3>2. Vault!At(c, "snapped")' /\ call'[c].snap = s
      BY <2>4, <2>6, <2>q DEF Vault!At
    <3>3. \A d \in Calls : Vault!At(d, "snapped") => d # c
      BY <1>1
    <3>4. ASSUME NEW x \in Waiting' PROVE x \in Waiting \cup {s}
      <4>1. PICK d \in Calls : Vault!At(d, "snapped")' /\ x = call'[d].snap
        BY <3>4 DEF Waiting
      <4> QED BY <3>1, <3>2, <4>1 DEF Waiting
    <3>5. ASSUME NEW x \in Waiting PROVE x \in Waiting'
      <4>1. PICK d \in Calls : Vault!At(d, "snapped") /\ x = call[d].snap
        BY <3>5 DEF Waiting
      <4>2. d \in Calls \ {c}
        BY <3>3, <4>1
      <4> QED BY <3>1, <4>1, <4>2 DEF Waiting
    <3>6. s \in Waiting'
      BY <3>2 DEF Waiting
    <3> QED BY <3>4, <3>5, <3>6
  <2>8. \A t \in snaps \cup Waiting : t \in Snap /\ t.at <= at /\ t.at \in Nat
    <3>1. Vault!Latest \in Nat /\ \A t \in snaps \cup Waiting : t \in Snap /\ t.at <= Vault!Latest
      BY LatestIs
    <3> QED BY <1>1, <3>1 DEF Snap
  <2> HIDE DEF p
  <2>9. VaultTypeOK'
    BY <1>1, <1>2, <1>5, <2>1, <2>4, <2>6 DEF VaultInv, VaultTypeOK
  <2>10. TimeTells'
    BY <1>1 DEF VaultInv, TimeTells
  <2>11. Newest'
    <3>1. \A x, t \in snaps' : Vault!SameName(x, t) => x = t
      BY <1>1 DEF VaultInv, Newest
    <3>2. \A x \in snaps' : \E t \in snaps' : t.of = x.of /\ \A u \in snaps' : u.of = x.of => u.at <= t.at
      BY <1>1 DEF VaultInv, Newest
    <3>3. at \in {0} \cup {x.at : x \in snaps' \cup Waiting'}
      BY <2>2, <2>7
    <3>4. \A x \in snaps' \cup Waiting' : x.at <= at
      BY <1>1, <2>2, <2>7, <2>8
    <3> QED BY <3>1, <3>2, <3>3, <3>4 DEF Newest, Vault!SameName
  <2>o. PICK o : o = q
    OBVIOUS
  <2>12. CallInv(o)'
    <3>0. /\ o.stage = "snapped" /\ o.preview = r.preview /\ o.snap = s /\ o.op = r.op
          /\ o.new = r.new /\ o.to = r.to /\ o.next = r.next /\ o.mode = r.mode /\ o.raw = r.raw
          /\ o.stale = r.stale /\ o.plan = r.plan
      BY <2>4, <2>o
    <3>1. From(o) # None /\ Dest(o) # None /\ From(o) = s.of
      BY <1>3, <2>2, <2>5, <2>o DEF p
    <3>2. Asked(o) /\ Staged(o)
      BY <1>1, <1>2, <1>3, <2>3, <2>5, <2>o, <3>0, <3>1 DEF CallInv, Asked, Staged
    <3>3. Asked(o)' /\ Staged(o)'
      BY <3>2 DEF Asked, Staged, From, Dest
    <3>4. Shown(o)' /\ ReadSoFar(o)' /\ Found(o)'
      BY <1>3, <3>0 DEF Shown, ReadSoFar, Found
    <3>5. \A t \in snaps' \cup Waiting' : ~(t.at > at)
      BY <1>1, <2>2, <2>7, <2>8
    <3>6. note'[s.of] = s.text /\ s.text # None
      BY <1>1, <2>1, <2>2
    <3>7. From(o)' = s.of
      BY <3>1 DEF From
    <3>8. Guarded(o)'
      BY <2>2, <3>0, <3>5, <3>6, <3>7 DEF Guarded
    <3> QED BY <3>3, <3>4, <3>8 DEF CallInv
  <2>13. ASSUME NEW d \in Calls, call'[d] # None
         PROVE  CallInv(call[d])'
    <3>1. CASE d = c
      <4>1. call'[d] = o
        BY <2>6, <2>o, <3>1
      <4> QED BY <2>12, <4>1
    <3>2. CASE d # c
      <4>0. PICK w : w = call'[d]
        OBVIOUS
      <4>1. CallInv(w)
        BY <2>6, <2>13, <3>2, <4>0 DEF VaultInv
      <4>2. w.snap # None /\ Fresh(w) =>
               \A t \in Waiting' : t.of = From(w) /\ t.at > w.snap.at => t.text = note[From(w)]
        BY <2>2, <2>7, <4>1 DEF CallInv, Guarded
      <4>3. CallInv(w)'
        BY <1>1, <4>1, <4>2, CallStays
      <4> QED BY <4>0, <4>3
    <3> QED BY <3>1, <3>2
  <2> QED BY <2>9, <2>10, <2>11, <2>13 DEF VaultInv
<1> QED
  <2>1. CASE note[p] = None \/ Vault!StoreFolder(r.mode) = None
    BY <1>2, <1>6, <2>1 DEF Vault!SnapRead
  <2>2. CASE ~(note[p] = None \/ Vault!StoreFolder(r.mode) = None)
    BY <1>2, <1>7, <2>2 DEF Vault!SnapRead, ToSnapped
  <2> QED BY <2>1, <2>2

\* Pruning takes away only what is older than MaxSnapshots others of the note: the newest stays.
LEMMA PrunedKeeps ==
    ASSUME VaultBounds, NEW all \in SUBSET Snap, NEW p \in Vault!Paths, NEW m, NEW x \in all,
           \A u \in all : u.of = x.of => u.at <= x.at
    PROVE  x \in Vault!Pruned(all, p, m)
<1> DEFINE mine == {s \in all : s.of \in Counted[p]}
           later == {t \in mine : t.at > x.at}
<1>1. MaxSnapshots \in Nat \ {0} /\ Counted[p] = {p}
  BY DEF VaultBounds
<1>2. \A u \in all : u.at \in Nat
  BY DEF Snap
<1>3. x \in mine => later = {}
  BY <1>1, <1>2
<1>4. Vault!Cardinality({}) = Cardinality({})
  BY DEF Vault!Cardinality, Cardinality
<1>5. Cardinality({}) = 0
  BY FS_EmptySet
<1>6. x \in mine => Vault!Cardinality(later) < MaxSnapshots
  BY <1>1, <1>3, <1>4, <1>5
<1> QED BY <1>6 DEF Vault!Pruned

LEMMA PrunedFrom ==
    ASSUME NEW all, NEW p, NEW m
    PROVE  Vault!Pruned(all, p, m) \subseteq all
  BY DEF Vault!Pruned

\* Among the snapshots there were and one of a new name, each note has a newest one.
LEMMA NewestOf ==
    ASSUME VaultInv, NEW s \in Snap, NEW x \in snaps \cup {s}
    PROVE  \E t \in snaps \cup {s} : t.of = x.of /\ \A u \in snaps \cup {s} : u.of = x.of => u.at <= t.at
<1>1. \A u \in snaps \cup {s} : u \in Snap /\ u.at \in Nat
  BY DEF VaultInv, VaultTypeOK, Snap
<1>2. CASE \E y \in snaps : y.of = x.of
  <2>1. PICK t \in snaps : t.of = x.of /\ \A u \in snaps : u.of = x.of => u.at <= t.at
    BY <1>2 DEF VaultInv, Newest
  <2>2. CASE s.of = x.of /\ s.at > t.at
    BY <1>1, <2>1, <2>2
  <2>3. CASE ~(s.of = x.of /\ s.at > t.at)
    BY <1>1, <2>1, <2>3
  <2> QED BY <2>2, <2>3
<1>3. CASE ~\E y \in snaps : y.of = x.of
  <2>1. x = s
    BY <1>3
  <2> QED BY <1>1, <1>3, <2>1
<1> QED BY <1>2, <1>3

\* The call stores its snapshot, or finds its name taken.
LEMMA SnapWriteStep ==
    ASSUME VaultBounds, VaultInv, NEW c \in Calls, Vault!SnapWrite(c)
    PROVE  VaultInv'
<1> DEFINE r == call[c]
           s == r.snap
           p == From(r)
           all == snaps \cup {s}
           taken == \E t \in snaps : Vault!SameName(s, t)
           left == IF taken THEN None ELSE s
           q == ToStored(r, "write", left)
<1>1. /\ r # None /\ r.stage = "snapped" /\ UNCHANGED <<note, mtime, touched, writes, mode>>
      /\ call' = [call EXCEPT ![c] = q]
      /\ snaps' = IF taken THEN snaps ELSE Vault!Pruned(all, s.of, r.mode)
  BY DEF Vault!SnapWrite, Vault!At, ToStored
<1>2. r \in Call /\ r.since <= writes /\ r.mark <= writes /\ CallInv(r) /\ mode \in Modes
  BY <1>1, CallNow
<1>3. /\ r.op \notin {"read", "find"} /\ p # None /\ Dest(r) # None /\ r.plan # None /\ s # None /\ s.of = p
      /\ r.raw \in Raws
  BY <1>1, <1>2 DEF CallInv, Staged
<1>4. p \in Vault!Paths /\ s \in Snap
  BY <1>2, <1>3, FromTo DEF Call
<1>5. /\ \A t \in snaps : t \in Snap /\ t.at \in Nat
      /\ s.at \in Nat
  BY <1>4 DEF VaultInv, VaultTypeOK, Snap
<1>6. s \in Waiting
  BY <1>1 DEF Waiting, Vault!At
<1> HIDE DEF taken
<1>7. taken <=> \E t \in snaps : t.of = s.of /\ t.at = s.at
  BY DEF taken, Vault!SameName
<1>8. left \in Snap \cup {None} /\ "write" \in Stages /\ (left # None => left = s /\ ~taken)
  BY <1>3, <1>4 DEF Stages
<1> HIDE DEF left
<1> HIDE DEF r
<1>9. /\ q \in Call /\ q.stage = "write" /\ q.preview = r.preview /\ q.snap = left /\ q.op = r.op
      /\ q.since = r.since /\ q.mark = r.mark /\ q.new = r.new /\ q.old = r.old /\ q.to = r.to /\ q.next = r.next
      /\ q.mode = r.mode /\ q.raw = r.raw /\ q.stale = r.stale /\ q.plan = r.plan
  BY <1>2, <1>8, ToStoredKept
<1>q. q # None
  BY <1>9 DEF VaultBounds
<1> HIDE DEF q
<1>10. From(q) = From(r) /\ Dest(q) = Dest(r)
  BY <1>9 DEF From, Dest
<1>11. \A d \in Calls : call'[d] = IF d = c THEN q ELSE call[d]
  BY <1>1 DEF VaultInv, VaultTypeOK
<1>12. Waiting' \subseteq Waiting /\ Waiting \subseteq Waiting' \cup {s}
  <2>1. \A d \in Calls \ {c} : call'[d] = call[d] /\ (Vault!At(d, "snapped")' <=> Vault!At(d, "snapped"))
    BY <1>11 DEF Vault!At
  <2>2. ~Vault!At(c, "snapped")'
    BY <1>9, <1>11 DEF Vault!At
  <2>3. ASSUME NEW x \in Waiting' PROVE x \in Waiting
    <3>1. PICK d \in Calls : Vault!At(d, "snapped")' /\ x = call'[d].snap
      BY <2>3 DEF Waiting
    <3> QED BY <2>1, <2>2, <3>1 DEF Waiting
  <2>4. ASSUME NEW x \in Waiting PROVE x \in Waiting' \cup {s}
    <3>1. PICK d \in Calls : Vault!At(d, "snapped") /\ x = call[d].snap
      BY <2>4 DEF Waiting
    <3> QED BY <2>1, <3>1 DEF Waiting, r
  <2> QED BY <2>3, <2>4
<1> HIDE DEF s
<1>13. \A x, t \in all : Vault!SameName(x, t) /\ ~taken => x = t
  BY <1>7 DEF VaultInv, Newest, Vault!SameName
<1>14. snaps' \subseteq all /\ (taken => snaps' = snaps)
  BY <1>1, PrunedFrom
<1>15. \A x \in all : ~taken /\ (\A u \in all : u.of = x.of => u.at <= x.at) => x \in snaps'
  <2>1. all \in SUBSET Snap /\ s.of \in Vault!Paths
    BY <1>3, <1>4, <1>5
  <2> HIDE DEF all
  <2>2. ASSUME NEW x \in all, ~taken, \A u \in all : u.of = x.of => u.at <= x.at
        PROVE  x \in snaps'
    <3>1. x \in Vault!Pruned(all, s.of, r.mode)
      BY <2>1, <2>2, PrunedKeeps
    <3> QED BY <1>1, <2>2, <3>1
  <2> QED BY <2>2
<1>16. \A x \in all : \E t \in snaps' : t.of = x.of /\ \A u \in all : u.of = x.of => u.at <= t.at
  <2>1. CASE taken
    <3>1. \A x \in snaps : \E t \in snaps : t.of = x.of /\ \A u \in snaps : u.of = x.of => u.at <= t.at
      BY DEF VaultInv, Newest
    <3>2. \A u \in all : \E t \in snaps : t.of = u.of /\ t.at = u.at
      BY <1>7, <2>1
    <3>3. ASSUME NEW x \in all
          PROVE  \E t \in snaps : t.of = x.of /\ \A u \in all : u.of = x.of => u.at <= t.at
      <4>1. PICK y \in snaps : y.of = x.of
        BY <3>2
      <4>2. PICK t \in snaps : t.of = x.of /\ \A u \in snaps : u.of = x.of => u.at <= t.at
        BY <3>1, <4>1
      <4> QED BY <3>2, <4>2
    <3> QED BY <1>14, <2>1, <3>3
  <2>2. CASE ~taken
    <3> SUFFICES ASSUME NEW x \in all
                 PROVE  \E t \in snaps' : t.of = x.of /\ \A u \in all : u.of = x.of => u.at <= t.at
      OBVIOUS
    <3>1. PICK t \in all : t.of = x.of /\ \A u \in all : u.of = x.of => u.at <= t.at
      BY <1>4, NewestOf
    <3> QED BY <1>15, <2>2, <3>1
  <2> QED BY <2>1, <2>2
<1>17. VaultTypeOK'
  BY <1>1, <1>2, <1>4, <1>5, <1>9, <1>11, <1>14 DEF VaultInv, VaultTypeOK
<1>18. TimeTells'
  BY <1>1 DEF VaultInv, TimeTells
<1>19. Newest'
  <2>1. \A x, t \in snaps' : Vault!SameName(x, t) => x = t
    BY <1>13, <1>14 DEF VaultInv, Newest
  <2>2. \A x \in snaps' : \E t \in snaps' : t.of = x.of /\ \A u \in snaps' : u.of = x.of => u.at <= t.at
    BY <1>14, <1>16
  <2>3. \E m \in {0} \cup {x.at : x \in snaps' \cup Waiting'} : \A x \in snaps' \cup Waiting' : x.at <= m
    <3>1. PICK m \in {0} \cup {x.at : x \in snaps \cup Waiting} : \A x \in snaps \cup Waiting : x.at <= m
      BY DEF VaultInv, Newest
    <3>2. \A x \in snaps' \cup Waiting' : x.at <= m
      BY <1>6, <1>12, <1>14, <3>1
    <3>3. m \in {0} \cup {x.at : x \in snaps' \cup Waiting'}
      <4>1. CASE m = 0
        BY <4>1
      <4>2. CASE \E x \in Waiting' : x.at = m
        BY <4>2
      <4>3. CASE \E x \in all : x.at = m
        <5>1. PICK x \in all : x.at = m
          BY <4>3
        <5>2. PICK t \in snaps' : t.of = x.of /\ \A u \in all : u.of = x.of => u.at <= t.at
          BY <1>16
        <5>3. t.at <= m /\ x.at <= t.at /\ t.at \in Nat /\ x.at \in Nat
          BY <1>5, <1>14, <3>2, <5>1, <5>2
        <5>4. t.at = m
          BY <5>1, <5>3
        <5> QED BY <5>4
      <4> QED BY <1>12, <3>1, <4>1, <4>2, <4>3
    <3> QED BY <3>2, <3>3
  <2> QED BY <2>1, <2>2, <2>3 DEF Newest, Vault!SameName
\* What guards a note goes on to guard it: the newest of its snapshots is kept.
<1>20. ASSUME NEW o, o.snap # None, Fresh(o), NEW x \in all, x.of = From(o), x.at >= o.snap.at,
              x.text = note[From(o)], ~taken, o.snap.at \in Nat,
              \A t \in snaps \cup Waiting : t.of = From(o) /\ t.at > o.snap.at => t.text = note[From(o)]
       PROVE  \E t \in snaps' : t.of = From(o) /\ t.at >= o.snap.at /\ t.text = note[From(o)]
  <2>1. PICK t \in snaps' : t.of = x.of /\ \A u \in all : u.of = x.of => u.at <= t.at
    BY <1>16
  <2>2. t \in all /\ t.at \in Nat /\ x.at \in Nat /\ t.at >= x.at
    BY <1>5, <1>14, <1>20, <2>1
  <2>3. CASE t.at > o.snap.at
    BY <1>6, <1>20, <2>1, <2>2, <2>3
  <2>4. CASE ~(t.at > o.snap.at)
    <3>1. t.at = x.at
      BY <1>20, <2>2, <2>4
    <3>2. t = x
      BY <1>13, <1>20, <2>1, <2>2, <3>1 DEF Vault!SameName
    <3> QED BY <1>20, <3>2
  <2> QED BY <2>3, <2>4
<1>21. ASSUME NEW d \in Calls, d # c, call[d] # None
       PROVE  CallInv(call[d])'
  <2>0. PICK o : o = call[d] /\ o = call'[d]
    BY <1>11, <1>21
  <2>1. CallInv(o) /\ o \in Call
    BY <1>21, <2>0, CallNow
  <2>2. Asked(o)' /\ Staged(o)' /\ Found(o)'
    BY <2>1 DEF CallInv, Asked, Staged, Found, From, Dest
  <2>3. Shown(o)' /\ ReadSoFar(o)'
    BY <1>1, <2>1 DEF CallInv, Shown, ReadSoFar, Fresh, From
  <2>4. Guarded(o)'
    <3> SUFFICES ASSUME o.snap # None, Fresh(o)
                 PROVE  /\ note[From(o)] # None
                        /\ \A t \in snaps' \cup Waiting' : t.of = From(o) /\ t.at > o.snap.at => t.text = note[From(o)]
                        /\ o.stage = "snapped" => o.snap.text = note[From(o)]
                        /\ o.stage = "write" => \E t \in snaps' : t.of = From(o) /\ t.at >= o.snap.at /\ t.text = note[From(o)]
      BY <1>1 DEF Guarded, Fresh, From
    <3>1. o.snap.at \in Nat
      BY <2>1 DEF Call, Snap
    <3>2. /\ note[From(o)] # None
          /\ \A t \in snaps \cup Waiting : t.of = From(o) /\ t.at > o.snap.at => t.text = note[From(o)]
          /\ o.stage = "snapped" => o.snap.text = note[From(o)]
          /\ o.stage = "write" => \E t \in snaps : t.of = From(o) /\ t.at >= o.snap.at /\ t.text = note[From(o)]
      BY <2>1 DEF CallInv, Guarded
    <3>3. snaps' \cup Waiting' \subseteq snaps \cup Waiting
      BY <1>6, <1>12, <1>14
    <3>4. o.stage = "write" => \E t \in snaps' : t.of = From(o) /\ t.at >= o.snap.at /\ t.text = note[From(o)]
      <4>1. CASE taken
        BY <1>14, <3>2, <4>1
      <4>2. CASE ~taken
        BY <1>20, <3>1, <3>2, <4>2
      <4> QED BY <4>1, <4>2
    <3> QED BY <3>2, <3>3, <3>4
  <2>5. CallInv(o)'
    BY <2>2, <2>3, <2>4 DEF CallInv
  <2> QED BY <2>0, <2>5
<1>22. CallInv(call[c])'
  <2>0. PICK o : o = q /\ o = call'[c]
    BY <1>11
  <2>1. /\ o.stage = "write" /\ o.preview = r.preview /\ o.snap = left /\ o.op = r.op /\ o.mark = r.mark
        /\ o.new = r.new /\ o.to = r.to /\ o.next = r.next /\ o.mode = r.mode /\ o.raw = r.raw
        /\ o.stale = r.stale /\ o.plan = r.plan /\ From(o) = p /\ Dest(o) # None
    BY <1>3, <1>9, <1>10, <2>0
  <2> HIDE DEF p
  <2>2. Asked(o) /\ Staged(o)
    BY <1>1, <1>2, <1>3, <1>8, <2>1 DEF CallInv, Asked, Staged, p
  <2>3. Asked(o)' /\ Staged(o)'
    BY <2>2 DEF Asked, Staged, From, Dest
  <2>4. Shown(o)' /\ ReadSoFar(o)' /\ Found(o)'
    BY <1>3, <2>1 DEF Shown, ReadSoFar, Found
  <2>5. Guarded(o)'
    <3> SUFFICES ASSUME o.snap # None, Fresh(o)
                 PROVE  /\ note[From(o)] # None
                        /\ \A t \in snaps' \cup Waiting' : t.of = From(o) /\ t.at > o.snap.at => t.text = note[From(o)]
                        /\ \E t \in snaps' : t.of = From(o) /\ t.at >= o.snap.at /\ t.text = note[From(o)]
      BY <1>1, <2>1 DEF Guarded, Fresh, From
    <3>1. o.snap = s /\ ~taken /\ o.snap.at \in Nat /\ s \in all
      BY <1>5, <1>8, <2>1
    <3>2. Fresh(r)
      BY <2>1 DEF Fresh, p
    <3>3. /\ note[p] # None /\ s.text = note[p]
          /\ \A t \in snaps \cup Waiting : t.of = p /\ t.at > s.at => t.text = note[p]
      BY <1>1, <1>2, <1>3, <3>2 DEF CallInv, Guarded, p, s
    <3>4. snaps' \cup Waiting' \subseteq snaps \cup Waiting
      BY <1>6, <1>12, <1>14
    <3>5. s.at >= o.snap.at /\ s.of = From(o) /\ s.text = note[From(o)]
      BY <1>3, <1>5, <2>1, <3>1, <3>3
    <3>6. \E t \in snaps' : t.of = From(o) /\ t.at >= o.snap.at /\ t.text = note[From(o)]
      BY <1>20, <2>1, <3>1, <3>3, <3>5
    <3> QED BY <2>1, <3>1, <3>3, <3>4, <3>6
  <2>6. CallInv(o)'
    BY <2>3, <2>4, <2>5 DEF CallInv
  <2> QED BY <2>0, <2>6
<1>23. ASSUME NEW d \in Calls, call'[d] # None
       PROVE  CallInv(call[d])'
  BY <1>11, <1>21, <1>22, <1>23
<1> QED BY <1>17, <1>18, <1>19, <1>23 DEF VaultInv

-----------------------------------------------------------------------------
(* Notes change.                                                           *)

\* A write gives a path the new time, no file, or what another path had; what it
\* touches is marked. A call ends with it, or none does.
LEMMA NotesChange ==
    ASSUME VaultInv, mode' \in Modes, snaps' = snaps, writes' = writes + 1,
           NEW text \in Text \cup {None},
           note' \in [Vault!Paths -> Text \cup {None}], mtime' \in [Vault!Paths -> 0 .. writes'],
           touched' \in [Vault!Paths -> 0 .. writes'],
           \A p \in Vault!Paths :
              \/ mtime'[p] = writes + 1 /\ note'[p] = text /\ text # None
              \/ mtime'[p] = 0 /\ note'[p] = None
              \/ \E o \in Vault!Paths : mtime'[p] = mtime[o] /\ note'[p] = note[o],
           \A p \in Vault!Paths :
              touched'[p] = writes + 1 \/ (touched'[p] = touched[p] /\ note'[p] = note[p]),
           call' \in [Calls -> Call \cup {None}], Waiting' = Waiting,
           \A d \in Calls : call'[d] # None => call'[d] = call[d]
    PROVE  VaultInv'
<1>1. writes \in Nat /\ (\A p \in Vault!Paths : mtime[p] \in Nat /\ mtime[p] <= writes)
  BY DEF VaultInv, VaultTypeOK
<1>2. \A d \in Calls : call'[d] # None => call'[d].since <= writes /\ call'[d].mark <= writes /\ call'[d] \in Call
                                          /\ CallInv(call[d])
  BY DEF VaultInv, VaultTypeOK
<1>3. \A r \in Call : r.since \in Nat /\ r.mark \in Nat
  BY DEF Call
<1>4. VaultTypeOK'
  <2>1. \A d \in Calls : call'[d] # None => call'[d].since <= writes' /\ call'[d].mark <= writes'
    BY <1>1, <1>2, <1>3
  <2>2. writes' \in Nat
    BY <1>1
  <2>3. snaps' \subseteq Snap
    BY DEF VaultInv, VaultTypeOK
  <2> QED BY <2>1, <2>2, <2>3 DEF VaultTypeOK
<1>5. TimeTells'
  <2>1. \A p \in Vault!Paths : note[p] = None <=> mtime[p] = 0
    BY DEF VaultInv, TimeTells
  <2>2. \A p, o \in Vault!Paths : mtime[p] = mtime[o] => note[p] = note[o]
    BY DEF VaultInv, TimeTells
  <2>3. \A p \in Vault!Paths : note'[p] = None <=> mtime'[p] = 0
    BY <1>1, <2>1
  <2>4. ASSUME NEW p \in Vault!Paths, NEW o \in Vault!Paths, mtime'[p] = mtime'[o]
        PROVE  note'[p] = note'[o]
    <3>1. CASE mtime'[p] = 0
      BY <2>3, <2>4, <3>1
    <3>2. CASE mtime'[p] = writes + 1
      <4>1. \A a \in Vault!Paths : mtime[a] # writes + 1
        BY <1>1
      <4>2. writes + 1 # 0 /\ mtime'[o] = writes + 1
        BY <1>1, <2>4, <3>2
      <4>3. note'[p] = text
        BY <3>2, <4>1, <4>2
      <4>4. note'[o] = text
        BY <4>1, <4>2
      <4> QED BY <4>3, <4>4
    <3>3. CASE mtime'[p] # 0 /\ mtime'[p] # writes + 1
      <4>1. PICK a \in Vault!Paths : mtime'[p] = mtime[a] /\ note'[p] = note[a]
        BY <3>3
      <4>2. PICK b \in Vault!Paths : mtime'[o] = mtime[b] /\ note'[o] = note[b]
        BY <2>4, <3>3
      <4>3. mtime[a] = mtime[b]
        BY <2>4, <4>1, <4>2
      <4>4. note[a] = note[b]
        BY <2>2, <4>3
      <4> QED BY <4>1, <4>2, <4>4
    <3> QED BY <3>1, <3>2, <3>3
  <2> QED BY <2>3, <2>4 DEF TimeTells
<1>6. Newest'
  BY DEF VaultInv, Newest, Vault!SameName
<1>7. ASSUME NEW d \in Calls, call'[d] # None
      PROVE  CallInv(call[d])'
  <2>0. PICK r : r = call'[d]
    OBVIOUS
  <2>1. CallInv(r) /\ r \in Call /\ r.since <= writes /\ r.mark <= writes /\ r.since \in Nat /\ r.mark \in Nat
    BY <1>2, <1>3, <1>7, <2>0
  <2>2. Asked(r)' /\ Staged(r)' /\ Found(r)'
    BY <2>1 DEF CallInv, Asked, Staged, Found, From, Dest
  <2>3. Shown(r)'
    <3> SUFFICES ASSUME r.preview # None, r.stage \in {"stamp", "asked"}
                 PROVE  /\ \A p \in Vault!Paths : mtime'[p] = r.since => Vault!Planned(r, note'[p]) = r.preview.plan
                        /\ r.since = 0 => Vault!Planned(r, None) = r.preview.plan
      BY DEF Shown
    <3>1. /\ \A p \in Vault!Paths : mtime[p] = r.since => Vault!Planned(r, note[p]) = r.preview.plan
          /\ r.since = 0 => Vault!Planned(r, None) = r.preview.plan
      BY <2>1 DEF CallInv, Shown
    <3>2. ASSUME NEW p \in Vault!Paths, mtime'[p] = r.since
          PROVE  Vault!Planned(r, note'[p]) = r.preview.plan
      <4>1. mtime'[p] # writes + 1
        BY <1>1, <2>1, <3>2
      <4>2. CASE mtime'[p] = 0 /\ note'[p] = None
        BY <3>1, <3>2, <4>2
      <4>3. CASE \E o \in Vault!Paths : mtime'[p] = mtime[o] /\ note'[p] = note[o]
        BY <3>1, <3>2, <4>3
      <4> QED BY <4>1, <4>2, <4>3
    <3> QED BY <3>1, <3>2
  <2>4. From(r) # None /\ r.raw \in Raws /\ Fresh(r)' => Fresh(r) /\ note'[From(r)] = note[From(r)]
    <3> SUFFICES ASSUME From(r) # None, r.raw \in Raws, r.mark = touched'[From(r)]
                 PROVE  r.mark = touched[From(r)] /\ note'[From(r)] = note[From(r)]
      BY DEF Fresh, From
    <3>1. From(r) \in Vault!Paths
      BY <2>1, FromTo
    <3>2. touched'[From(r)] # writes + 1
      BY <1>1, <2>1
    <3> QED BY <3>1, <3>2
  <2>5. ReadSoFar(r)'
    <3>1. r.op = "read" => r.raw \in Raws /\ (r.next # 1 => From(r) # None)
      BY <2>1 DEF CallInv, Staged
    <3> QED BY <2>1, <2>4, <3>1 DEF CallInv, ReadSoFar, From
  <2>6. Guarded(r)'
    <3>1. r.snap # None => From(r) # None /\ r.raw \in Raws
      BY <2>1 DEF CallInv, Staged
    <3> QED BY <2>1, <2>4, <3>1 DEF CallInv, Guarded, From
  <2>7. CallInv(r)'
    BY <2>2, <2>3, <2>5, <2>6 DEF CallInv
  <2> QED BY <2>0, <2>7
<1> QED BY <1>4, <1>5, <1>6, <1>7 DEF VaultInv

\* One path is written over, or its file goes.
LEMMA WrittenOver ==
    ASSUME VaultInv, mode' \in Modes, snaps' = snaps, NEW p \in Vault!Paths, NEW text \in Text \cup {None},
           Vault!Written(p, text), call' \in [Calls -> Call \cup {None}], Waiting' = Waiting,
           \A d \in Calls : call'[d] # None => call'[d] = call[d]
    PROVE  VaultInv'
<1>1. /\ writes' = writes + 1 /\ note' = [note EXCEPT ![p] = text]
      /\ mtime' = [mtime EXCEPT ![p] = IF text = None THEN 0 ELSE writes + 1]
      /\ touched' = [touched EXCEPT ![p] = writes + 1]
  BY DEF Vault!Written
<1>2. /\ writes \in Nat /\ note \in [Vault!Paths -> Text \cup {None}]
      /\ mtime \in [Vault!Paths -> 0 .. writes] /\ touched \in [Vault!Paths -> 0 .. writes]
  BY DEF VaultInv, VaultTypeOK
<1>3. /\ note' \in [Vault!Paths -> Text \cup {None}]
      /\ mtime' \in [Vault!Paths -> 0 .. writes'] /\ touched' \in [Vault!Paths -> 0 .. writes']
  BY <1>1, <1>2
<1>4. \A o \in Vault!Paths :
         \/ mtime'[o] = writes + 1 /\ note'[o] = text /\ text # None
         \/ mtime'[o] = 0 /\ note'[o] = None
         \/ \E a \in Vault!Paths : mtime'[o] = mtime[a] /\ note'[o] = note[a]
  <2> TAKE o \in Vault!Paths
  <2>1. CASE o = p
    BY <1>1, <1>2, <2>1
  <2>2. CASE o # p
    BY <1>1, <1>2, <2>2
  <2> QED BY <2>1, <2>2
<1>5. \A o \in Vault!Paths :
         touched'[o] = writes + 1 \/ (touched'[o] = touched[o] /\ note'[o] = note[o])
  BY <1>1, <1>2
<1> QED BY <1>1, <1>3, <1>4, <1>5, NotesChange

LEMMA UserStep ==
    ASSUME VaultBounds, VaultInv, NEW p \in Vault!Paths, NEW text \in UserTexts, Vault!UserWrites(p, text)
    PROVE  VaultInv'
<1>1. /\ Vault!Written(p, text) /\ mode' = mode /\ snaps' = snaps /\ call' = call
  BY DEF Vault!UserWrites
<1>2. mode' \in Modes /\ call' \in [Calls -> Call \cup {None}] /\ text \in Text \cup {None}
  BY <1>1 DEF VaultInv, VaultTypeOK, VaultBounds
<1>3. Waiting' = Waiting
  BY <1>1 DEF Waiting, Vault!At
<1> QED BY <1>1, <1>2, <1>3, WrittenOver

\* What a call whose last step is next may do to the notes: nothing, a rename, or a write of its own path.
LEMMA CommitDoes ==
    ASSUME VaultInv, NEW c \in Calls, Vault!Commit(c)
    PROVE  LET r == call[c]
               p == From(r)
               dest == Dest(r) IN
           /\ r # None /\ r \in Call /\ CallInv(r) /\ r.stage = "write" /\ r.plan # None
           /\ call' = [call EXCEPT ![c] = None] /\ UNCHANGED <<mode, snaps>>
           /\ p \in Vault!Paths /\ Vault!Allowed(r.mode, p)
           /\ dest \in Vault!Paths /\ Vault!Allowed(r.mode, dest)
           /\ \/ UNCHANGED <<note, mtime, touched, writes>>
              \/ /\ r.op = "rename" /\ note[dest] = None /\ writes' = writes + 1
                 /\ note' = [note EXCEPT ![p] = None, ![dest] = note[p]]
                 /\ mtime' = [mtime EXCEPT ![p] = 0, ![dest] = mtime[p]]
                 /\ touched' = [touched EXCEPT ![p] = writes + 1, ![dest] = writes + 1]
              \/ r.op # "rename" /\ Vault!Written(p, IF r.op = "delete" THEN None ELSE r.plan)
<1> DEFINE r == call[c]
           p == From(r)
           dest == Dest(r)
<1>1. r # None /\ r.stage = "write" /\ call' = [call EXCEPT ![c] = None] /\ UNCHANGED <<mode, snaps>>
  BY DEF Vault!Commit, Vault!At, Vault!Ends
<1>2. r \in Call /\ CallInv(r) /\ Vault!PathOf(c) = p
  BY <1>1, CallNow
<1>3. p # None /\ dest # None /\ r.plan # None /\ r.raw \in Raws
  BY <1>1, <1>2 DEF CallInv, Staged
<1>4. p \in Vault!Paths /\ Vault!Allowed(r.mode, p) /\ dest \in Vault!Paths /\ Vault!Allowed(r.mode, dest)
  BY <1>2, <1>3, FromTo
<1>5. \/ UNCHANGED <<note, mtime, touched, writes>>
      \/ /\ r.op = "rename" /\ note[dest] = None /\ writes' = writes + 1
         /\ note' = [note EXCEPT ![p] = None, ![dest] = note[p]]
         /\ mtime' = [mtime EXCEPT ![p] = 0, ![dest] = mtime[p]]
         /\ touched' = [touched EXCEPT ![p] = writes + 1, ![dest] = writes + 1]
      \/ r.op # "rename" /\ Vault!Written(p, IF r.op = "delete" THEN None ELSE r.plan)
  <2>1. (IF r.to = None THEN Vault!PathOf(c) ELSE Vault!Resolved(r.mode, r.to)) = dest
    BY <1>2 DEF Dest
  <2> QED BY <1>2, <2>1 DEF Vault!Commit
<1> QED BY <1>1, <1>2, <1>3, <1>4, <1>5

LEMMA CommitStep ==
    ASSUME VaultBounds, VaultInv, NEW c \in Calls, Vault!Commit(c)
    PROVE  VaultInv'
<1> DEFINE r == call[c]
           p == From(r)
           dest == Dest(r)
<1>1. /\ r # None /\ r \in Call /\ r.stage = "write" /\ r.plan # None
      /\ call' = [call EXCEPT ![c] = None] /\ mode' = mode /\ snaps' = snaps
      /\ p \in Vault!Paths /\ dest \in Vault!Paths
  BY CommitDoes
<1>2. /\ call' \in [Calls -> Call \cup {None}] /\ mode' \in Modes
      /\ \A d \in Calls : call'[d] # None => call'[d] = call[d]
  BY <1>1 DEF VaultInv, VaultTypeOK
<1>3. ~Vault!At(c, "snapped")
  BY <1>1 DEF Vault!At
<1>4. Waiting' = Waiting
  <2>1. call \in [Calls -> Call \cup {None}]
    BY DEF VaultInv, VaultTypeOK
  <2>2. \A d \in Calls : Vault!At(d, "snapped")' <=> Vault!At(d, "snapped")
    BY <1>1, <1>3, <2>1 DEF Vault!At
  <2>3. \A d \in Calls : Vault!At(d, "snapped") => call'[d] = call[d]
    BY <1>1, <1>3, <2>1
  <2> QED BY <2>2, <2>3 DEF Waiting
<1>5. CASE UNCHANGED <<note, mtime, touched, writes>>
  BY <1>1, <1>2, <1>3, <1>5, CallGoes
<1>6. CASE r.op # "rename" /\ Vault!Written(p, IF r.op = "delete" THEN None ELSE r.plan)
  <2> DEFINE text == IF r.op = "delete" THEN None ELSE r.plan
  <2>1. text \in Text \cup {None}
    BY <1>1 DEF Call
  <2>2. Vault!Written(p, text)
    BY <1>6
  <2> HIDE DEF text, p
  <2> QED BY <1>1, <1>2, <1>4, <2>1, <2>2, WrittenOver
<1>7. CASE /\ r.op = "rename" /\ note[dest] = None /\ writes' = writes + 1
           /\ note' = [note EXCEPT ![p] = None, ![dest] = note[p]]
           /\ mtime' = [mtime EXCEPT ![p] = 0, ![dest] = mtime[p]]
           /\ touched' = [touched EXCEPT ![p] = writes + 1, ![dest] = writes + 1]
  <2>0. p \in Vault!Paths /\ dest \in Vault!Paths /\ None \in Text \cup {None}
    BY <1>1
  <2> HIDE DEF p, dest
  <2>1. /\ writes \in Nat /\ note \in [Vault!Paths -> Text \cup {None}]
        /\ mtime \in [Vault!Paths -> 0 .. writes] /\ touched \in [Vault!Paths -> 0 .. writes]
    BY DEF VaultInv, VaultTypeOK
  <2>2. note' \in [Vault!Paths -> Text \cup {None}]
    BY <1>7, <2>0, <2>1
  <2>3. mtime' \in [Vault!Paths -> 0 .. writes']
    BY <1>7, <2>0, <2>1
  <2>4. touched' \in [Vault!Paths -> 0 .. writes']
    BY <1>7, <2>0, <2>1
  <2>5. \A o \in Vault!Paths :
           \/ mtime'[o] = writes + 1 /\ note'[o] = None /\ None # None
           \/ mtime'[o] = 0 /\ note'[o] = None
           \/ \E a \in Vault!Paths : mtime'[o] = mtime[a] /\ note'[o] = note[a]
    <3> TAKE o \in Vault!Paths
    <3>1. CASE o = dest
      BY <1>7, <2>0, <2>1, <3>1
    <3>2. CASE o # dest /\ o = p
      BY <1>7, <2>0, <2>1, <3>2
    <3>3. CASE o # dest /\ o # p
      BY <1>7, <2>0, <2>1, <3>3
    <3> QED BY <3>1, <3>2, <3>3
  <2>6. \A o \in Vault!Paths :
           touched'[o] = writes + 1 \/ (touched'[o] = touched[o] /\ note'[o] = note[o])
    BY <1>7, <2>0, <2>1
  <2> QED BY <1>1, <1>2, <1>4, <1>7, <2>0, <2>2, <2>3, <2>4, <2>5, <2>6, NotesChange
<1>8. \/ UNCHANGED <<note, mtime, touched, writes>>
      \/ /\ r.op = "rename" /\ note[dest] = None /\ writes' = writes + 1
         /\ note' = [note EXCEPT ![p] = None, ![dest] = note[p]]
         /\ mtime' = [mtime EXCEPT ![p] = 0, ![dest] = mtime[p]]
         /\ touched' = [touched EXCEPT ![p] = writes + 1, ![dest] = writes + 1]
      \/ r.op # "rename" /\ Vault!Written(p, IF r.op = "delete" THEN None ELSE r.plan)
  BY CommitDoes
<1> QED BY <1>5, <1>6, <1>7, <1>8

\* A folder goes with the notes in it.
LEMMA TrashStep ==
    ASSUME VaultInv, NEW c \in Calls, Vault!TrashFolder(c)
    PROVE  VaultInv'
<1>1. call[c] # None /\ call[c].stage = "run" /\ call' = [call EXCEPT ![c] = None] /\ mode' = mode /\ snaps' = snaps
  BY DEF Vault!TrashFolder, Vault!At, Vault!Ends
<1>2. /\ call \in [Calls -> Call \cup {None}] /\ mode' \in Modes
      /\ call' \in [Calls -> Call \cup {None}] /\ \A d \in Calls : call'[d] # None => call'[d] = call[d]
  BY <1>1 DEF VaultInv, VaultTypeOK
<1>3. Waiting' = Waiting
  <2>1. \A d \in Calls : Vault!At(d, "snapped")' <=> Vault!At(d, "snapped")
    BY <1>1, <1>2 DEF Vault!At
  <2>2. \A d \in Calls : Vault!At(d, "snapped") => call'[d] = call[d]
    BY <1>1, <1>2 DEF Vault!At
  <2> QED BY <2>1, <2>2 DEF Waiting
<1>4. PICK gone : /\ writes' = writes + 1
                  /\ note' = [p \in Vault!Paths |-> IF p \in gone THEN None ELSE note[p]]
                  /\ mtime' = [p \in Vault!Paths |-> IF p \in gone THEN 0 ELSE mtime[p]]
                  /\ touched' = [p \in Vault!Paths |-> IF p \in gone THEN writes + 1 ELSE touched[p]]
  BY DEF Vault!TrashFolder
<1>5. /\ writes \in Nat /\ note \in [Vault!Paths -> Text \cup {None}]
      /\ mtime \in [Vault!Paths -> 0 .. writes] /\ touched \in [Vault!Paths -> 0 .. writes]
  BY DEF VaultInv, VaultTypeOK
<1>6. /\ note' \in [Vault!Paths -> Text \cup {None}]
      /\ mtime' \in [Vault!Paths -> 0 .. writes'] /\ touched' \in [Vault!Paths -> 0 .. writes']
  BY <1>4, <1>5
<1>7. \A p \in Vault!Paths :
         \/ mtime'[p] = writes + 1 /\ note'[p] = None /\ None # None
         \/ mtime'[p] = 0 /\ note'[p] = None
         \/ \E o \in Vault!Paths : mtime'[p] = mtime[o] /\ note'[p] = note[o]
  BY <1>4
<1>8. \A p \in Vault!Paths : touched'[p] = writes + 1 \/ (touched'[p] = touched[p] /\ note'[p] = note[p])
  BY <1>4
<1>9. None \in Text \cup {None}
  OBVIOUS
<1> QED BY <1>1, <1>2, <1>3, <1>4, <1>6, <1>7, <1>8, <1>9, NotesChange

-----------------------------------------------------------------------------
(* A note is read page by page.                                            *)

LEMMA PageIs ==
    ASSUME NEW text \in Text, NEW from \in 1 .. Len(text), NEW limit \in Nat
    PROVE  \E to \in from .. Len(text) : Vault!Page(text, from, limit) = SubSeq(text, from, to)
<1> DEFINE S == {Len(text), from + limit - 1}
           to == IF limit = 0 THEN Len(text) ELSE Vault!Min(S)
<1>1. Len(text) \in Nat
  BY DEF Text
<1>2. Vault!Page(text, from, limit) = SubSeq(text, from, to)
  BY DEF Vault!Page
<1>3. Vault!Min(S) = CHOOSE x \in S : \A y \in S : x <= y
  BY DEF Vault!Min
<1>4. \E x \in S : \A y \in S : x <= y
  <2>1. CASE Len(text) <= from + limit - 1
    BY <1>1, <2>1
  <2>2. CASE ~(Len(text) <= from + limit - 1)
    BY <1>1, <2>2
  <2> QED BY <2>1, <2>2
<1>5. Vault!Min(S) \in S /\ \A y \in S : Vault!Min(S) <= y
  BY <1>3, <1>4
<1>6. limit # 0 => Vault!Min(S) \in from .. Len(text)
  BY <1>1, <1>5
<1>7. to \in from .. Len(text)
  BY <1>1, <1>6
<1> QED BY <1>2, <1>7

LEMMA ReadPageStep ==
    ASSUME VaultInv, NEW c \in Calls, NEW limit \in Nat, Vault!ReadPage(c, limit)
    PROVE  VaultInv'
<1> DEFINE r == call[c]
           p == From(r)
           text == note[p]
           page == Vault!Page(text, r.next, limit)
           mark == IF r.next = 1 THEN touched[p] ELSE r.mark
           st == IF r.next + Len(page) > Len(text) THEN "read" ELSE "run"
           q == ToPage(r, r.got \o page, mark, r.next + Len(page), st)
<1>1. /\ r # None /\ r.stage = "run" /\ r.op = "read" /\ Vault!CallOnly
      /\ ~Vault!At(c, "snapped") /\ UNCHANGED <<note, mtime, touched, writes, snaps, mode>>
  BY DEF Vault!ReadPage, Vault!At, Vault!CallOnly
<1>2. /\ r \in Call /\ r.since <= writes /\ r.mark <= writes /\ CallInv(r) /\ Vault!PathOf(c) = p /\ mode \in Modes
  BY <1>1, CallNow
<1>3. \/ Vault!Ends(c)
      \/ UNCHANGED call
      \/ p # None /\ text # None /\ ~(r.next > Len(text)) /\ call' = [call EXCEPT ![c] = q]
  BY <1>2 DEF Vault!ReadPage, ToPage
<1>4. CASE Vault!Ends(c)
  BY <1>1, <1>4, CallEnds
<1>5. CASE UNCHANGED call
  BY <1>1, <1>2, <1>5, Untouched
<1>6. CASE p # None /\ text # None /\ ~(r.next > Len(text)) /\ call' = [call EXCEPT ![c] = q]
  <2>r. r.raw \in Raws
    BY <1>1, <1>2 DEF CallInv, Staged
  <2>1. p \in Vault!Paths /\ text # None
    BY <1>2, <1>6, <2>r, FromTo
  <2>2. text \in Text /\ touched[p] \in Nat /\ touched[p] <= writes
    BY <2>1, NoteOf
  <2>3. r.next \in Nat \ {0} /\ r.got \in Text /\ r.mark \in Nat /\ r.since \in Nat
    BY <1>2 DEF Call
  <2>4. r.next \in 1 .. Len(text) /\ Len(text) \in Nat
    BY <1>6, <2>2, <2>3 DEF Text
  <2>5. PICK to \in r.next .. Len(text) : page = SubSeq(text, r.next, to)
    BY <2>2, <2>4, PageIs
  <2>6. page \in Text /\ Len(page) = to - r.next + 1
    <3>1. \A i \in r.next .. to : text[i] \in Lines
      BY <2>2, <2>4, <2>5 DEF Text
    <3>2. r.next \in Int /\ to \in Int /\ r.next <= to
      BY <2>4, <2>5
    <3> QED BY <2>5, <3>1, <3>2, SubSeqProperties DEF Text
  <2>7. call' = [call EXCEPT ![c] = q]
    BY <1>6
  <2>8. /\ r.got \o page \in Text /\ mark \in Nat /\ mark <= writes /\ r.next + Len(page) \in Nat \ {0}
        /\ st \in Stages /\ r.next + Len(page) = to + 1 /\ (st = "read" <=> to = Len(text)) /\ st \in {"read", "run"}
    <3>1. r.got \o page \in Text
      BY <2>3, <2>6, ConcatProperties DEF Text
    <3>2. r.next + Len(page) = to + 1
      BY <2>4, <2>5, <2>6
    <3>3. to \in Nat \ {0} /\ to <= Len(text)
      BY <2>4, <2>5
    <3> HIDE DEF page
    <3>4. (st = "read" <=> to = Len(text)) /\ st \in {"read", "run"}
      BY <2>4, <3>2, <3>3
    <3> QED BY <1>2, <2>2, <2>3, <3>1, <3>2, <3>3, <3>4 DEF Stages
  <2> DEFINE got == r.got \o page
             m == r.next + Len(page)
  <2>9. /\ q = ToPage(r, got, mark, m, st) /\ got \in Text /\ mark \in Nat /\ m \in Nat \ {0} /\ st \in Stages
        /\ got = r.got \o page /\ m = to + 1
        /\ (r.next = 1 => mark = touched[p]) /\ (r.next # 1 => mark = r.mark)
    BY <2>8
  <2> HIDE DEF got, m, mark, st, page
  <2>10. /\ q \in Call /\ q.stage = st /\ q.preview = r.preview /\ q.snap = r.snap /\ q.op = r.op
         /\ q.since = r.since /\ q.mark = mark /\ q.new = r.new /\ q.old = r.old /\ q.to = r.to /\ q.next = m
         /\ q.mode = r.mode /\ q.raw = r.raw /\ q.stale = r.stale /\ q.got = got
    <3>1. r \in Call /\ got \in Text /\ mark \in Nat /\ m \in Nat \ {0} /\ st \in Stages /\ q = ToPage(r, got, mark, m, st)
      BY <1>2, <2>9
    <3> HIDE DEF r, q, p, text
    <3> QED BY <3>1, ToPageKept
  <2> HIDE DEF q
  <2>11. r.snap = None /\ r.op \notin Vault!Previewed /\ p # None
    BY <1>1, <1>2, <1>6 DEF CallInv, Staged, Vault!Previewed
  <2> HIDE DEF r
  <2>12. From(q) = p
    BY <2>10 DEF From, p
  <2>13. Asked(q) /\ Staged(q)
    BY <1>1, <1>2, <2>8, <2>10, <2>11, <2>12 DEF CallInv, Asked, Staged
  <2>14. Shown(q) /\ Found(q) /\ Guarded(q)
    BY <1>1, <2>8, <2>10, <2>11 DEF Shown, Found, Guarded
  <2>15. ReadSoFar(q)
    <3>0. q.next = to + 1
      BY <2>9, <2>10
    <3>t. text # None
      BY <2>1
    <3>1. q.next # 1 /\ q.next - 1 = to /\ to <= Len(text) /\ text # None
      <4> HIDE DEF text
      <4>1. to \in Nat /\ to >= 1 /\ to <= Len(text)
        BY <2>4, <2>5
      <4> QED BY <3>0, <3>t, <4>1
    <3>2. ASSUME Fresh(q)
          PROVE  q.got = SubSeq(text, 1, to)
      <4>1. CASE r.next = 1
        <5>1. r.got = <<>>
          BY <1>1, <1>2, <4>1 DEF CallInv, ReadSoFar
        <5>2. <<>> \o page = page
          BY <2>6, ConcatEmptySeq DEF Text
        <5> QED BY <2>5, <2>9, <2>10, <4>1, <5>1, <5>2
      <4>2. CASE r.next # 1
        <5>1. Fresh(r)
          BY <2>9, <2>10, <2>12, <3>2, <4>2 DEF Fresh, p
        <5>2. r.got = SubSeq(text, 1, r.next - 1)
          BY <1>1, <1>2, <4>2, <5>1 DEF CallInv, ReadSoFar, p, text
        <5>3. PICK k \in Nat : k = r.next - 1
          BY <2>3
        <5>4. k \in 1 - 1 .. Len(text) /\ to \in k .. Len(text) /\ 1 \in 1 .. Len(text) + 1 /\ k + 1 = r.next
          BY <2>4, <2>5, <5>3
        <5>5. text \in Seq(Lines)
          BY <2>2 DEF Text
        <5> HIDE DEF text
        <5>6. SubSeq(text, 1, k) \o SubSeq(text, k + 1, to) = SubSeq(text, 1, to)
          BY <5>4, <5>5, ConcatAdjacentSubSeq
        <5> QED BY <2>5, <2>9, <2>10, <5>2, <5>3, <5>4, <5>6
      <4> QED BY <4>1, <4>2
    <3>3. q.stage = "read" => to = Len(text)
      BY <2>8, <2>10
    <3> QED BY <2>12, <3>1, <3>2, <3>3 DEF ReadSoFar, text
  <2>16. CallInv(q)
    BY <2>13, <2>14, <2>15 DEF CallInv
  <2>17. q.since <= writes /\ q.mark <= writes /\ q.stage # "snapped"
    BY <1>2, <2>8, <2>10
  <2> QED BY <1>1, <1>2, <2>7, <2>10, <2>16, <2>17, CallGoes
<1> QED BY <1>3, <1>4, <1>5, <1>6

-----------------------------------------------------------------------------
(* The invariant and the promises.                                         *)

LEMMA VaultStep ==
    ASSUME VaultBounds, VaultInv, [Vault!VaultNext]_Vault!vaultVars
    PROVE  VaultInv'
<1>1. CASE UNCHANGED Vault!vaultVars
  <2>1. UNCHANGED <<note, mtime, touched, writes, snaps, call, mode>>
    BY <1>1 DEF Vault!vaultVars
  <2> QED BY <2>1, Untouched DEF VaultInv, VaultTypeOK
<1>2. ASSUME NEW p \in Vault!Paths, NEW text \in UserTexts, Vault!UserWrites(p, text)
      PROVE  VaultInv'
  BY <1>2, UserStep
<1>3. ASSUME NEW m \in Modes, Vault!ChangeMode(m)
      PROVE  VaultInv'
  <2>1. UNCHANGED <<note, mtime, touched, writes, snaps, call>> /\ mode' \in Modes
    BY <1>3 DEF Vault!ChangeMode
  <2> QED BY <2>1, Untouched
<1>4. ASSUME NEW c \in Calls, Vault!ToolStep(c)
      PROVE  VaultInv'
  <2>1. ASSUME NEW at \in 0 .. (MaxCalls + 1), Vault!SnapRead(c, at)
        PROVE  VaultInv'
    BY <2>1, SnapReadStep DEF VaultBounds
  <2>2. ASSUME NEW limit \in 1 .. Ceiling, Vault!ReadPage(c, limit)
        PROVE  VaultInv'
    BY <2>2, ReadPageStep DEF VaultBounds
  <2>3. CASE Vault!PreviewRead(c) \/ Vault!PreviewStamp(c) \/ Vault!Reread(c)
    BY <2>3, PreviewReadStep, PreviewStampStep, RereadStep
  <2>4. CASE Vault!SnapWrite(c) \/ Vault!Commit(c) \/ Vault!TrashFolder(c)
    BY <2>4, SnapWriteStep, CommitStep, TrashStep
  <2>5. CASE Vault!Find(c) \/ Vault!Return(c)
    BY <2>5, FindSteps, ReturnStep
  <2> QED BY <1>4, <2>1, <2>2, <2>3, <2>4, <2>5 DEF Vault!ToolStep
<1>5. ASSUME NEW c \in Calls,
             Vault!Accept(c) \/ Vault!Recheck(c) \/ Vault!Unasked(c) \/ Vault!Deny(c) \/ Vault!ReadPage(c, 0)
      PROVE  VaultInv'
  BY <1>5, AcceptStep, ButtonSteps, ReadPageStep
<1>6. ASSUME NEW c \in Calls, NEW p \in Vault!Paths, Vault!ReadActive(c, p)
      PROVE  VaultInv'
  BY <1>6, FindSteps
<1>7. ASSUME NEW c \in Calls, NEW raw, NEW op, NEW to, NEW old, NEW new,
             raw \in Raws \/ (raw \in Folders /\ op = "delete"),
             Request(op, to, old, new), Vault!Ask(c, op, raw, to, old, new)
      PROVE  VaultInv'
  BY <1>7, AskStep
<1>8. ASSUME NEW c \in Calls, NEW raw \in Raws, NEW new \in News, NEW op \in {"create", "overwrite", "append"},
             Vault!Ask(c, op, raw, None, None, new)
      PROVE  VaultInv'
  BY <1>7, <1>8 DEF Request
<1>9. ASSUME NEW c \in Calls, NEW raw \in Raws, NEW new \in News, NEW old \in Olds,
             Vault!Ask(c, "edit", raw, None, old, new)
      PROVE  VaultInv'
  BY <1>7, <1>9 DEF Request
<1>10. ASSUME NEW c \in Calls, NEW raw \in Raws, NEW op \in {"delete", "read", "find"},
              Vault!Ask(c, op, raw, None, None, None)
       PROVE  VaultInv'
  BY <1>7, <1>10 DEF Request
<1>11. ASSUME NEW c \in Calls, NEW raw \in Raws, NEW to \in Raws, Vault!Ask(c, "rename", raw, to, None, None)
       PROVE  VaultInv'
  BY <1>7, <1>11 DEF Request
<1>12. ASSUME NEW c \in Calls, NEW folder \in Folders, Vault!Ask(c, "delete", folder, None, None, None)
       PROVE  VaultInv'
  BY <1>7, <1>12 DEF Request
<1> QED BY <1>1, <1>2, <1>3, <1>4, <1>5, <1>6, <1>8, <1>9, <1>10, <1>11, <1>12 DEF Vault!VaultNext

\* What holds of every state of the note tools: the invariant the three promises rest on.
THEOREM VaultInvariance == ASSUME VaultBounds PROVE Vault!VaultSpec => []VaultInv
<1>1. Vault!VaultInit => VaultInv
  BY VaultStarts
<1>2. VaultInv /\ [Vault!VaultNext]_Vault!vaultVars => VaultInv'
  BY VaultStep
<1> QED BY <1>1, <1>2, PTL DEF Vault!VaultSpec

\* A page goes to the call that asked for it.
LEMMA PageDoes ==
    ASSUME NEW d \in Calls, NEW limit, Vault!ReadPage(d, limit)
    PROVE  UNCHANGED call \/ \E v : call' = [call EXCEPT ![d] = v]
<1> DEFINE r == call[d]
           p == Vault!PathOf(d)
           page == Vault!Page(note[p], r.next, limit)
           q == ToPage(r, r.got \o page, IF r.next = 1 THEN touched[p] ELSE r.mark, r.next + Len(page),
                       IF r.next + Len(page) > Len(note[p]) THEN "read" ELSE "run")
<1>1. Vault!Ends(d) \/ UNCHANGED call \/ call' = [call EXCEPT ![d] = q]
  BY DEF Vault!ReadPage, ToPage
<1> HIDE DEF q
<1> QED BY <1>1 DEF Vault!Ends

\* Which step makes a call with a preview run: the button, which looked at the note's time.
LEMMA OnlyAccept ==
    ASSUME VaultInv, Vault!VaultNext, NEW c \in Calls, Vault!At(c, "asked"),
           call'[c] # None, call'[c].stage = "run", call[c].preview # None
    PROVE  Vault!Accept(c)
<1> DEFINE Same == call'[c] = call[c]
<1>1. call \in [Calls -> Call \cup {None}] /\ call[c] # None /\ call[c].stage = "asked"
  BY DEF VaultInv, VaultTypeOK, Vault!At
<1>2. call[c].op \notin {"read", "find"} /\ ~Same
  BY <1>1, CallNow DEF CallInv, Staged
<1>3. ASSUME NEW d \in Calls, NEW v, call' = [call EXCEPT ![d] = v], d # c
      PROVE  FALSE
  BY <1>1, <1>2, <1>3
<1>4. ASSUME NEW d \in Calls, Vault!ToolStep(d)
      PROVE  FALSE
  <2>1. ~UNCHANGED call
    BY <1>2
  <2>2. \E v : call' = [call EXCEPT ![d] = v]
    <3>1. CASE Vault!PreviewRead(d) \/ Vault!Reread(d) \/ Vault!SnapWrite(d)
      BY <3>1 DEF Vault!PreviewRead, Vault!Reread, Vault!SnapWrite, Vault!Ends
    <3>2. CASE Vault!PreviewStamp(d)
      <4>1. call' = [call EXCEPT ![d] = [@ EXCEPT !.stage = "asked", !.stale = FALSE,
                                                  !.preview.mtime = mtime[Vault!PathOf(d)]]]
        BY <3>2 DEF Vault!PreviewStamp
      <4> QED BY <4>1
    <3>3. CASE Vault!Commit(d) \/ Vault!TrashFolder(d) \/ Vault!Find(d) \/ Vault!Return(d)
      BY <3>3 DEF Vault!Commit, Vault!TrashFolder, Vault!Find, Vault!Return, Vault!Ends
    <3>4. ASSUME NEW at \in 0 .. (MaxCalls + 1), Vault!SnapRead(d, at)
          PROVE  \E v : call' = [call EXCEPT ![d] = v]
      BY <3>4 DEF Vault!SnapRead
    <3>5. ASSUME NEW limit \in 1 .. Ceiling, Vault!ReadPage(d, limit)
          PROVE  \E v : call' = [call EXCEPT ![d] = v]
      BY <2>1, <3>5, PageDoes
    <3> QED BY <1>4, <3>1, <3>2, <3>3, <3>4, <3>5 DEF Vault!ToolStep
  <2>3. d = c
    BY <1>3, <2>2
  <2>4. ~Vault!ToolStep(c)
    BY <1>1, <1>2 DEF Vault!ToolStep, Vault!PreviewRead, Vault!PreviewStamp, Vault!Reread, Vault!SnapWrite,
       Vault!Commit, Vault!TrashFolder, Vault!SnapRead, Vault!ReadPage, Vault!Find, Vault!Return, Vault!At
  <2> QED BY <1>4, <2>3, <2>4
<1>5. ASSUME NEW d \in Calls, NEW limit, Vault!ReadPage(d, limit)
      PROVE  FALSE
  <2>1. d # c
    BY <1>1, <1>5 DEF Vault!ReadPage, Vault!At
  <2>2. \E v : call' = [call EXCEPT ![d] = v]
    BY <1>2, <1>5, PageDoes
  <2> QED BY <1>3, <2>1, <2>2
<1>6. ASSUME NEW d \in Calls, Vault!Recheck(d) \/ Vault!Unasked(d) \/ Vault!Deny(d) \/ Vault!Accept(d)
      PROVE  Vault!Accept(c)
  <2>1. \E v : call' = [call EXCEPT ![d] = v]
    BY <1>6 DEF Vault!Recheck, Vault!Unasked, Vault!Deny, Vault!Accept, Vault!Ends
  <2>2. d = c
    BY <1>3, <2>1
  <2>3. CASE Vault!Recheck(c)
    BY <1>1, <2>3 DEF Vault!Recheck, Vault!Ends, Call
  <2>4. ~Vault!Unasked(c) /\ ~Vault!Deny(c)
    BY <1>1 DEF Vault!Unasked, Vault!Deny, Vault!Ends, Vault!At
  <2> QED BY <1>6, <2>2, <2>3, <2>4
<1>7. ASSUME NEW d \in Calls, NEW p, Vault!ReadActive(d, p)
      PROVE  FALSE
  <2>1. d # c
    BY <1>1, <1>7 DEF Vault!ReadActive, Vault!At
  <2>2. \E v : call' = [call EXCEPT ![d] = v]
    BY <1>7 DEF Vault!ReadActive, Vault!Ends
  <2> QED BY <1>3, <2>1, <2>2
<1>8. ASSUME NEW d \in Calls, NEW op, NEW raw, NEW to, NEW old, NEW new, Vault!Ask(d, op, raw, to, old, new)
      PROVE  FALSE
  <2>1. d # c
    BY <1>1, <1>8 DEF Vault!Ask
  <2>2. \E v : call' = [call EXCEPT ![d] = v]
    BY <1>8 DEF Vault!Ask
  <2> QED BY <1>3, <2>1, <2>2
<1>9. ~\E p \in Vault!Paths, text \in UserTexts : Vault!UserWrites(p, text)
  BY <1>2 DEF Vault!UserWrites
<1>10. ~\E m \in Modes : Vault!ChangeMode(m)
  BY <1>2 DEF Vault!ChangeMode
<1> QED BY <1>4, <1>5, <1>6, <1>7, <1>8, <1>9, <1>10 DEF Vault!VaultNext

\* What the user accepted is what the tool would write: at the step in which the button lets
\* the call run, the workspace is the one it was asked under, and the plan of the note as it
\* is is the one card (buildApprovalPreview and the button's check of the note's time).
THEOREM AcceptIsAsShown ==
    ASSUME VaultBounds PROVE Vault!VaultSpec => [][Vault!AcceptedAsShown]_Vault!vaultVars
<1>1. VaultInv /\ [Vault!VaultNext]_Vault!vaultVars => [Vault!AcceptedAsShown]_Vault!vaultVars
  <2> SUFFICES ASSUME VaultInv, Vault!VaultNext PROVE Vault!AcceptedAsShown
    OBVIOUS
  <2> SUFFICES ASSUME NEW c \in Calls, Vault!At(c, "asked"), call'[c] # None, call'[c].stage = "run",
                      call[c].preview # None
               PROVE  /\ call[c].mode = mode
                      /\ call[c].preview.mtime = call[c].since =>
                            call[c].preview.plan = Vault!Planned(call[c], note[Vault!PathOf(c)])
    BY DEF Vault!AcceptedAsShown
  <2>1. Vault!Accept(c)
    BY OnlyAccept
  <2>2. call[c] # None /\ call[c].stage = "asked" /\ call \in [Calls -> Call \cup {None}]
    BY DEF Vault!At, VaultInv, VaultTypeOK
  <2>3. ~Vault!Ends(c) /\ call' # [call EXCEPT ![c].stale = TRUE]
    <3>1. call[c] \in Call
      BY <2>2
    <3>2. [call EXCEPT ![c].stale = TRUE][c] = ToStale(call[c])
      BY <2>2 DEF ToStale
    <3>3. ToStale(call[c]).stage = "asked"
      BY <2>2, <3>1, ToStaleKept
    <3> QED BY <2>2, <3>2, <3>3 DEF Vault!Ends
  <2>4. mode = call[c].mode /\ call[c].preview.mtime = mtime[Vault!PathOf(c)]
    BY <2>1, <2>3 DEF Vault!Accept
  <2>5. CallInv(call[c]) /\ Vault!PathOf(c) = From(call[c]) /\ call[c] \in Call
    BY <2>2, CallNow
  <2>6. From(call[c]) \in Vault!Paths
    <3>1. call[c].raw \in Raws /\ From(call[c]) # None
      BY <2>5 DEF CallInv, Staged, Vault!Previewed
    <3> QED BY <2>5, <3>1, FromTo
  <2> QED BY <2>2, <2>4, <2>5, <2>6 DEF CallInv, Shown
<1> QED BY <1>1, VaultInvariance, PTL DEF Vault!VaultSpec

\* No write of a note, and no trashing of one, loses its text: when a call that took a snapshot makes its last step, a
\* snapshot of that note with that text is stored, however many calls stored and pruned
\* snapshots in between (checkpointBeforeWrite).
THEOREM TextsAreKept ==
    ASSUME VaultBounds PROVE Vault!VaultSpec => [][Vault!NothingLost]_Vault!vaultVars
<1>1. VaultInv => Vault!NothingLost
  <2> SUFFICES ASSUME VaultInv, NEW c \in Calls, Vault!At(c, "write"), call[c].snap # None,
                      call[c].mark = touched[Vault!PathOf(c)]
               PROVE  \E s \in snaps : s.of = Vault!PathOf(c) /\ s.text = note[Vault!PathOf(c)]
    BY DEF Vault!NothingLost
  <2>1. call[c] # None /\ call[c].stage = "write"
    BY DEF Vault!At
  <2>2. CallInv(call[c]) /\ Vault!PathOf(c) = From(call[c])
    BY <2>1, CallNow
  <2> QED BY <2>1, <2>2 DEF CallInv, Guarded, Fresh
<1> QED BY <1>1, VaultInvariance, PTL

\* Which steps change notes: the user's, the last of a call, and the one that trashes a folder.
LEMMA OnlyCommit ==
    ASSUME Vault!VaultNext, note' # note,
           ~\E p \in Vault!Paths, text \in UserTexts : Vault!UserWrites(p, text)
    PROVE  \E d \in Calls : Vault!Commit(d) \/ Vault!TrashFolder(d)
<1>1. ASSUME NEW c \in Calls, Vault!ToolStep(c)
      PROVE  Vault!Commit(c) \/ Vault!TrashFolder(c)
  <2>1. ~Vault!PreviewRead(c) /\ ~Vault!PreviewStamp(c) /\ ~Vault!Reread(c)
    BY DEF Vault!PreviewRead, Vault!PreviewStamp, Vault!Reread, Vault!CallOnly
  <2>2. ~Vault!SnapWrite(c) /\ ~Vault!Find(c) /\ ~Vault!Return(c)
    BY DEF Vault!SnapWrite, Vault!Find, Vault!Return, Vault!CallOnly
  <2>3. ~\E at \in 0 .. (MaxCalls + 1) : Vault!SnapRead(c, at)
    BY DEF Vault!SnapRead, Vault!CallOnly
  <2>4. ~\E limit \in 1 .. Ceiling : Vault!ReadPage(c, limit)
    BY DEF Vault!ReadPage, Vault!CallOnly
  <2> QED BY <1>1, <2>1, <2>2, <2>3, <2>4 DEF Vault!ToolStep
<1>2. ~\E m \in Modes : Vault!ChangeMode(m)
  BY DEF Vault!ChangeMode
<1>3. ASSUME NEW c \in Calls
      PROVE  ~(Vault!Accept(c) \/ Vault!Recheck(c) \/ Vault!Unasked(c) \/ Vault!Deny(c) \/ Vault!ReadPage(c, 0))
  BY DEF Vault!Accept, Vault!Recheck, Vault!Unasked, Vault!Deny, Vault!ReadPage, Vault!CallOnly
<1>4. ASSUME NEW c \in Calls, NEW p
      PROVE  ~Vault!ReadActive(c, p)
  BY DEF Vault!ReadActive, Vault!CallOnly
<1>5. ASSUME NEW c \in Calls, NEW op, NEW raw, NEW to, NEW old, NEW new
      PROVE  ~Vault!Ask(c, op, raw, to, old, new)
  BY DEF Vault!Ask
<1> QED BY <1>1, <1>2, <1>3, <1>4, <1>5 DEF Vault!VaultNext

\* A call writes, and finds, only what the policy of its run allows, whatever the settings
\* have become since (WorkspacePolicy, resolved once for the run); but of a folder that it
\* trashes the policy allows the folder, and all that is in it goes (delete_note).
THEOREM CallsKeepScope ==
    ASSUME VaultBounds PROVE Vault!VaultSpec => [][Vault!WithinScope]_Vault!vaultVars
<1>1. VaultInv /\ [Vault!VaultNext]_Vault!vaultVars => [Vault!WithinScope]_Vault!vaultVars
  <2> SUFFICES ASSUME VaultInv, Vault!VaultNext PROVE Vault!WithinScope
    OBVIOUS
  <2>1. ASSUME NEW c \in Calls, call[c] # None, call'[c] = None, note' # note, NEW p \in Vault!Paths, note'[p] # note[p]
        PROVE  \/ Vault!Allowed(call[c].mode, p)
               \/ /\ Vault!OfFolder(c) /\ Vault!At(c, "run")
                  /\ Vault!Allowed(call[c].mode, Vault!PathOf(c)) /\ Vault!Within(Vault!PathOf(c), p)
    <3>1. ~\E o \in Vault!Paths, text \in UserTexts : Vault!UserWrites(o, text)
      BY <2>1 DEF Vault!UserWrites
    <3>2. PICK d \in Calls : Vault!Commit(d) \/ Vault!TrashFolder(d)
      BY <2>1, <3>1, OnlyCommit
    <3>3. call' = [call EXCEPT ![d] = None]
      BY <3>2 DEF Vault!Commit, Vault!TrashFolder, Vault!Ends
    <3>4. d = c
      BY <2>1, <3>3 DEF VaultInv, VaultTypeOK
    <3>5. CASE Vault!Commit(c)
      <4> DEFINE r == call[c]
      <4>1. Vault!Allowed(r.mode, From(r)) /\ Vault!Allowed(r.mode, Dest(r))
        BY <3>5, CommitDoes
      <4>2. note' = [note EXCEPT ![From(r)] = None, ![Dest(r)] = note[From(r)]]
            \/ Vault!Written(From(r), IF r.op = "delete" THEN None ELSE r.plan)
        BY <2>1, <3>5, CommitDoes
      <4>3. note \in [Vault!Paths -> Text \cup {None}]
        BY DEF VaultInv, VaultTypeOK
      <4>4. p = From(r) \/ p = Dest(r)
        BY <2>1, <4>2, <4>3 DEF Vault!Written
      <4> QED BY <4>1, <4>4
    <3>6. CASE Vault!TrashFolder(c)
      <4>1. /\ Vault!At(c, "run") /\ Vault!OfFolder(c)
            /\ Vault!PathOf(c) # None /\ Vault!Within(Vault!PathOf(c), p)
        BY <2>1, <3>6 DEF Vault!TrashFolder, Vault!InFolder
      <4>2. Vault!Allowed(call[c].mode, Vault!PathOf(c))
        BY <4>1 DEF Vault!PathOf, Vault!Resolved
      <4> QED BY <4>1, <4>2
    <3> QED BY <3>2, <3>4, <3>5, <3>6
  <2>2. ASSUME NEW c \in Calls, Vault!At(c, "read"), call[c].op = "find", NEW p \in call[c].seen
        PROVE  Vault!Allowed(call[c].mode, p)
    <3>1. call[c] # None /\ call[c].stage = "read"
      BY <2>2 DEF Vault!At
    <3> QED BY <2>2, <3>1, CallNow DEF CallInv, Found
  <2> QED BY <2>1, <2>2 DEF Vault!WithinScope
<1> QED BY <1>1, VaultInvariance, PTL DEF Vault!VaultSpec

\* Pages read one after the other to the end of a note that nobody changed meanwhile are the
\* whole note, whatever the limits of the reads (read_note's next line).
THEOREM PagesAreWhole ==
    ASSUME VaultBounds PROVE Vault!VaultSpec => []Vault!PagesWhole
<1>1. VaultInv => Vault!PagesWhole
  <2> SUFFICES ASSUME VaultInv, NEW c \in Calls, Vault!At(c, "read"), call[c].op = "read",
                      call[c].mark = touched[Vault!PathOf(c)]
               PROVE  call[c].got = note[Vault!PathOf(c)]
    BY DEF Vault!PagesWhole
  <2> DEFINE r == call[c]
             p == From(r)
  <2>1. r # None /\ r.stage = "read"
    BY DEF Vault!At
  <2>2. CallInv(r) /\ Vault!PathOf(c) = p /\ r \in Call
    BY <2>1, CallNow
  <2>3. r.next # 1 /\ p # None /\ r.raw \in Raws
    BY <2>1, <2>2 DEF CallInv, ReadSoFar, Staged
  <2>4. p \in Vault!Paths
    BY <2>2, <2>3, FromTo
  <2>5. note[p] # None /\ r.got = SubSeq(note[p], 1, r.next - 1) /\ r.next - 1 = Len(note[p])
    BY <2>1, <2>2, <2>3 DEF CallInv, ReadSoFar, Fresh
  <2>6. note[p] \in Seq(Lines)
    BY <2>4, <2>5, NoteOf DEF Text
  <2>7. SubSeq(note[p], 1, Len(note[p])) = note[p]
    BY <2>6, SubSeqFull
  <2> QED BY <2>2, <2>5, <2>7
<1> QED BY <1>1, VaultInvariance, PTL

-----------------------------------------------------------------------------
(* SkillFiles, for any names, folders, texts and calls. *)

DocOf == [name : Names, on : BOOLEAN, text : Skill!Texts]
ByName == {"patch", "update", "write", "remove", "delete", "create"}
SeenOf == [dir : Dirs, name : Names]
SkillCallOf ==
    [op : ByName \cup {"toggle"}, name : Names \cup {None}, dir : Dirs \cup {None}, old : Marks \cup {None},
     new : Marks \cup {None}, rel : Rel \cup {None}, left : SUBSET Dirs, seen : SUBSET SeenOf,
     read : DocOf \cup {None}, stage : {"list", "look", "read", "write"}, on : BOOLEAN]

\* A text may have two pieces, a name keeps its letters in another case, and None
\* is no document and no call.
SkillBounds ==
    /\ MaxText \in Nat /\ MaxText >= 2
    /\ SlugOf \in [Names -> Dirs] /\ Lower \in [Names -> Names]
    /\ None \notin DocOf /\ None \notin SkillCallOf

\* Of the skills a lookup read, the one a call by name is about.
Meant(s, seen, name) ==
    s \in seen /\ (s.name = name \/ Skill!CaseLess(seen, name) = {s})

\* What a call has found out by its stage: past the lookup its folder, which is
\* of the skill it means, and before it writes what it read, in which a patch
\* found its piece once.
CallSound(r) ==
    /\ r \in SkillCallOf /\ IsFiniteSet(r.seen)
    /\ r.op \in ByName \ {"create"} /\ r.stage \in {"read", "write"}
         => \E s \in SeenOf : s.dir = r.dir /\ Meant(s, r.seen, r.name)
    /\ r.op \in ByName => r.name \in Names
    /\ r.op = "patch" => r.old \in Marks /\ r.new \in Marks /\ r.old # r.new
    /\ r.op \in {"update", "create"} => r.new \in Marks
    /\ r.op = "write" => r.rel \in Rel
    /\ r.stage \in {"read", "write"} => r.dir \in Dirs
    /\ r.stage \in {"list", "look"} => r.op \notin {"toggle", "create"}
    /\ r.stage = "read" => r.op \in {"patch", "toggle"}
    /\ r.stage = "write" /\ r.op \in {"patch", "toggle"} => r.read \in DocOf
    /\ r.stage = "write" /\ r.op = "patch" => Skill!Hits(r.read.text, r.old) = 1

SkillDisk ==
    /\ docs \in [Dirs -> DocOf \cup {None}]
    /\ kits \in [Dirs -> SUBSET Rel] /\ active \in BOOLEAN

SkillCalls == call \in [Calls -> SkillCallOf \cup {None}] /\ \A c \in Calls : call[c] # None => CallSound(call[c])

SkillInv == SkillDisk /\ SkillCalls

LEMMA TextsAre == ASSUME SkillBounds, NEW t \in Skill!Texts PROVE t \in Seq(Marks) /\ DOMAIN t = 1..Len(t) /\ Len(t) \in 0..MaxText
<1>1. PICK n \in 0..MaxText : t \in [1..n -> Marks]  BY DEF Skill!Texts
<1>2. n \in Nat  BY <1>1 DEF SkillBounds
<1> QED  BY <1>1, <1>2

LEMMA DocsAre == ASSUME SkillBounds, NEW n \in Names, NEW m \in Marks PROVE Skill!Doc(n, <<m>>) \in DocOf /\ Skill!Doc(n, <<m, m>>) \in DocOf
<1>1. <<m>> \in [1..1 -> Marks] /\ <<m, m>> \in [1..2 -> Marks]  OBVIOUS
<1>2. 1 \in 0..MaxText /\ 2 \in 0..MaxText  BY DEF SkillBounds
<1>3. <<m>> \in Skill!Texts /\ <<m, m>> \in Skill!Texts  BY <1>1, <1>2 DEF Skill!Texts
<1> QED  BY <1>3 DEF Skill!Doc, DocOf

LEMMA SkillInitial == ASSUME SkillBounds, Skill!SkillsInit PROVE SkillInv
<1>1. docs \in [Dirs -> DocOf \cup {None}]
  BY DocsAre DEF Skill!SkillsInit
<1> QED  BY <1>1 DEF Skill!SkillsInit, SkillInv, SkillDisk, SkillCalls, SkillBounds

\* What a patch or a switch writes is a document, of the name it read.
LEMMA PatchedText ==
    ASSUME SkillBounds, NEW t \in Skill!Texts, NEW old \in Marks, NEW new \in Marks,
           old # new, Skill!Hits(t, old) = 1, NEW u \in [DOMAIN t -> Marks],
           \A n \in DOMAIN t : u[n] = IF t[n] = old THEN new ELSE t[n]
    PROVE  u \in Skill!Texts /\ Len(u) = Len(t) /\ Skill!Cardinality({n \in DOMAIN t : t[n] # u[n]}) = 1
<1>1. PICK k \in 0..MaxText : t \in [1..k -> Marks]  BY DEF Skill!Texts
<1>2. u \in [1..k -> Marks]  BY <1>1
<1>3. u \in Skill!Texts  BY <1>1, <1>2 DEF Skill!Texts
<1>4. k \in Nat  BY <1>1 DEF SkillBounds
<1>5. Len(u) = k /\ Len(t) = k  BY <1>1, <1>2, <1>4
<1>6. {n \in DOMAIN t : t[n] # u[n]} = {n \in DOMAIN t : t[n] = old}  OBVIOUS
<1> QED  BY <1>3, <1>5, <1>6 DEF Skill!Hits

LEMMA WrittenDoc ==
    ASSUME SkillBounds, NEW r, CallSound(r), r.stage = "write", r.op \in {"patch", "toggle", "update", "create"}
    PROVE  /\ Skill!Written(r) \in DocOf
           /\ r.op \in {"patch", "toggle"} =>
                LET old == r.read new == Skill!Written(r) IN
                /\ new.name = old.name /\ Len(new.text) = Len(old.text)
                /\ r.op = "toggle" => new.text = old.text
                /\ r.op = "patch" => Skill!Cardinality({n \in DOMAIN old.text : old.text[n] # new.text[n]}) = 1
<1>1. CASE r.op = "patch"
  <2>1. r.read \in DocOf /\ r.old \in Marks /\ r.new \in Marks /\ r.old # r.new /\ Skill!Hits(r.read.text, r.old) = 1
    BY <1>1 DEF CallSound
  <2>2. PICK t : t = r.read.text  OBVIOUS
  <2>3. PICK u : u = [n \in DOMAIN t |-> IF t[n] = r.old THEN r.new ELSE t[n]]  OBVIOUS
  <2>4. t \in Skill!Texts  BY <2>1, <2>2 DEF DocOf
  <2>a. Skill!Hits(t, r.old) = 1  BY <2>1, <2>2
  <2>b. r.old \in Marks /\ r.new \in Marks /\ r.old # r.new  BY <2>1
  <2>c. t \in [DOMAIN t -> Marks]  BY <2>4, TextsAre
  <2>d. u \in [DOMAIN t -> Marks] /\ \A n \in DOMAIN t : u[n] = IF t[n] = r.old THEN r.new ELSE t[n]
    BY <2>b, <2>c, <2>3
  <2>5. u \in Skill!Texts /\ Len(u) = Len(t) /\ Skill!Cardinality({n \in DOMAIN t : t[n] # u[n]}) = 1
    BY <2>a, <2>b, <2>d, <2>4, PatchedText
  <2>6. PICK w : w = Skill!Written(r)  OBVIOUS
  <2>7. w = [r.read EXCEPT !.text = u]  BY <1>1, <2>2, <2>3, <2>6 DEF Skill!Written
  <2>8. w \in DocOf /\ w.name = r.read.name /\ w.text = u  BY <2>1, <2>5, <2>7 DEF DocOf
  <2> QED  BY <1>1, <2>2, <2>5, <2>6, <2>8
<1>2. CASE r.op = "toggle"
  <2>1. r.read \in DocOf /\ r.on \in BOOLEAN  BY <1>2 DEF CallSound, SkillCallOf
  <2>2. PICK w : w = Skill!Written(r)  OBVIOUS
  <2>3. w = [r.read EXCEPT !.on = r.on]  BY <1>2, <2>2 DEF Skill!Written
  <2>4. w \in DocOf /\ w.name = r.read.name /\ w.text = r.read.text  BY <2>1, <2>3 DEF DocOf
  <2> QED  BY <1>2, <2>2, <2>4
<1>3. CASE r.op = "update"
  <2>1. r.name \in Names /\ r.new \in Marks  BY <1>3 DEF CallSound, ByName
  <2> QED  BY <1>3, <2>1, DocsAre DEF Skill!Written
<1>4. CASE r.op = "create"
  <2>1. Lower[r.name] \in Names /\ r.new \in Marks  BY <1>4 DEF CallSound, ByName, SkillBounds
  <2> QED  BY <1>4, <2>1, DocsAre DEF Skill!Written
<1> QED  BY <1>1, <1>2, <1>3, <1>4

\* A step on one call leaves the others as they are.
LEMMA CallsKeep ==
    ASSUME SkillCalls, NEW c \in Calls, NEW q \in SkillCallOf \cup {None}, q # None => CallSound(q),
           call' = [call EXCEPT ![c] = q]
    PROVE  SkillCalls'
<1>1. call' \in [Calls -> SkillCallOf \cup {None}]  BY DEF SkillCalls
<1>2. \A d \in Calls : call'[d] # None => CallSound(call'[d])  BY DEF SkillCalls
<1> QED  BY <1>1, <1>2 DEF SkillCalls, CallSound

LEMMA AskedIs ==
    ASSUME SkillBounds, NEW op \in ByName \cup {"toggle"}, NEW n \in Names \cup {None}
    PROVE  /\ Skill!Asked(op, n) \in SkillCallOf
           /\ LET r == Skill!Asked(op, n) IN r.op = op /\ r.name = n /\ r.stage = "list" /\ r.seen = {}
           /\ IsFiniteSet({})
  BY FS_EmptySet DEF Skill!Asked, SkillCallOf

LEMMA StartStep ==
    ASSUME SkillBounds, SkillInv, NEW c \in Calls,
           \/ \E n \in Names, m \in Marks, new \in Marks : m # new /\ Skill!Patch(c, n, m, new)
           \/ \E n \in Names, m \in Marks : Skill!Update(c, n, m) \/ Skill!Create(c, n, m)
           \/ \E n \in Names, f \in Rel : Skill!WriteFile(c, n, f) \/ Skill!RemoveFile(c, n, f)
           \/ \E n \in Names : Skill!DeleteTree(c, n)
           \/ \E d \in Dirs : Skill!Toggle(c, d)
    PROVE  SkillInv'
<1> USE DEF SkillInv
<1>0. UNCHANGED <<active, docs, kits>>
  BY DEF Skill!Patch, Skill!Update, Skill!Create, Skill!WriteFile, Skill!RemoveFile, Skill!DeleteTree, Skill!Toggle, Skill!Start
<1>1. SkillDisk'  BY <1>0 DEF SkillDisk
<1>2. ASSUME NEW q, CallSound(q), call' = [call EXCEPT ![c] = q] PROVE SkillCalls'
  BY <1>2, CallsKeep DEF CallSound
<1>3. ASSUME NEW n \in Names, NEW m \in Marks, NEW new \in Marks, m # new, Skill!Patch(c, n, m, new) PROVE SkillCalls'
  <2>1. PICK a : a = Skill!Asked("patch", n)  OBVIOUS
  <2>2. a \in SkillCallOf /\ a.op = "patch" /\ a.name = n /\ a.stage = "list" /\ IsFiniteSet(a.seen)  BY <2>1, AskedIs DEF ByName
  <2>3. PICK q : q = [a EXCEPT !.old = m, !.new = new]  OBVIOUS
  <2>4. q \in SkillCallOf /\ q.op = "patch" /\ q.name = n /\ q.stage = "list" /\ IsFiniteSet(q.seen) /\ q.old = m /\ q.new = new
    BY <2>2, <2>3 DEF SkillCallOf
  <2>5. CallSound(q)  BY <1>3, <2>4 DEF CallSound, ByName
  <2> QED  BY <1>2, <1>3, <2>1, <2>3, <2>5 DEF Skill!Patch
<1>4. ASSUME NEW n \in Names, NEW m \in Marks, Skill!Update(c, n, m) PROVE SkillCalls'
  <2>1. PICK a : a = Skill!Asked("update", n)  OBVIOUS
  <2>2. a \in SkillCallOf /\ a.op = "update" /\ a.name = n /\ a.stage = "list" /\ IsFiniteSet(a.seen)  BY <2>1, AskedIs DEF ByName
  <2>3. PICK q : q = [a EXCEPT !.new = m]  OBVIOUS
  <2>4. q \in SkillCallOf /\ q.op = "update" /\ q.name = n /\ q.stage = "list" /\ IsFiniteSet(q.seen) /\ q.new = m
    BY <2>2, <2>3 DEF SkillCallOf
  <2>5. CallSound(q)  BY <2>4 DEF CallSound, ByName
  <2> QED  BY <1>2, <1>4, <2>1, <2>3, <2>5 DEF Skill!Update
<1>5. ASSUME NEW n \in Names, NEW m \in Marks, Skill!Create(c, n, m) PROVE SkillCalls'
  <2>1. PICK a : a = Skill!Asked("create", n)  OBVIOUS
  <2>2. a \in SkillCallOf /\ a.op = "create" /\ a.name = n /\ IsFiniteSet(a.seen)  BY <2>1, AskedIs DEF ByName
  <2>3. PICK q : q = [a EXCEPT !.new = m, !.dir = SlugOf[n], !.stage = "write"]  OBVIOUS
  <2>4. q \in SkillCallOf /\ q.op = "create" /\ q.name = n /\ IsFiniteSet(q.seen) /\ q.stage = "write" /\ q.new = m /\ q.dir \in Dirs
    BY <2>2, <2>3 DEF SkillCallOf, SkillBounds
  <2>5. CallSound(q)  BY <2>4 DEF CallSound, ByName
  <2> QED  BY <1>2, <1>5, <2>1, <2>3, <2>5 DEF Skill!Create
<1>6. ASSUME NEW n \in Names, NEW f \in Rel, Skill!WriteFile(c, n, f) PROVE SkillCalls'
  <2>1. PICK a : a = Skill!Asked("write", n)  OBVIOUS
  <2>2. a \in SkillCallOf /\ a.op = "write" /\ a.name = n /\ a.stage = "list" /\ IsFiniteSet(a.seen)  BY <2>1, AskedIs DEF ByName
  <2>3. PICK q : q = [a EXCEPT !.rel = f]  OBVIOUS
  <2>4. q \in SkillCallOf /\ q.op = "write" /\ q.name = n /\ q.stage = "list" /\ IsFiniteSet(q.seen) /\ q.rel = f
    BY <2>2, <2>3 DEF SkillCallOf
  <2>5. CallSound(q)  BY <2>4 DEF CallSound, ByName
  <2> QED  BY <1>2, <1>6, <2>1, <2>3, <2>5 DEF Skill!WriteFile
<1>7. ASSUME NEW n \in Names, NEW f \in Rel, Skill!RemoveFile(c, n, f) PROVE SkillCalls'
  <2>1. PICK a : a = Skill!Asked("remove", n)  OBVIOUS
  <2>2. a \in SkillCallOf /\ a.op = "remove" /\ a.name = n /\ a.stage = "list" /\ IsFiniteSet(a.seen)  BY <2>1, AskedIs DEF ByName
  <2>3. PICK q : q = [a EXCEPT !.rel = f]  OBVIOUS
  <2>4. q \in SkillCallOf /\ q.op = "remove" /\ q.name = n /\ q.stage = "list" /\ IsFiniteSet(q.seen)
    BY <2>2, <2>3 DEF SkillCallOf
  <2>5. CallSound(q)  BY <2>4 DEF CallSound, ByName
  <2> QED  BY <1>2, <1>7, <2>1, <2>3, <2>5 DEF Skill!RemoveFile
<1>8. ASSUME NEW n \in Names, Skill!DeleteTree(c, n) PROVE SkillCalls'
  <2>1. PICK a : a = Skill!Asked("delete", n)  OBVIOUS
  <2>2. a \in SkillCallOf /\ a.op = "delete" /\ a.name = n /\ a.stage = "list" /\ IsFiniteSet(a.seen)  BY <2>1, AskedIs DEF ByName
  <2>3. CallSound(a)  BY <2>2 DEF CallSound, ByName
  <2> QED  BY <1>2, <1>8, <2>1, <2>3 DEF Skill!DeleteTree
<1>9. ASSUME NEW d \in Dirs, Skill!Toggle(c, d) PROVE SkillCalls'
  <2>0. docs[d] \in DocOf /\ docs[d].on \in BOOLEAN  BY <1>9 DEF Skill!Toggle, SkillDisk, DocOf
  <2>1. PICK a : a = Skill!Asked("toggle", None)  OBVIOUS
  <2>2. a \in SkillCallOf /\ a.op = "toggle" /\ IsFiniteSet(a.seen)  BY <2>1, AskedIs DEF ByName
  <2>3. PICK q : q = [a EXCEPT !.dir = d, !.on = ~docs[d].on, !.stage = "read"]  OBVIOUS
  <2>4. q \in SkillCallOf /\ q.op = "toggle" /\ IsFiniteSet(q.seen) /\ q.stage = "read" /\ q.dir = d
    BY <2>0, <2>2, <2>3, ZenonT(30) DEF SkillCallOf
  <2>5. CallSound(q)  BY <2>4 DEF CallSound, ByName
  <2> QED  BY <1>2, <1>9, <2>1, <2>3, <2>5 DEF Skill!Toggle
<1> QED  BY <1>1, <1>3, <1>4, <1>5, <1>6, <1>7, <1>8, <1>9

LEMMA EndsKeep == ASSUME SkillCalls, NEW c \in Calls, Skill!Ends(c) PROVE SkillCalls'
  BY CallsKeep DEF Skill!Ends

\* resolveSkill answers with a skill that was read and is meant.
LEMMA ResolvedMeant ==
    ASSUME NEW seen \in SUBSET SeenOf, IsFiniteSet(seen), NEW n, NEW s \in Skill!Resolved(seen, n)
    PROVE  s \in SeenOf /\ Meant(s, seen, n)
<1>1. CASE s.name = n  BY <1>1 DEF Skill!Resolved, Skill!CaseLess, Meant
<1>2. CASE s.name # n
  <2>1. PICK X : X = Skill!CaseLess(seen, n)  OBVIOUS
  <2>2. Skill!Cardinality(X) = 1 /\ s \in X  BY <1>2, <2>1 DEF Skill!Resolved
  <2>3. X \in SUBSET seen  BY <2>1 DEF Skill!CaseLess
  <2>4. Cardinality(X) = 1  BY <2>2 DEF Skill!Cardinality, Cardinality
  <2>5. IsFiniteSet(X)  BY <2>3, FS_Subset
  <2>6. X = {s}  BY <2>2, <2>4, <2>5, FS_Singleton
  <2> QED  BY <2>1, <2>2, <2>3, <2>6 DEF Meant
<1> QED  BY <1>1, <1>2

LEMMA ListStep == ASSUME SkillBounds, SkillInv, NEW c \in Calls, Skill!ListFiles(c) PROVE SkillInv'
<1> USE DEF SkillInv
<1>1. SkillDisk'  BY DEF Skill!ListFiles, SkillDisk
<1>2. CASE Skill!Ends(c)  BY <1>1, <1>2, EndsKeep
<1>3. CASE ~Skill!Ends(c)
  <2>1. CallSound(call[c]) /\ call[c].stage = "list" /\ call[c] \in SkillCallOf
    BY DEF SkillCalls, Skill!ListFiles, CallSound
  <2>2. PICK there \in SUBSET Dirs : call' = [call EXCEPT ![c].left = there, ![c].stage = "look"]
    BY <1>3 DEF Skill!ListFiles
  <2>3. PICK q : q = [call[c] EXCEPT !.left = there, !.stage = "look"]  OBVIOUS
  <2>4. /\ q \in SkillCallOf /\ q.stage = "look" /\ q.op = call[c].op /\ q.name = call[c].name
        /\ q.old = call[c].old /\ q.new = call[c].new /\ q.rel = call[c].rel /\ q.seen = call[c].seen
    BY <2>1, <2>2, <2>3 DEF SkillCallOf
  <2>5. CallSound(q)  BY <2>1, <2>4 DEF CallSound
  <2>6. call' = [call EXCEPT ![c] = q]  BY <2>2, <2>3 DEF SkillCalls
  <2> QED  BY <1>1, <2>4, <2>5, <2>6, CallsKeep
<1> QED  BY <1>2, <1>3

LEMMA LookStep == ASSUME SkillBounds, SkillInv, NEW c \in Calls, Skill!Look(c) PROVE SkillInv'
<1> USE DEF SkillInv
<1>1. SkillDisk'  BY DEF Skill!Look, SkillDisk
<1>2. CASE Skill!Ends(c)  BY <1>1, <1>2, EndsKeep
<1>3. CASE ~Skill!Ends(c)
  <2>0. CallSound(call[c]) /\ call[c].stage = "look" /\ call[c] \in SkillCallOf
    BY DEF SkillCalls, Skill!Look, CallSound
  <2>1. PICK d \in call[c].left :
            LET found == IF docs[d] = None THEN {} ELSE {[dir |-> d, name |-> docs[d].name]}
                seen == call[c].seen \cup found
            IN  IF call[c].left = {d} THEN Skill!Resolve(c, seen)
                ELSE call' = [call EXCEPT ![c].left = @ \ {d}, ![c].seen = seen]
    BY DEF Skill!Look
  <2>2. d \in Dirs  BY <2>0, <2>1 DEF SkillCallOf
  <2>3. PICK found : found = IF docs[d] = None THEN {} ELSE {[dir |-> d, name |-> docs[d].name]}  OBVIOUS
  <2>4. found \in SUBSET SeenOf
    <3>1. docs[d] # None => docs[d].name \in Names  BY <2>2 DEF SkillDisk, DocOf
    <3> QED  BY <2>2, <2>3, <3>1 DEF SeenOf
  <2>5. IsFiniteSet(found)  BY <2>3, FS_EmptySet, FS_Singleton
  <2>6. PICK seen : seen = call[c].seen \cup found  OBVIOUS
  <2>7. seen \in SUBSET SeenOf  BY <2>0, <2>4, <2>6 DEF SkillCallOf
  <2>8. IsFiniteSet(seen)  BY <2>0, <2>5, <2>6, FS_Union DEF CallSound
  <2>9. CASE call[c].left = {d}
    <3>1. Skill!Resolve(c, seen)  BY <2>1, <2>3, <2>6, <2>9
    <3>2. PICK s \in Skill!Resolved(seen, call[c].name) : Skill!GoTo(c, s, seen)  BY <1>3, <3>1 DEF Skill!Resolve
    <3>3. s \in SeenOf /\ Meant(s, seen, call[c].name)  BY <2>7, <2>8, <3>2, ResolvedMeant
    <3>4. PICK e : e = s.dir  OBVIOUS
    <3>5. e \in Dirs  BY <3>3, <3>4 DEF SeenOf
    <3>6. PICK t : t = IF call[c].op = "patch" THEN "read" ELSE "write"  OBVIOUS
    <3>7. PICK q : q = [call[c] EXCEPT !.dir = e, !.left = {}, !.seen = seen, !.stage = t]  OBVIOUS
    <3>8. /\ q \in SkillCallOf /\ q.dir = e /\ q.stage = t /\ q.op = call[c].op /\ q.name = call[c].name
          /\ q.old = call[c].old /\ q.new = call[c].new /\ q.rel = call[c].rel /\ q.seen = seen
      BY <2>0, <2>7, <3>5, <3>6, <3>7, ZenonT(30) DEF SkillCallOf
    <3>9. CallSound(q)  BY <2>0, <2>8, <3>3, <3>4, <3>5, <3>6, <3>8 DEF CallSound
    <3>10. call' = [call EXCEPT ![c] = q]  BY <3>2, <3>4, <3>6, <3>7 DEF Skill!GoTo, SkillCalls
    <3> QED  BY <1>1, <3>8, <3>9, <3>10, CallsKeep
  <2>10. CASE call[c].left # {d}
    <3>1. PICK left : left = call[c].left \ {d}  OBVIOUS
    <3>2. call' = [call EXCEPT ![c].left = left, ![c].seen = seen]  BY <2>1, <2>3, <2>6, <2>10, <3>1
    <3>3. PICK q : q = [call[c] EXCEPT !.left = left, !.seen = seen]  OBVIOUS
    <3>4. left \in SUBSET Dirs  BY <2>0, <3>1 DEF SkillCallOf
    <3>5. /\ q \in SkillCallOf /\ q.stage = "look" /\ q.op = call[c].op /\ q.name = call[c].name
          /\ q.old = call[c].old /\ q.new = call[c].new /\ q.rel = call[c].rel /\ q.seen = seen
      BY <2>0, <2>7, <3>3, <3>4 DEF SkillCallOf
    <3>6. CallSound(q)  BY <2>0, <2>8, <3>5 DEF CallSound
    <3>7. call' = [call EXCEPT ![c] = q]  BY <3>2, <3>3 DEF SkillCalls
    <3> QED  BY <1>1, <3>5, <3>6, <3>7, CallsKeep
  <2> QED  BY <2>9, <2>10
<1> QED  BY <1>2, <1>3

LEMMA ReadStep == ASSUME SkillBounds, SkillInv, NEW c \in Calls, Skill!Read(c) PROVE SkillInv'
<1> USE DEF SkillInv
<1>1. SkillDisk'  BY DEF Skill!Read, SkillDisk
<1>2. CASE Skill!Ends(c)  BY <1>1, <1>2, EndsKeep
<1>3. CASE ~Skill!Ends(c)
  <2>0. CallSound(call[c]) /\ call[c].stage = "read" /\ call[c] \in SkillCallOf /\ call[c].dir \in Dirs
    BY DEF SkillCalls, Skill!Read, CallSound
  <2>1. PICK doc : doc = docs[call[c].dir]  OBVIOUS
  <2>2. /\ doc # None /\ (call[c].op = "patch" => Skill!Hits(doc.text, call[c].old) = 1)
        /\ call' = [call EXCEPT ![c].read = doc, ![c].stage = "write"]
    BY <1>3, <2>1 DEF Skill!Read
  <2>3. doc \in DocOf  BY <2>0, <2>1, <2>2 DEF SkillDisk
  <2>4. PICK q : q = [call[c] EXCEPT !.read = doc, !.stage = "write"]  OBVIOUS
  <2>5. /\ q \in SkillCallOf /\ q.dir = call[c].dir /\ q.stage = "write" /\ q.op = call[c].op /\ q.name = call[c].name
        /\ q.old = call[c].old /\ q.new = call[c].new /\ q.rel = call[c].rel /\ q.read = doc /\ q.seen = call[c].seen
    BY <2>0, <2>3, <2>4 DEF SkillCallOf
  <2>6. CallSound(q)  BY <2>0, <2>2, <2>3, <2>5 DEF CallSound
  <2>7. call' = [call EXCEPT ![c] = q]  BY <2>2, <2>4 DEF SkillCalls
  <2> QED  BY <1>1, <2>5, <2>6, <2>7, CallsKeep
<1> QED  BY <1>2, <1>3

LEMMA WriteMdStep == ASSUME SkillBounds, SkillInv, NEW c \in Calls, Skill!WriteMd(c) PROVE SkillInv'
<1> USE DEF SkillInv
<1>0. CallSound(call[c]) /\ call[c].dir \in Dirs /\ call[c].stage = "write" /\ call[c].op \in {"patch", "toggle", "update", "create"}
  BY DEF SkillCalls, Skill!WriteMd, CallSound
<1>1. PICK w : w = Skill!Written(call[c])  OBVIOUS
<1>2. w \in DocOf  BY <1>0, <1>1, WrittenDoc
<1>3. docs' = docs \/ docs' = [docs EXCEPT ![call[c].dir] = w]  BY <1>1 DEF Skill!WriteMd
<1>4. SkillDisk'  BY <1>0, <1>2, <1>3 DEF SkillDisk, Skill!WriteMd
<1>5. SkillCalls'  BY EndsKeep DEF Skill!WriteMd
<1> QED  BY <1>4, <1>5

LEMMA WriteRestStep == ASSUME SkillBounds, SkillInv, NEW c \in Calls, Skill!WriteRest(c) PROVE SkillInv'
<1> USE DEF SkillInv
<1>0. CallSound(call[c]) /\ call[c].dir \in Dirs /\ call[c].op \in {"write", "remove", "delete"}
      /\ (call[c].op = "write" => call[c].rel \in Rel)
  BY DEF SkillCalls, Skill!WriteRest, CallSound
<1>1. kits' \in [Dirs -> SUBSET Rel] /\ docs' \in [Dirs -> DocOf \cup {None}]
  <2>1. CASE ~active  BY <2>1 DEF Skill!WriteRest, SkillDisk
  <2>2. CASE active
    <3>1. docs' \in [Dirs -> DocOf \cup {None}]  BY <1>0, <2>2 DEF Skill!WriteRest, SkillDisk
    <3>2. PICK d : d = call[c].dir  OBVIOUS
    <3>3. kits' = [kits EXCEPT ![d] = CASE call[c].op = "write" -> kits[d] \cup {call[c].rel}
                                        [] call[c].op = "remove" -> kits[d] \ {call[c].rel}
                                        [] call[c].op = "delete" -> {}]
      BY <1>0, <2>2, <3>2 DEF Skill!WriteRest, SkillDisk
    <3>4. kits[d] \in SUBSET Rel  BY <1>0, <3>2 DEF SkillDisk
    <3> QED  BY <1>0, <3>1, <3>3, <3>4 DEF SkillDisk
  <2> QED  BY <2>1, <2>2
<1>2. SkillDisk'  BY <1>1 DEF SkillDisk, Skill!WriteRest
<1>3. SkillCalls'  BY EndsKeep DEF Skill!WriteRest
<1> QED  BY <1>2, <1>3

LEMMA SkillUserStep ==
    ASSUME SkillBounds, SkillInv,
           \/ \E d \in Dirs, n \in Names, m \in Marks : Skill!UserWrites(d, n, m)
           \/ \E d \in Dirs : Skill!PageDeletes(d)
           \/ Skill!SwitchFolder
    PROVE  SkillInv'
<1> USE DEF SkillInv
<1>1. call' = call /\ kits' = kits /\ active' \in BOOLEAN
  BY DEF Skill!UserWrites, Skill!PageDeletes, Skill!SwitchFolder, SkillDisk
<1>2. docs' \in [Dirs -> DocOf \cup {None}]
  BY DocsAre DEF Skill!UserWrites, Skill!PageDeletes, Skill!SwitchFolder, SkillDisk
<1>3. SkillDisk'  BY <1>1, <1>2 DEF SkillDisk
<1>4. SkillCalls'  BY <1>1 DEF SkillCalls, CallSound
<1> QED  BY <1>3, <1>4

LEMMA SkillStep == ASSUME SkillBounds, SkillInv, [Skill!SkillsNext]_(Skill!skillVars) PROVE SkillInv'
<1>1. CASE UNCHANGED Skill!skillVars
  BY <1>1 DEF Skill!skillVars, SkillInv, SkillDisk, SkillCalls, CallSound
<1> QED  BY <1>1, StartStep, ListStep, LookStep, ReadStep, WriteMdStep, WriteRestStep, SkillUserStep DEF Skill!SkillsNext, Skill!CallStep


LEMMA SkillInvariance == ASSUME SkillBounds PROVE Skill!SkillsSpec => []SkillInv
<1>1. Skill!SkillsInit => SkillInv  BY SkillInitial
<1>2. SkillInv /\ [Skill!SkillsNext]_(Skill!skillVars) => SkillInv'  BY SkillStep
<1> QED  BY <1>1, <1>2, PTL DEF Skill!SkillsSpec

\* Which step it was that moved a call, or ended one and wrote.
LEMMA SkillStepOf ==
    ASSUME SkillInv, [Skill!SkillsNext]_(Skill!skillVars), NEW c \in Calls, call[c] # None
    PROVE  /\ call'[c] = call[c] \/ Skill!CallStep(c)
           /\ call'[c] = None /\ (docs' # docs \/ kits' # kits) => Skill!WriteMd(c) \/ Skill!WriteRest(c)
<1>0. call \in [Calls -> SkillCallOf \cup {None}]  BY DEF SkillInv, SkillCalls
<1>1. CASE UNCHANGED Skill!skillVars  BY <1>1 DEF Skill!skillVars
<1>2. ASSUME NEW b \in Calls, Skill!CallStep(b) PROVE b = c \/ call'[c] = call[c]
  BY <1>0, <1>2 DEF Skill!CallStep, Skill!ListFiles, Skill!Look, Skill!Resolve, Skill!GoTo, Skill!Read, Skill!WriteMd, Skill!WriteRest, Skill!Ends
<1>3. ASSUME NEW b \in Calls, Skill!Start(b), NEW q, call' = [call EXCEPT ![b] = q] PROVE call'[c] = call[c]
  BY <1>0, <1>3 DEF Skill!Start
<1>4. ASSUME NEW b \in Calls, NEW n \in Names, NEW m \in Marks, NEW new \in Marks, NEW f \in Rel, NEW d \in Dirs,
             \/ Skill!Patch(b, n, m, new) \/ Skill!Update(b, n, m) \/ Skill!Create(b, n, m) \/ Skill!WriteFile(b, n, f)
             \/ Skill!RemoveFile(b, n, f) \/ Skill!DeleteTree(b, n) \/ Skill!Toggle(b, d)
      PROVE  call'[c] = call[c]
  BY <1>3, <1>4 DEF Skill!Patch, Skill!Update, Skill!Create, Skill!WriteFile, Skill!RemoveFile, Skill!DeleteTree, Skill!Toggle
<1>5. ASSUME NEW b \in Calls,
             \/ \E n \in Names, m \in Marks, new \in Marks : m # new /\ Skill!Patch(b, n, m, new)
             \/ \E n \in Names, m \in Marks : Skill!Update(b, n, m) \/ Skill!Create(b, n, m)
             \/ \E n \in Names, f \in Rel : Skill!WriteFile(b, n, f) \/ Skill!RemoveFile(b, n, f)
             \/ \E n \in Names : Skill!DeleteTree(b, n)
             \/ \E d \in Dirs : Skill!Toggle(b, d)
      PROVE  call'[c] = call[c]
  BY <1>3, <1>5 DEF Skill!Patch, Skill!Update, Skill!Create, Skill!WriteFile, Skill!RemoveFile, Skill!DeleteTree, Skill!Toggle
<1>6. ASSUME \/ \E d \in Dirs, n \in Names, m \in Marks : Skill!UserWrites(d, n, m)
             \/ \E d \in Dirs : Skill!PageDeletes(d)
             \/ Skill!SwitchFolder
      PROVE  call'[c] = call[c]
  BY <1>6 DEF Skill!UserWrites, Skill!PageDeletes, Skill!SwitchFolder
<1>7. call'[c] = call[c] \/ Skill!CallStep(c)
  BY <1>1, <1>2, <1>5, <1>6 DEF Skill!SkillsNext
<1>8. ASSUME call'[c] = None, docs' # docs \/ kits' # kits PROVE Skill!WriteMd(c) \/ Skill!WriteRest(c)
  BY <1>7, <1>8 DEF Skill!CallStep, Skill!ListFiles, Skill!Look, Skill!Read
<1> QED  BY <1>7, <1>8

LEMMA MeantHere == ASSUME SkillBounds, SkillInv, [Skill!SkillsNext]_(Skill!skillVars) PROVE Skill!MeantOne
<1> SUFFICES ASSUME NEW c \in Calls, NEW d \in Dirs, call[c] # None, call'[c] = None,
                    call[c].op \notin {"toggle", "create"}, docs'[d] # docs[d] \/ kits'[d] # kits[d]
             PROVE  \E s \in call[c].seen :
                       /\ s.dir = d
                       /\ s.name = call[c].name \/ Skill!CaseLess(call[c].seen, call[c].name) = {s}
  BY DEF Skill!MeantOne
<1>1. Skill!WriteMd(c) \/ Skill!WriteRest(c)  BY SkillStepOf
<1>2. CallSound(call[c]) /\ call[c] \in SkillCallOf  BY DEF SkillInv, SkillCalls, CallSound
<1>3. call[c].stage = "write" /\ call[c].op \in ByName \ {"create"}
  BY <1>1, <1>2 DEF Skill!WriteMd, Skill!WriteRest, SkillCallOf
<1>4. d = call[c].dir
  BY <1>1, <1>2, <1>3 DEF Skill!WriteMd, Skill!WriteRest, SkillInv, SkillDisk
<1>5. PICK s \in SeenOf : s.dir = call[c].dir /\ Meant(s, call[c].seen, call[c].name)  BY <1>2, <1>3 DEF CallSound
<1> QED  BY <1>4, <1>5 DEF Meant

LEMMA PartHere == ASSUME SkillBounds, SkillInv, [Skill!SkillsNext]_(Skill!skillVars) PROVE Skill!OnlyItsPart
<1> SUFFICES ASSUME NEW c \in Calls, call[c] # None, call'[c] = None, docs' # docs, call[c].op \in {"patch", "toggle"}
             PROVE  LET old == call[c].read new == docs'[call[c].dir] IN
                    /\ new.name = old.name /\ Len(new.text) = Len(old.text)
                    /\ call[c].op = "toggle" => new.text = old.text
                    /\ call[c].op = "patch" =>
                         Skill!Cardinality({n \in DOMAIN old.text : old.text[n] # new.text[n]}) = 1
  BY DEF Skill!OnlyItsPart
<1>1. Skill!WriteMd(c)  BY SkillStepOf DEF Skill!WriteRest
<1>2. CallSound(call[c]) /\ call[c].stage = "write" /\ call[c].dir \in Dirs
  BY <1>1 DEF SkillInv, SkillCalls, Skill!WriteMd, CallSound
<1>3. docs'[call[c].dir] = Skill!Written(call[c])  BY <1>1, <1>2 DEF Skill!WriteMd, SkillInv, SkillDisk
<1>4. LET old == call[c].read new == Skill!Written(call[c]) IN
      /\ new.name = old.name /\ Len(new.text) = Len(old.text)
      /\ call[c].op = "toggle" => new.text = old.text
      /\ call[c].op = "patch" => Skill!Cardinality({n \in DOMAIN old.text : old.text[n] # new.text[n]}) = 1
  BY <1>2, WrittenDoc
<1> QED  BY <1>3, <1>4

\* A call by name changes no folder but that of a skill which, as the lookup of
\* the call had read it (loadSkills, one awaited read after the other), bears the
\* name as written, or is the only one to answer to it (resolveSkill), whatever the
\* other calls, the page and the user write between the reads and before the write.
THEOREM TheSkillMeant ==
    ASSUME SkillBounds
    PROVE  Skill!SkillsSpec => [][Skill!MeantOne]_(Skill!skillVars)
<1>1. SkillInv /\ [Skill!SkillsNext]_(Skill!skillVars) => Skill!MeantOne  BY MeantHere
<1> QED  BY <1>1, SkillInvariance, PTL DEF Skill!SkillsSpec

\* A patch writes a text in which one piece of what it read is another, and a
\* switch the flag alone (patchSkill, setSkillEnabled): a call that finds its
\* piece twice, or not, writes nothing.
THEOREM OnePieceWritten ==
    ASSUME SkillBounds
    PROVE  Skill!SkillsSpec => [][Skill!OnlyItsPart]_(Skill!skillVars)
<1>1. SkillInv /\ [Skill!SkillsNext]_(Skill!skillVars) => Skill!OnlyItsPart  BY PartHere
<1> QED  BY <1>1, SkillInvariance, PTL DEF Skill!SkillsSpec

\* A folder holds a skill file of its type or none, and the supporting files are
\* of those there are.
THEOREM SkillTypes == ASSUME SkillBounds PROVE Skill!SkillsSpec => []Skill!SkillsTypeOK
<1>1. SkillInv => Skill!SkillsTypeOK  BY DEF SkillInv, SkillDisk, Skill!SkillsTypeOK, DocOf
<1> QED  BY <1>1, SkillInvariance, PTL

-----------------------------------------------------------------------------
(* ModelRoutes, for any providers, models, tasks and rows. *)

ProvOf == Providers \cup {None}
PairOf == [prov : ProvOf, model : Routes!Models \cup {None}, chosen : BOOLEAN]
RowOf == [prov : ProvOf, model : Routes!Models \cup {None}]
AuxEditOf == [slot : Slots, at : Providers, pair : PairOf \cup {None}]
AskOf == [asked : SUBSET Providers, gen : Nat]

\* There are finitely many providers, each with finitely many models; None is
\* no provider, no model, no pin and no row.
RoutesBounds ==
    /\ IsFiniteSet(Providers) /\ \A p \in Providers : IsFiniteSet(Own[p])
    /\ None \notin Providers /\ None \notin Routes!Models /\ None \notin PairOf /\ None \notin AuxEditOf

\* A pin whose provider was chosen has one, and names one of its models.
PairSound(r) == r.chosen => r.prov \in Providers /\ Routes!Owned(r)
RowSound(r) == r.model # None /\ r.prov # None => Routes!Owned(r)

RoutesNet ==
    /\ active \in Providers /\ urls \in SUBSET Providers /\ gen \in Nat
    /\ fetches \in SUBSET AskOf

CatalogsOwn == DOMAIN catalog = Providers /\ \A p \in Providers : catalog[p] \in Seq(Own[p] \cup Handmade)

AuxFits == aux \in [Slots -> PairOf \cup {None}] /\ \A k \in Slots : aux[k] # None => PairSound(aux[k])
RowsFit == fallbacks \in Seq(RowOf) /\ \A n \in DOMAIN fallbacks : RowSound(fallbacks[n])
EditFits ==
    /\ auxEdit \in AuxEditOf \cup {None}
    /\ auxEdit # None /\ auxEdit.pair # None => PairSound(auxEdit.pair)

RoutesPins == AuxFits /\ RowsFit /\ EditFits

RoutesPick == pick \in RowOf

RoutesInv == RoutesNet /\ CatalogsOwn /\ RoutesPins /\ RoutesPick

LEMMA OwnsModels ==
    ASSUME NEW p \in Providers
    PROVE  Own[p] \cup Handmade \subseteq Routes!Models
  BY DEF Routes!Models

\* What a server reports are models of its own.
LEMMA ReportsOwn ==
    ASSUME RoutesBounds, NEW p \in Providers, NEW r \in Routes!Reports(p)
    PROVE  r \in Seq(Own[p])
<1>1. CASE r = <<>>  BY <1>1
<1>2. CASE r # <<>>
  <2>1. PICK s \in SUBSET Own[p] : r \in Routes!SetToSeqs(s)
    BY <1>2 DEF Routes!Reports, Routes!SetToAllKPermutations
  <2>2. IsFiniteSet(s)  BY <2>1, FS_Subset DEF RoutesBounds
  <2>3. Routes!Cardinality(s) \in Nat  BY <2>2, FS_CardinalityType DEF Routes!Cardinality, Cardinality
  <2>4. r \in [1..Routes!Cardinality(s) -> s]  BY <2>1 DEF Routes!SetToSeqs
  <2>5. PICK n \in Nat : n = Routes!Cardinality(s)  BY <2>3
  <2> QED  BY <2>1, <2>4, <2>5
<1> QED  BY <1>1, <1>2

LEMMA ModelsListed ==
    ASSUME NEW p \in Providers, CatalogsOwn, NEW m \in Routes!ToSet(catalog[p])
    PROVE  m \in Own[p] \cup Handmade /\ m \in Routes!Models
<1>1. catalog[p] \in Seq(Own[p] \cup Handmade)  BY DEF CatalogsOwn
<1>2. m \in Own[p] \cup Handmade  BY <1>1 DEF Routes!ToSet
<1> QED  BY <1>2, OwnsModels

LEMMA RoutesInitial == ASSUME RoutesBounds, Routes!RoutesInit PROVE RoutesInv
  BY DEF Routes!RoutesInit, RoutesInv, RoutesNet, CatalogsOwn, RoutesPins, AuxFits, RowsFit, EditFits, RoutesPick, RowOf, ProvOf

\* A set of finite sets has one with no other of them inside.
LEMMA SmallestOf ==
    ASSUME NEW S, IsFiniteSet(S), NEW B \in SUBSET (SUBSET S), B # {}
    PROVE  \E U \in B : \A V \in B : V \subseteq U => V = U
<1>1. IsWellFoundedOn(StrictSubsetOrdering(S), SUBSET S)
  BY FS_StrictSubsetOrderingWellFounded, FS_FiniteSubsetsOfFinite
<1>2. PICK U \in B : \A V \in B : <<V, U>> \notin StrictSubsetOrdering(S)
  BY <1>1, WFMin
<1>3. ASSUME NEW V \in B, V \subseteq U PROVE V = U
  BY <1>2, <1>3 DEF StrictSubsetOrdering
<1> QED  BY <1>2, <1>3

\* What a pick m becomes when the catalogues of the providers told land.
HealedBy(told, cats, m, a) ==
    LET after[S \in SUBSET told] ==
            IF S = {} THEN m
            ELSE LET p == CHOOSE p \in S : TRUE
                 IN  Routes!Heal(cats[p], after[S \ {p}], p = a)
    IN  after[told]

\* The catalogues that land heal the pick one after the other, in whatever order
\* the providers are taken: only the one of the active provider counts.
LEMMA HealedByOwn ==
    ASSUME NEW told, IsFiniteSet(told), NEW cats, NEW m, NEW a
    PROVE  HealedBy(told, cats, m, a) = IF a \in told THEN Routes!Heal(cats[a], m, TRUE) ELSE m
<1> DEFINE P(S) == CHOOSE p \in S : TRUE
           g == [S \in SUBSET told |-> IF a \in S THEN Routes!Heal(cats[a], m, TRUE) ELSE m]
           after[S \in SUBSET told] ==
               IF S = {} THEN m
               ELSE LET p == CHOOSE p \in S : TRUE
                    IN  Routes!Heal(cats[p], after[S \ {p}], p = a)
<1>1. \A x, y : Routes!Heal(x, y, FALSE) = y  BY DEF Routes!Heal
<1>2. g = [S \in SUBSET told |-> IF S = {} THEN m ELSE Routes!Heal(cats[P(S)], g[S \ {P(S)}], P(S) = a)]
  <2>1. ASSUME NEW S \in SUBSET told, S # {}
        PROVE  g[S] = Routes!Heal(cats[P(S)], g[S \ {P(S)}], P(S) = a)
    <3>1. P(S) \in S  BY <2>1
    <3> HIDE DEF P
    <3>2. S \ {P(S)} \in SUBSET told  OBVIOUS
    <3>3. CASE P(S) = a
      <4>1. g[S \ {P(S)}] = m  BY <3>2, <3>3
      <4>2. g[S] = Routes!Heal(cats[a], m, TRUE)  BY <3>1, <3>3
      <4> QED  BY <3>3, <4>1, <4>2
    <3>4. CASE P(S) # a
      <4>1. g[S \ {P(S)}] = g[S]  BY <3>2, <3>4
      <4>2. (P(S) = a) = FALSE  BY <3>4
      <4> QED  BY <1>1, <4>1, <4>2
    <3> QED  BY <3>3, <3>4
  <2>2. \A S \in SUBSET told : g[S] = IF S = {} THEN m ELSE Routes!Heal(cats[P(S)], g[S \ {P(S)}], P(S) = a)
    BY <2>1
  <2> QED  BY <2>2
<1>3. after = [S \in SUBSET told |-> IF S = {} THEN m ELSE Routes!Heal(cats[P(S)], after[S \ {P(S)}], P(S) = a)]
  <2>1. after = CHOOSE h : h = [S \in SUBSET told |-> IF S = {} THEN m ELSE Routes!Heal(cats[P(S)], h[S \ {P(S)}], P(S) = a)]
    OBVIOUS
  <2> HIDE DEF after, g, P
  <2> QED  BY <1>2, <2>1
<1> HIDE DEF after
<1>4. \A S \in SUBSET told : after[S] = g[S]
  <2> DEFINE B == {S \in SUBSET told : after[S] # g[S]}
  <2>1. SUFFICES ASSUME B # {} PROVE FALSE  OBVIOUS
  <2>2. B \in SUBSET (SUBSET told)  OBVIOUS
  <2>3. PICK U \in B : \A V \in B : V \subseteq U => V = U
    <3> HIDE DEF B
    <3> QED  BY <2>1, <2>2, SmallestOf
  <2>4. U \in SUBSET told /\ U # {}  BY <1>3, <2>3
  <2>5. P(U) \in U  BY <2>4
  <2>6. after[U] = Routes!Heal(cats[P(U)], after[U \ {P(U)}], P(U) = a)  BY <1>3, <2>4
  <2>7. g[U] = Routes!Heal(cats[P(U)], g[U \ {P(U)}], P(U) = a)  BY <1>2, <2>4
  <2> HIDE DEF P, g
  <2>8. U \ {P(U)} \notin B /\ U \ {P(U)} \in SUBSET told  BY <2>3, <2>4, <2>5
  <2>9. after[U \ {P(U)}] = g[U \ {P(U)}]  BY <2>8
  <2> QED  BY <2>3, <2>6, <2>7, <2>9
<1>5. after[told] = g[told]  BY <1>4
<1>6. HealedBy(told, cats, m, a) = after[told]  BY DEF HealedBy, after
<1> QED  BY <1>5, <1>6


\* What the answers of a request do to the model: nothing, unless the active
\* provider was asked, answered for this settings object and no longer has it.
LEMMA LandedModel ==
    ASSUME RoutesBounds, RoutesNet, CatalogsOwn, NEW f \in fetches, Routes!FetchLands(f)
    PROVE  /\ CatalogsOwn'
           /\ model' # model => /\ model' \in Own[active] /\ catalog'[active] # <<>>
                                /\ model \notin Routes!ToSet(catalog'[active])
<1>1. PICK answer \in [f.asked -> UNION {Routes!Reports(p) : p \in f.asked}] :
        /\ \A p \in f.asked : answer[p] \in Routes!Reports(p)
        /\ LET told == {p \in f.asked : f.gen = gen /\ answer[p] # <<>>}
               cats == [p \in Providers |-> IF p \in told THEN answer[p] ELSE catalog[p]]
               after[S \in SUBSET told] ==
                   IF S = {} THEN model
                   ELSE LET p == CHOOSE p \in S : TRUE
                        IN  Routes!Heal(cats[p], after[S \ {p}], p = active)
           IN  catalog' = cats /\ model' = after[told]
  BY DEF Routes!FetchLands
<1> DEFINE told == {p \in f.asked : f.gen = gen /\ answer[p] # <<>>}
           cats == [p \in Providers |-> IF p \in told THEN answer[p] ELSE catalog[p]]
<1>2. f.asked \in SUBSET Providers  BY DEF RoutesNet, AskOf
<1>3. told \in SUBSET Providers /\ IsFiniteSet(told)
  <2>1. told \in SUBSET Providers  BY <1>2
  <2> HIDE DEF told
  <2> QED  BY <2>1, FS_Subset DEF RoutesBounds
<1>4. catalog' = cats  BY <1>1
<1>5. \A p \in told : answer[p] \in Seq(Own[p]) /\ answer[p] # <<>>  BY <1>1, <1>2, ReportsOwn
<1>6. \A p \in Providers : catalog[p] \in Seq(Own[p] \cup Handmade)  BY DEF CatalogsOwn
<1>7. model' = IF active \in told THEN Routes!Heal(cats[active], model, TRUE) ELSE model
  <2>1. model' = HealedBy(told, cats, model, active)  BY <1>1 DEF HealedBy
  <2>2. HealedBy(told, cats, model, active) = IF active \in told THEN Routes!Heal(cats[active], model, TRUE) ELSE model
    <3>1. IsFiniteSet(told)  BY <1>3
    <3> HIDE DEF told, cats
    <3>2. \A c, m, a : HealedBy(told, c, m, a) = IF a \in told THEN Routes!Heal(c[a], m, TRUE) ELSE m
      BY <3>1, HealedByOwn
    <3> QED  BY <3>2
  <2> QED  BY <2>1, <2>2
<1> HIDE DEF told
<1>8. \A p \in Providers : catalog'[p] \in Seq(Own[p] \cup Handmade)
  <2> SUFFICES ASSUME NEW p \in Providers PROVE catalog'[p] \in Seq(Own[p] \cup Handmade)  OBVIOUS
  <2>1. CASE p \in told
    <3>1. catalog'[p] = answer[p] /\ answer[p] \in Seq(Own[p])  BY <1>4, <1>5, <2>1
    <3> QED  BY <3>1
  <2>2. CASE p \notin told  BY <1>4, <1>6, <2>2
  <2> QED  BY <2>1, <2>2
<1>9. ASSUME model' # model
      PROVE  model' \in Own[active] /\ catalog'[active] # <<>> /\ model \notin Routes!ToSet(catalog'[active])
  <2>1. active \in told /\ active \in Providers /\ cats[active] = answer[active]  BY <1>3, <1>7, <1>9
  <2>2. catalog'[active] = answer[active] /\ answer[active] \in Seq(Own[active]) /\ answer[active] # <<>>
    BY <1>4, <1>5, <2>1
  <2>3. model' = Routes!Heal(answer[active], model, TRUE)  BY <1>7, <2>1
  <2>4. model \notin Routes!ToSet(answer[active]) /\ model' = Head(answer[active])
    BY <1>9, <2>3 DEF Routes!Heal
  <2>5. Head(answer[active]) \in Own[active]  BY <2>2
  <2> QED  BY <2>2, <2>4, <2>5
<1> QED  BY <1>4, <1>8, <1>9 DEF CatalogsOwn


LEMMA GlobalStep ==
    ASSUME RoutesBounds, RoutesInv, NEW p \in Providers,
           \/ Routes!TestConnection(p) \/ Routes!RefreshModels
           \/ Routes!SetUrl(p)
           \/ \E m \in Own[p] : Routes!SelectModel(p, m)
           \/ \E m \in Handmade : Routes!SlashModel(m)
           \/ \E f \in fetches : Routes!FetchLands(f)
    PROVE  RoutesInv'
<1> USE DEF RoutesInv
<1>1. UNCHANGED <<aux, fallbacks, pick, auxEdit>>
  BY DEF Routes!TestConnection, Routes!RefreshModels, Routes!StartFetch, Routes!SetUrl, Routes!SelectModel,
         Routes!SlashModel, Routes!FetchLands, Routes!pins, Routes!pageVars
<1>2. RoutesPins' /\ RoutesPick'
  BY <1>1 DEF RoutesPins, AuxFits, RowsFit, EditFits, RoutesPick, PairSound, RowSound, Routes!Owned
<1>3. ASSUME NEW asked, Routes!StartFetch(asked) PROVE RoutesNet' /\ CatalogsOwn'
  <2>1. [asked |-> asked, gen |-> gen] \in AskOf  BY <1>3 DEF Routes!StartFetch, RoutesNet, AskOf
  <2> QED  BY <1>3, <2>1 DEF Routes!StartFetch, RoutesNet, CatalogsOwn, Routes!globals
<1>4. CASE Routes!SetUrl(p)
  <2>1. urls' \in SUBSET Providers  BY <1>4 DEF Routes!SetUrl, RoutesNet
  <2>2. UNCHANGED <<active, catalog, fetches, gen>>  BY <1>4 DEF Routes!SetUrl, Routes!globals, Routes!netVars
  <2>3. RoutesNet' /\ CatalogsOwn'  BY <2>1, <2>2 DEF RoutesNet, CatalogsOwn
  <2> QED  BY <1>2, <2>3
<1>5. ASSUME NEW m, Routes!SelectModel(p, m) PROVE RoutesNet' /\ CatalogsOwn'
  BY <1>5 DEF Routes!SelectModel, RoutesNet, CatalogsOwn, Routes!netVars
<1>6. ASSUME NEW m \in Handmade, Routes!SlashModel(m) PROVE RoutesNet' /\ CatalogsOwn'
  <2>1. active \in Providers /\ catalog[active] \in Seq(Own[active] \cup Handmade)  BY DEF RoutesNet, CatalogsOwn
  <2>2. Routes!Remembered(catalog[active], m) \in Seq(Own[active] \cup Handmade)
    BY <2>1 DEF Routes!Remembered
  <2>3. catalog' = [catalog EXCEPT ![active] = Routes!Remembered(catalog[active], m)]
    BY <1>6 DEF Routes!SlashModel
  <2>4. CatalogsOwn'
    BY <2>1, <2>2, <2>3 DEF CatalogsOwn
  <2> QED  BY <1>6, <2>4 DEF Routes!SlashModel, RoutesNet, Routes!netVars
<1>7. ASSUME NEW f \in fetches, Routes!FetchLands(f) PROVE RoutesNet' /\ CatalogsOwn'
  <2>1. CatalogsOwn'  BY <1>7, LandedModel
  <2> QED  BY <1>7, <2>1 DEF Routes!FetchLands, RoutesNet
<1> QED  BY <1>2, <1>3, <1>4, <1>5, <1>6, <1>7 DEF Routes!TestConnection, Routes!RefreshModels

LEMMA PickStep ==
    ASSUME RoutesBounds, RoutesInv,
           \/ \E p \in Providers : Routes!PickProvider(p)
           \/ \E m \in Routes!Models : Routes!PickModel(m)
           \/ Routes!ApplyPick
    PROVE  RoutesInv'
<1> USE DEF RoutesInv
<1>1. UNCHANGED <<catalog, urls, aux, fallbacks, auxEdit, fetches, gen>>
  BY DEF Routes!PickProvider, Routes!PickModel, Routes!ApplyPick, Routes!pins, Routes!netVars
<1>2. RoutesPins'
  BY <1>1 DEF RoutesPins, AuxFits, RowsFit, EditFits, PairSound, RowSound, Routes!Owned
<1>3. active' \in Providers
  BY DEF Routes!PickProvider, Routes!PickModel, Routes!ApplyPick, Routes!globals, RoutesNet, RoutesPick, RowOf, ProvOf
<1>4. RoutesNet' /\ CatalogsOwn'  BY <1>1, <1>3 DEF RoutesNet, CatalogsOwn
<1>5. RoutesPick'
  <2>1. ASSUME NEW p \in Providers, Routes!PickProvider(p) PROVE RoutesPick'
    BY <2>1 DEF Routes!PickProvider, RoutesPick, RowOf, ProvOf
  <2>2. ASSUME NEW m \in Routes!Models, Routes!PickModel(m) PROVE RoutesPick'
    BY <2>2 DEF Routes!PickModel, RoutesPick, RowOf
  <2>3. CASE Routes!ApplyPick
    BY <2>3 DEF Routes!ApplyPick, RoutesPick, RowOf, ProvOf
  <2> QED  BY <2>1, <2>2, <2>3
<1> QED  BY <1>2, <1>4, <1>5

\* A row of the auxiliary tasks: what is drafted in it, and what is applied.
LEMMA AuxStep ==
    ASSUME RoutesBounds, RoutesInv,
           \/ \E k \in Slots : Routes!ChangeAux(k) \/ Routes!SetToMain(k)
           \/ \E p \in Providers : Routes!AuxProvider(p)
           \/ \E m \in Routes!Models : Routes!AuxModel(m)
           \/ Routes!ApplyAux
    PROVE  RoutesInv'
<1> USE DEF RoutesInv
<1>1. UNCHANGED <<active, catalog, urls, fallbacks, pick, fetches, gen>>
  BY DEF Routes!ChangeAux, Routes!SetToMain, Routes!AuxProvider, Routes!AuxModel, Routes!ApplyAux,
         Routes!globals, Routes!pins, Routes!netVars
<1>2. RoutesNet' /\ CatalogsOwn' /\ RoutesPick'  BY <1>1 DEF RoutesNet, CatalogsOwn, RoutesPick
<1>3. AuxFits' /\ EditFits' => RoutesPins'
  BY <1>1 DEF RoutesPins, RowsFit, RowSound, Routes!Owned
<1>4. /\ aux \in [Slots -> PairOf \cup {None}] /\ \A k \in Slots : aux[k] # None => PairSound(aux[k])
      /\ auxEdit \in AuxEditOf \cup {None}
      /\ auxEdit # None /\ auxEdit.pair # None => PairSound(auxEdit.pair)
      /\ active \in Providers /\ urls \in SUBSET Providers
  BY DEF RoutesPins, AuxFits, EditFits, RoutesNet
<1>a. aux' = aux => AuxFits'  BY DEF RoutesPins, AuxFits, PairSound, Routes!Owned
<1>e. ASSUME NEW q \in AuxEditOf \cup {None}, q # None /\ q.pair # None => PairSound(q.pair), auxEdit' = q PROVE EditFits'
  BY <1>e DEF EditFits, PairSound, Routes!Owned
<1>s. auxEdit # None =>
        /\ Routes!Shown \in SUBSET Providers
        /\ auxEdit.pair # None /\ auxEdit.pair.chosen => Routes!Shown = {auxEdit.pair.prov}
  BY <1>4 DEF Routes!Shown, AuxEditOf, PairOf, ProvOf, PairSound, RoutesBounds
<1>5. ASSUME NEW k \in Slots, Routes!ChangeAux(k) PROVE RoutesPins'
  <2>1. PICK q : q = [slot |-> k, at |-> active, pair |-> aux[k]]  OBVIOUS
  <2>2. q \in AuxEditOf /\ q.pair = aux[k]  BY <1>4, <2>1 DEF AuxEditOf
  <2>3. aux' = aux /\ (auxEdit' = None \/ auxEdit' = q)  BY <1>5, <2>1 DEF Routes!ChangeAux, Routes!pins
  <2>4. EditFits'  BY <1>4, <1>e, <2>2, <2>3
  <2> QED  BY <1>3, <1>a, <2>3, <2>4
<1>6. ASSUME NEW k \in Slots, Routes!SetToMain(k) PROVE RoutesPins'
  <2>1. aux' = [aux EXCEPT ![k] = None] /\ auxEdit' = None  BY <1>6 DEF Routes!SetToMain
  <2>2. EditFits'  BY <1>e, <2>1
  <2>3. AuxFits'  BY <1>4, <2>1 DEF AuxFits, PairSound, Routes!Owned
  <2> QED  BY <1>3, <2>2, <2>3
<1>7. ASSUME NEW p \in Providers, Routes!AuxProvider(p) PROVE RoutesPins'
  <2>1. PICK r : r = [prov |-> p, model |-> None, chosen |-> TRUE]  OBVIOUS
  <2>2. r \in PairOf /\ PairSound(r)  BY <2>1 DEF PairOf, ProvOf, PairSound, Routes!Owned
  <2>3. aux' = aux /\ auxEdit # None /\ auxEdit' = [auxEdit EXCEPT !.pair = r]
    BY <1>7, <2>1 DEF Routes!AuxProvider, Routes!pins
  <2>4. auxEdit' \in AuxEditOf /\ auxEdit'.pair = r  BY <1>4, <2>2, <2>3 DEF AuxEditOf
  <2>5. EditFits'  BY <2>2, <2>4 DEF EditFits, PairSound, Routes!Owned
  <2> QED  BY <1>3, <1>a, <2>3, <2>5
<1>8. ASSUME NEW m \in Routes!Models, Routes!AuxModel(m) PROVE RoutesPins'
  <2>1. PICK e : e = auxEdit.pair  OBVIOUS
  <2>2. PICK r : r = IF e = None THEN [prov |-> None, model |-> m, chosen |-> FALSE] ELSE [e EXCEPT !.model = m]
    OBVIOUS
  <2>3. aux' = aux /\ auxEdit # None /\ auxEdit' = [auxEdit EXCEPT !.pair = r]
    BY <1>8, <2>1, <2>2 DEF Routes!AuxModel, Routes!pins
  <2>4. PICK p \in Routes!Shown : m \in Routes!ToSet(catalog[p])  BY <1>8 DEF Routes!AuxModel
  <2>5. p \in Providers /\ m \in Own[p] \cup Handmade  BY <1>s, <2>3, <2>4, ModelsListed
  <2>6. e \in PairOf \cup {None} /\ (e # None => PairSound(e))  BY <1>4, <2>1, <2>3 DEF AuxEditOf
  <2>7. r \in PairOf /\ PairSound(r)
    <3>1. CASE e = None  BY <2>2, <3>1 DEF PairOf, ProvOf, PairSound
    <3>2. CASE e # None
      <4>1. r = [e EXCEPT !.model = m] /\ e \in PairOf  BY <2>2, <2>6, <3>2
      <4>2. r \in PairOf /\ r.prov = e.prov /\ r.model = m /\ r.chosen = e.chosen  BY <4>1 DEF PairOf
      <4>3. e.chosen => e.prov = p  BY <1>s, <2>1, <2>3, <2>4, <3>2
      <4> QED  BY <2>5, <2>6, <3>2, <4>2, <4>3 DEF PairSound, Routes!Owned
    <3> QED  BY <3>1, <3>2
  <2>8. auxEdit' \in AuxEditOf /\ auxEdit'.pair = r  BY <1>4, <2>3, <2>7 DEF AuxEditOf
  <2>9. EditFits'  BY <2>7, <2>8 DEF EditFits, PairSound, Routes!Owned
  <2> QED  BY <1>3, <1>a, <2>3, <2>9
<1>9. CASE Routes!ApplyAux
  <2>1. PICK p \in Routes!Shown : aux' = [aux EXCEPT ![auxEdit.slot] = [auxEdit.pair EXCEPT !.prov = p]]
    BY <1>9 DEF Routes!ApplyAux
  <2>2. auxEdit # None /\ auxEdit.pair # None /\ auxEdit' = None  BY <1>9 DEF Routes!ApplyAux
  <2>3. PICK r : r = [auxEdit.pair EXCEPT !.prov = p]  OBVIOUS
  <2>4. auxEdit.pair \in PairOf /\ PairSound(auxEdit.pair) /\ auxEdit.slot \in Slots
    BY <1>4, <2>2 DEF AuxEditOf
  <2>5. p \in Providers /\ (auxEdit.pair.chosen => p = auxEdit.pair.prov)  BY <1>s, <2>1, <2>2
  <2>6. r \in PairOf /\ r.prov = p /\ r.model = auxEdit.pair.model /\ r.chosen = auxEdit.pair.chosen
    BY <2>3, <2>4, <2>5 DEF PairOf, ProvOf
  <2>7. PairSound(r)  BY <2>4, <2>5, <2>6 DEF PairSound, Routes!Owned
  <2>8. aux' = [aux EXCEPT ![auxEdit.slot] = r]  BY <2>1, <2>3
  <2>9. aux' \in [Slots -> PairOf \cup {None}]  BY <1>4, <2>4, <2>6, <2>8
  <2>10. \A k \in Slots : aux'[k] = r \/ aux'[k] = aux[k]  BY <1>4, <2>8
  <2>11. \A k \in Slots : aux'[k] # None => PairSound(aux'[k])  BY <1>4, <2>7, <2>10
  <2>12. AuxFits'  BY <2>9, <2>11 DEF AuxFits, PairSound, Routes!Owned
  <2>13. EditFits'  BY <1>e, <2>2
  <2> QED  BY <1>2, <1>3, <2>12, <2>13
<1> QED  BY <1>2, <1>5, <1>6, <1>7, <1>8, <1>9

LEMMA RowsStep ==
    ASSUME RoutesBounds, RoutesInv,
           \/ \E n \in DOMAIN fallbacks : Routes!RemoveFallback(n) \/ Routes!EditFallback(n)
           \/ Routes!AddFallback
    PROVE  RoutesInv'
<1> USE DEF RoutesInv
<1>1. UNCHANGED <<active, catalog, urls, aux, pick, auxEdit, fetches, gen>>
  BY DEF Routes!RemoveFallback, Routes!EditFallback, Routes!AddFallback, Routes!globals, Routes!pageVars, Routes!netVars
<1>2. RoutesNet' /\ CatalogsOwn' /\ RoutesPick'  BY <1>1 DEF RoutesNet, CatalogsOwn, RoutesPick
<1>0. RowsFit' => RoutesPins'
  BY <1>1 DEF RoutesPins, AuxFits, EditFits, PairSound, Routes!Owned
<1>3. ASSUME NEW t \in Seq(RowOf), \A n \in DOMAIN t : RowSound(t[n]), fallbacks' = t PROVE RoutesPins'
  BY <1>0, <1>3 DEF RowsFit, RowSound, Routes!Owned
<1>4. fallbacks \in Seq(RowOf) /\ \A n \in DOMAIN fallbacks : RowSound(fallbacks[n])  BY DEF RoutesPins, RowsFit
<1>5. ASSUME NEW n \in DOMAIN fallbacks, Routes!RemoveFallback(n) PROVE RoutesPins'
  <2>1. fallbacks' = SubSeq(fallbacks, 1, n - 1) \o SubSeq(fallbacks, n + 1, Len(fallbacks))
    BY <1>5 DEF Routes!RemoveFallback, Routes!RemoveAt
  <2>2. n \in 1..Len(fallbacks)  BY <1>4
  <2>3. SubSeq(fallbacks, 1, n - 1) \in Seq(RowOf) /\ SubSeq(fallbacks, n + 1, Len(fallbacks)) \in Seq(RowOf)
    BY <1>4, <2>2
  <2>4. \A i \in DOMAIN fallbacks' : \E k \in DOMAIN fallbacks : fallbacks'[i] = fallbacks[k]
    <3> DEFINE A == SubSeq(fallbacks, 1, n - 1)
               B == SubSeq(fallbacks, n + 1, Len(fallbacks))
    <3>1. Len(A) = n - 1 /\ \A i \in 1..(n - 1) : A[i] = fallbacks[i]  BY <1>4, <2>2
    <3>2. Len(B) = Len(fallbacks) - n /\ \A i \in 1..(Len(fallbacks) - n) : B[i] = fallbacks[n + i]  BY <1>4, <2>2
    <3>3. A \in Seq(RowOf) /\ B \in Seq(RowOf) /\ fallbacks' = A \o B  BY <2>1, <2>3
    <3> HIDE DEF A, B
    <3>4. ASSUME NEW i \in DOMAIN fallbacks' PROVE \E k \in DOMAIN fallbacks : fallbacks'[i] = fallbacks[k]
      <4>1. i \in 1..(Len(A) + Len(B))  BY <3>3, <3>4
      <4>2. CASE i <= Len(A)
        <5>1. fallbacks'[i] = A[i] /\ i \in 1..(n - 1)  BY <3>1, <3>3, <4>1, <4>2
        <5> QED  BY <2>2, <3>1, <5>1, <1>4
      <4>3. CASE i > Len(A)
        <5>0. Len(A) \in Nat /\ Len(B) \in Nat /\ i \in Int  BY <3>3, <4>1
        <5>3. fallbacks'[i] = B[i - Len(A)]  BY <3>3, <4>1, <4>3, <5>0
        <5>4. i - Len(A) \in 1..Len(B)  BY <4>1, <4>3, <5>0
        <5>1. fallbacks'[i] = B[i - Len(A)] /\ i - Len(A) \in 1..(Len(fallbacks) - n)  BY <3>2, <5>3, <5>4
        <5>2. n + (i - Len(A)) \in DOMAIN fallbacks  BY <1>4, <2>2, <5>1
        <5> QED  BY <3>2, <5>1, <5>2
      <4> QED  BY <3>1, <4>1, <4>2, <4>3, <2>2
    <3> QED  BY <3>4
  <2>5. fallbacks' \in Seq(RowOf)  BY <2>1, <2>3
  <2>6. \A i \in DOMAIN fallbacks' : RowSound(fallbacks'[i])  BY <1>4, <2>4
  <2> QED  BY <1>3, <2>5, <2>6
<1>6. ASSUME NEW n \in DOMAIN fallbacks, Routes!EditFallback(n) PROVE RoutesPins'
  <2>1. fallbacks[n] \in RowOf  BY <1>4
  <2>2. ASSUME NEW q \in RowOf, RowSound(q), fallbacks' = [fallbacks EXCEPT ![n] = q] PROVE RoutesPins'
    <3>1. fallbacks' \in Seq(RowOf) /\ DOMAIN fallbacks' = DOMAIN fallbacks  BY <1>4, <2>2
    <3>2. \A i \in DOMAIN fallbacks : fallbacks'[i] = IF i = n THEN q ELSE fallbacks[i]  BY <1>4, <2>2
    <3> QED  BY <1>3, <1>4, <2>2, <3>1, <3>2
  <2>3. ASSUME NEW p \in urls, fallbacks' = [fallbacks EXCEPT ![n] = Routes!FallbackProvider(fallbacks[n], p)] PROVE RoutesPins'
    <3>1. PICK q : q = [prov |-> p, model |-> None]  OBVIOUS
    <3>2. q \in RowOf /\ RowSound(q)  BY <3>1 DEF RowOf, ProvOf, RowSound, RoutesNet
    <3> QED  BY <2>2, <2>3, <3>1, <3>2 DEF Routes!FallbackProvider
  <2>4. ASSUME NEW m \in IF fallbacks[n].prov # None /\ catalog[fallbacks[n].prov] # <<>>
                         THEN Routes!ToSet(catalog[fallbacks[n].prov]) ELSE Handmade,
               fallbacks' = [fallbacks EXCEPT ![n].model = m]
        PROVE RoutesPins'
    <3>1. PICK q : q = [fallbacks[n] EXCEPT !.model = m]  OBVIOUS
    <3>2. m \in Routes!Models /\ (fallbacks[n].prov # None => m \in Own[fallbacks[n].prov] \cup Handmade)
      <4>1. CASE fallbacks[n].prov # None /\ catalog[fallbacks[n].prov] # <<>>
        <5>1. fallbacks[n].prov \in Providers  BY <2>1, <4>1 DEF RowOf, ProvOf
        <5> QED  BY <2>4, <4>1, <5>1, ModelsListed
      <4>2. CASE ~(fallbacks[n].prov # None /\ catalog[fallbacks[n].prov] # <<>>)
        BY <2>4, <4>2 DEF Routes!Models
      <4> QED  BY <4>1, <4>2
    <3>3. q \in RowOf /\ q.prov = fallbacks[n].prov /\ q.model = m  BY <2>1, <3>1, <3>2 DEF RowOf
    <3>4. RowSound(q)  BY <3>2, <3>3 DEF RowSound, Routes!Owned
    <3> QED  BY <2>2, <2>4, <3>1, <3>3, <3>4
  <2> QED  BY <1>6, <2>3, <2>4 DEF Routes!EditFallback
<1>7. CASE Routes!AddFallback
  <2>1. PICK q : q = [prov |-> IF urls = {} THEN None ELSE CHOOSE p \in urls : TRUE, model |-> None]  OBVIOUS
  <2>2. q \in RowOf /\ RowSound(q)  BY <2>1 DEF RowOf, ProvOf, RowSound, RoutesNet
  <2>3. fallbacks' = Append(fallbacks, q)  BY <1>7, <2>1 DEF Routes!AddFallback
  <2> HIDE DEF RowOf
  <2>4. fallbacks' \in Seq(RowOf) /\ \A i \in DOMAIN fallbacks' : fallbacks'[i] = q \/ (i \in DOMAIN fallbacks /\ fallbacks'[i] = fallbacks[i])
    BY <1>4, <2>2, <2>3
  <2>5. \A i \in DOMAIN fallbacks' : RowSound(fallbacks'[i])  BY <1>4, <2>2, <2>4
  <2> QED  BY <1>2, <1>3, <2>4, <2>5
<1> QED  BY <1>2, <1>5, <1>6, <1>7

LEMMA LoadStep == ASSUME RoutesBounds, RoutesInv, Routes!Restart \/ Routes!Import PROVE RoutesInv'
<1> USE DEF RoutesInv
<1>1. UNCHANGED <<active, catalog, urls, fallbacks>> /\ aux' = Routes!Sanitized
  BY DEF Routes!Restart, Routes!Import, Routes!globals
<1>2. aux' \in [Slots -> PairOf \cup {None}] /\ \A k \in Slots : aux'[k] = None \/ aux'[k] = aux[k]
  BY <1>1 DEF Routes!Sanitized, RoutesPins, AuxFits
<1>3. \/ auxEdit' = None /\ pick' = [prov |-> None, model |-> None] /\ fetches' = {} /\ gen' = gen
      \/ auxEdit' = auxEdit /\ pick' = pick /\ fetches' = fetches /\ gen' = gen + 1
  BY DEF Routes!Restart, Routes!Import, Routes!pageVars, Routes!netVars
<1>4. RoutesPins'
  <2>1. AuxFits'  BY <1>2 DEF RoutesPins, AuxFits, PairSound, Routes!Owned
  <2>2. RowsFit'  BY <1>1 DEF RoutesPins, RowsFit, RowSound, Routes!Owned
  <2>3. EditFits'  BY <1>3 DEF RoutesPins, EditFits, PairSound, Routes!Owned
  <2> QED  BY <2>1, <2>2, <2>3 DEF RoutesPins
<1>5. RoutesNet' /\ CatalogsOwn'  BY <1>1, <1>3 DEF RoutesNet, CatalogsOwn
<1>6. RoutesPick'  BY <1>3 DEF RoutesPick, RowOf, ProvOf
<1> QED  BY <1>4, <1>5, <1>6

LEMMA RoutesStep == ASSUME RoutesBounds, RoutesInv, [Routes!RoutesNext]_(Routes!routeVars) PROVE RoutesInv'
<1>1. CASE UNCHANGED Routes!routeVars
  BY <1>1 DEF Routes!routeVars, RoutesInv, RoutesNet, CatalogsOwn, RoutesPins, AuxFits, RowsFit, EditFits, RoutesPick, PairSound, RowSound, Routes!Owned
<1>2. active \in Providers  BY DEF RoutesInv, RoutesNet
<1> QED  BY <1>1, <1>2, GlobalStep, PickStep, AuxStep, RowsStep, LoadStep DEF Routes!RoutesNext

LEMMA RoutesInvariance == ASSUME RoutesBounds PROVE Routes!RoutesSpec => []RoutesInv
<1>1. Routes!RoutesInit => RoutesInv  BY RoutesInitial
<1>2. RoutesInv /\ [Routes!RoutesNext]_(Routes!routeVars) => RoutesInv'  BY RoutesStep
<1> QED  BY <1>1, <1>2, PTL DEF Routes!RoutesSpec

\* Only the answers of a request change the requests under way and the model and
\* count no new request.
LEMMA StolenHere == ASSUME RoutesBounds, RoutesInv, [Routes!RoutesNext]_(Routes!routeVars) PROVE Routes!NotStolen
<1> SUFFICES ASSUME fetches' # fetches, fetched' = fetched, model' # model
             PROVE  /\ model' \in Own[active] \cup Handmade /\ catalog'[active] # <<>>
                    /\ ~ \E n \in DOMAIN catalog'[active] : catalog'[active][n] = model
  BY DEF Routes!NotStolen
<1>1. PICK f \in fetches : Routes!FetchLands(f)
  <2>1. ~UNCHANGED Routes!routeVars  BY DEF Routes!routeVars
  <2>2. \A p \in Providers : /\ ~Routes!TestConnection(p) /\ ~Routes!PickProvider(p) /\ ~Routes!SetUrl(p) /\ ~Routes!AuxProvider(p)
                             /\ \A m \in Own[p] : ~Routes!SelectModel(p, m)
    BY DEF Routes!TestConnection, Routes!StartFetch, Routes!PickProvider, Routes!SetUrl, Routes!AuxProvider,
           Routes!SelectModel, Routes!globals, Routes!netVars
  <2>3. \A m : ~Routes!PickModel(m) /\ ~Routes!AuxModel(m) /\ ~Routes!SlashModel(m)
    BY DEF Routes!PickModel, Routes!AuxModel, Routes!SlashModel, Routes!netVars
  <2>4. \A k : ~Routes!ChangeAux(k) /\ ~Routes!SetToMain(k) /\ ~Routes!RemoveFallback(k) /\ ~Routes!EditFallback(k)
    BY DEF Routes!ChangeAux, Routes!SetToMain, Routes!RemoveFallback, Routes!EditFallback, Routes!netVars
  <2>5. ~Routes!RefreshModels /\ ~Routes!ApplyPick /\ ~Routes!ApplyAux /\ ~Routes!AddFallback /\ ~Routes!Restart /\ ~Routes!Import
    BY DEF Routes!RefreshModels, Routes!StartFetch, Routes!ApplyPick, Routes!ApplyAux, Routes!AddFallback,
           Routes!Restart, Routes!Import, Routes!globals, Routes!netVars
  <2> QED  BY <2>1, <2>2, <2>3, <2>4, <2>5 DEF Routes!RoutesNext
<1>2. /\ model' \in Own[active] /\ catalog'[active] # <<>>
      /\ model \notin Routes!ToSet(catalog'[active])
  BY <1>1, LandedModel DEF RoutesInv
<1>3. ASSUME NEW n \in DOMAIN catalog'[active], catalog'[active][n] = model PROVE FALSE
  BY <1>2, <1>3 DEF Routes!ToSet
<1> QED  BY <1>2, <1>3

\* A pin whose provider was chosen in its row, or a fallback row, never names a
\* model of another provider (auxModelRow, renderModelSection), whatever
\* drafts, late catalogues, picks and imports come between.
THEOREM PinsMatch ==
    ASSUME RoutesBounds
    PROVE  Routes!RoutesSpec => []Routes!PairsMatch
<1>1. RoutesInv => Routes!PairsMatch
  BY DEF RoutesInv, RoutesPins, AuxFits, RowsFit, PairSound, RowSound, Routes!PairsMatch
<1> QED  BY <1>1, RoutesInvariance, PTL

\* The answers of a connection test or a refresh take the chat's model away only
\* when the active provider's own server answered and no longer lists it
\* (applyFetchedModels), in whatever order the answers are applied.
THEOREM ModelNotStolen ==
    ASSUME RoutesBounds
    PROVE  Routes!RoutesSpec => [][Routes!NotStolen]_(Routes!routeVars)
<1>1. RoutesInv /\ [Routes!RoutesNext]_(Routes!routeVars) => Routes!NotStolen  BY StolenHere
<1> QED  BY <1>1, RoutesInvariance, PTL DEF Routes!RoutesSpec

===============================================================================
