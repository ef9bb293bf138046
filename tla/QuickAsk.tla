------------------------------ MODULE QuickAsk ------------------------------
(***************************************************************************)
(* The Quick Ask panel (quickask/, main.ts): one floating panel at a time   *)
(* over an editor, a conversation without tools, and a Replace that may     *)
(* only write over the text that was selected when the panel opened,        *)
(* however the document moved since.  A turn retries and fails over.        *)
(***************************************************************************)
EXTENDS Naturals, Sequences, FiniteSets, SequencesExt

CONSTANTS
    Views,       \* editor views
    Files,       \* notes
    Chars,       \* what a document is made of
    Docs,        \* documents at the start
    Fails,       \* errors of an attempt: "busy" (429, 5xx), "network", "refused" (401, 403, 404)
    None,
    MaxLen,      \* bound: length of a document
    MaxShows,    \* bound: panels ever opened
    MaxEdits,    \* bound: edits of documents
    MaxTurns     \* bound: questions of a panel

\* Who wrote a character: it stood outside the selection when the panel opened,
\* inside it, or it was typed since.
Origins == {"out", "in", "new"}
Cell    == [ch : Chars, org : Origins]
Roles   == {"user", "assistant"}

VARIABLES
    doc,      \* the document of each view
    file,     \* the note it shows
    alive,    \* views that still exist
    overlay,  \* the panel each view's plugin mounts
    widget,   \* QuickAskController.widgetState: the view it thinks is open
    panel,    \* the panels opened so far
    hit,      \* origins of the characters a Replace wrote over
    qaEdits

qaVars == <<doc, file, alive, overlay, widget, panel, hit, qaEdits>>

Idle == [stage |-> "idle", target |-> 1, attempt |-> 0, abort |-> FALSE, reset |-> FALSE]

\* stream holds the attempts whose tokens the panel shows.
Panel == [view : Views, file : Files, text : Seq(Chars), from : Nat, to : Nat,
          wire : Seq([role : Roles, sel : BOOLEAN]), display : Seq(Roles),
          before : Seq([role : Roles, sel : BOOLEAN]), stream : SUBSET (Nat \X Nat),
          turns : 0 .. MaxTurns, turn : [stage : {"idle", "send", "stream", "sleep"},
             target : 1 .. 2, attempt : 0 .. 3, abort : BOOLEAN, reset : BOOLEAN]]

QuickInit ==
    /\ doc \in [Views -> {[i \in DOMAIN d |-> [ch |-> d[i], org |-> "out"]] : d \in Docs}]
    /\ file = [v \in Views |-> CHOOSE f \in Files : TRUE]
    /\ alive = Views
    /\ overlay = [v \in Views |-> None] /\ widget = None
    /\ panel = <<>> /\ hit = {} /\ qaEdits = 0

\* An unmounted panel renders no more: its turn runs on, and whatever it sets is
\* dropped, so nothing of it is kept.
Unmounted(q) == [q EXCEPT !.text = <<>>, !.from = 0, !.to = 0, !.wire = <<>>, !.display = <<>>,
                          !.before = <<>>, !.stream = {}, !.turns = MaxTurns, !.turn = Idle]

Kept(o) == [p \in DOMAIN panel |-> IF o[panel[p].view] = p THEN panel[p] ELSE Unmounted(panel[p])]

Plain(d) == [i \in DOMAIN d |-> [d[i] EXCEPT !.org = "out"]]

Text(d)  == [i \in DOMAIN d |-> d[i].ch]
Busy(p)  == panel[p].turn.stage # "idle"
Shown(p) == overlay[panel[p].view] = p

-----------------------------------------------------------------------------
(* The guard: the range is mapped through every change of the document.    *)

\* Positions are counted from 0.  An insertion of n characters at pos pushes a
\* position behind it; one exactly there moves with assoc 1 only.
Inserted(pos, at, n, assoc) == IF at < pos \/ (at = pos /\ assoc = 1) THEN pos + n ELSE pos

\* A deletion of n characters from at pulls what is behind it.
Deleted(pos, at, n) == IF pos <= at THEN pos ELSE IF pos >= at + n THEN pos - n ELSE at

Ordered(p, a, b) == [panel[p] EXCEPT !.from = IF a < b THEN a ELSE b, !.to = IF a < b THEN b ELSE a]

\* onDocChanged: the new ends, in order.
OnDocChanged(p, a, b) == Ordered(p, a, b)

\* The panel of a view hears of a change, its ends moved to a and b; the others do not.
Mapped(v, a, b) == [panel EXCEPT ![overlay[v]] = OnDocChanged(overlay[v], a, b)]

\* validate: the leaf still shows this view and this note, the range lies in the
\* document and is not empty, and the text there is what was selected.
Valid(p) ==
    LET q == panel[p]
        d == doc[q.view] IN
    /\ q.view \in alive /\ file[q.view] = q.file
    /\ q.to <= Len(d) /\ q.from < q.to
    /\ Text(SubSeq(d, q.from + 1, q.to)) = q.text

-----------------------------------------------------------------------------
(* The controller.                                                         *)

\* One transaction per view: the old panel goes, the new one comes.  Panels
\* start with what is selected; what is not is marked as outside.
Show(v, from, to) ==
    LET p    == Len(panel) + 1
        mark == [i \in DOMAIN doc[v] |->
                   [doc[v][i] EXCEPT !.org = IF i > from /\ i <= to THEN "in" ELSE "out"]] IN
    /\ v \in alive /\ p <= MaxShows
    /\ overlay' = [x \in Views |-> IF x = v THEN p ELSE IF x = widget THEN None ELSE overlay[x]]
    /\ panel' = Append(Kept(overlay'),
         [view |-> v, file |-> file[v], text |-> Text(SubSeq(doc[v], from + 1, to)),
          from |-> from, to |-> to, wire |-> <<>>, display |-> <<>>, before |-> <<>>,
          stream |-> {}, turns |-> 0, turn |-> Idle])
    /\ widget' = v
    /\ doc' = [x \in Views |-> IF x = v THEN mark ELSE Plain(doc[x])]
    /\ UNCHANGED <<file, alive, hit, qaEdits>>

\* The close of a panel: the view's plugin drops it, and the controller forgets
\* its state when it points there.
ClosedBy(p) ==
    /\ overlay' = [overlay EXCEPT ![panel[p].view] = None]
    /\ panel' = Kept(overlay')
    /\ widget' = IF widget = panel[p].view THEN None ELSE widget

Close(p) ==
    /\ Shown(p) /\ ClosedBy(p)
    /\ doc' = [doc EXCEPT ![panel[p].view] = Plain(@)]
    /\ UNCHANGED <<file, alive, hit, qaEdits>>

\* An editor goes away with its plugin; the controller is not told.
Destroy(v) ==
    /\ v \in alive
    /\ alive' = alive \ {v}
    /\ overlay' = [overlay EXCEPT ![v] = None]
    /\ panel' = Kept(overlay')
    /\ doc' = [doc EXCEPT ![v] = <<>>]
    /\ UNCHANGED <<file, widget, hit, qaEdits>>

-----------------------------------------------------------------------------
(* The user edits under the panel.  Edits elsewhere concern no panel.        *)

Insert(v, at, s) ==
    /\ overlay[v] # None /\ qaEdits < MaxEdits /\ Len(doc[v]) + Len(s) <= MaxLen
    /\ doc' = [doc EXCEPT ![v] =
         SubSeq(@, 1, at) \o [i \in DOMAIN s |-> [ch |-> s[i], org |-> "new"]] \o SubSeq(@, at + 1, Len(@))]
    /\ panel' = LET r == panel[overlay[v]] IN
                Mapped(v, Inserted(r.from, at, Len(s), 1), Inserted(r.to, at, Len(s), 0))
    /\ qaEdits' = qaEdits + 1
    /\ UNCHANGED <<file, alive, overlay, widget, hit>>

Delete(v, at, n) ==
    /\ overlay[v] # None /\ qaEdits < MaxEdits /\ at + n <= Len(doc[v])
    /\ doc' = [doc EXCEPT ![v] = SubSeq(@, 1, at) \o SubSeq(@, at + n + 1, Len(@))]
    /\ panel' = LET r == panel[overlay[v]] IN
                Mapped(v, Deleted(r.from, at, n), Deleted(r.to, at, n))
    /\ qaEdits' = qaEdits + 1
    /\ UNCHANGED <<file, alive, overlay, widget, hit>>

\* The leaf opens another note in the same view.
Open(v, f) ==
    /\ overlay[v] # None /\ file[v] # f /\ qaEdits < MaxEdits
    /\ file' = [file EXCEPT ![v] = f]
    /\ qaEdits' = qaEdits + 1
    /\ UNCHANGED <<doc, alive, overlay, widget, panel, hit>>

-----------------------------------------------------------------------------
(* The panel: Replace and Insert close it, a turn is one question.          *)

\* Replace and select, then close.  The mark of the overwritten text is kept.
Replace(p) ==
    LET q == panel[p] IN
    /\ Shown(p) /\ ~Busy(p) /\ "assistant" \in ToSet(q.display) /\ Len(q.text) > 0 /\ Valid(p)
    /\ hit' = hit \cup {doc[q.view][i].org : i \in q.from + 1 .. q.to}
    /\ doc' = [doc EXCEPT ![q.view] = Plain(SubSeq(@, 1, q.from) \o SubSeq(@, q.to + 1, Len(@)))]
    /\ ClosedBy(p)
    /\ UNCHANGED <<file, alive, qaEdits>>

\* The selection rides the first question that the wire carries.
Send(p) ==
    LET q   == panel[p]
        ask == [role |-> "user", sel |-> q.wire = <<>> /\ Len(q.text) > 0] IN
    /\ Shown(p) /\ ~Busy(p) /\ q.turns < MaxTurns
    /\ panel' = [panel EXCEPT ![p] = [q EXCEPT
         !.wire = Append(q.wire, ask), !.before = q.wire, !.display = Append(q.display, "user"),
         !.stream = {}, !.turns = q.turns + 1, !.turn = [Idle EXCEPT !.stage = "send"]]]
    /\ UNCHANGED <<doc, file, alive, overlay, widget, hit, qaEdits>>

InTurn(p, stage, t) ==
    /\ panel[p].turn.stage = stage
    /\ panel' = [panel EXCEPT ![p].turn = t]
    /\ UNCHANGED <<doc, file, alive, overlay, widget, hit, qaEdits>>

\* The end of send: the stream text is cleared whatever happened.
Ended(p, q) ==
    /\ panel' = [panel EXCEPT ![p] = [q EXCEPT !.stream = {}, !.turn = Idle]]
    /\ UNCHANGED <<doc, file, alive, overlay, widget, hit, qaEdits>>

\* An error takes the question back, an abort leaves it.
Failed(q) ==
    IF q.turn.abort THEN q
    ELSE [q EXCEPT !.wire = q.before, !.display = Front(@)]

\* attemptWithResilience: the signal is looked at before each attempt.
Begin(p) ==
    LET t == panel[p].turn IN
    /\ ~t.abort
    /\ InTurn(p, "send", [t EXCEPT !.stage = "stream", !.attempt = @ + 1, !.reset = FALSE])

Aborted(p) == panel[p].turn.stage = "send" /\ panel[p].turn.abort /\ Ended(p, Failed(panel[p]))

\* A buffered answer comes in one piece with the end of the attempt.
Token(p) ==
    LET t == panel[p].turn IN
    /\ t.stage = "stream" /\ ~t.reset
    /\ panel' = [panel EXCEPT ![p].stream = @ \cup {<<t.target, t.attempt>>}]
    /\ UNCHANGED <<doc, file, alive, overlay, widget, hit, qaEdits>>

\* chatCompletion drops a broken stream for a buffered answer.
StreamReset(p) ==
    LET t == panel[p].turn IN
    /\ t.stage = "stream" /\ ~t.reset /\ ~t.abort
    /\ panel' = [panel EXCEPT ![p] = [@ EXCEPT !.stream = {}, !.turn = [t EXCEPT !.reset = TRUE]]]
    /\ UNCHANGED <<doc, file, alive, overlay, widget, hit, qaEdits>>

MaxAttempts(e) == CASE e = "busy" -> 3 [] e = "network" -> 2 [] e = "refused" -> 1

\* Mutant: a retry goes on without telling the panel.
HopSilent(p, t) == [panel[p] EXCEPT !.turn = t]

\* onRetry: the reset gate clears the partial text once per attempt.
Hop(p, t) ==
    [panel[p] EXCEPT !.stream = IF t.reset THEN @ ELSE {}, !.turn = [t EXCEPT !.reset = FALSE]]

\* A failed attempt: again after a pause, the other target, or the end.
AttemptFails(p, e, fallback) ==
    LET t == panel[p].turn IN
    /\ t.stage = "stream"
    /\ ~t.abort
    /\ IF t.attempt < MaxAttempts(e)
       THEN /\ panel' = [panel EXCEPT ![p] = Hop(p, [t EXCEPT !.stage = "sleep"])]
            /\ UNCHANGED <<doc, file, alive, overlay, widget, hit, qaEdits>>
       ELSE IF t.target = 1 /\ fallback
       THEN /\ panel' = [panel EXCEPT ![p] = Hop(p, [t EXCEPT !.stage = "send", !.target = 2, !.attempt = 0])]
            /\ UNCHANGED <<doc, file, alive, overlay, widget, hit, qaEdits>>
       ELSE Ended(p, Failed(panel[p]))

AbortFails(p) ==
    /\ panel[p].turn.stage = "stream" /\ panel[p].turn.abort
    /\ Ended(p, Failed(panel[p]))

Wake(p) == InTurn(p, "sleep", [panel[p].turn EXCEPT !.stage = "send"])

\* An answer after Stop is dropped with the partial text.
Answer(p) ==
    LET q == panel[p] IN
    /\ q.turn.stage = "stream"
    /\ Ended(p, IF q.turn.abort THEN q
                ELSE [q EXCEPT !.wire = Append(@, [role |-> "assistant", sel |-> FALSE]),
                               !.display = Append(@, "assistant")])

Stop(p) ==
    /\ Shown(p) /\ Busy(p) /\ ~panel[p].turn.abort
    /\ InTurn(p, panel[p].turn.stage, [panel[p].turn EXCEPT !.abort = TRUE])

TurnStep(p) ==
    \/ Begin(p) \/ Aborted(p) \/ Wake(p) \/ Answer(p) \/ AbortFails(p)
    \/ \E e \in Fails, fallback \in BOOLEAN : AttemptFails(p, e, fallback)

QuickNext ==
    \/ \E v \in Views : \E from \in 0 .. Len(doc[v]) : \E to \in from .. Len(doc[v]) : Show(v, from, to)
    \/ \E v \in Views : \E at \in 0 .. Len(doc[v]), s \in SeqOf(Chars, 2) : s # <<>> /\ Insert(v, at, s)
    \/ \E v \in Views : \E at \in 0 .. Len(doc[v]), n \in 1 .. 2 : Delete(v, at, n)
    \/ \E v \in Views, f \in Files : Open(v, f)
    \/ \E v \in Views : Destroy(v)
    \/ \E p \in DOMAIN panel :
         Close(p) \/ Replace(p) \/ Send(p) \/ Token(p) \/ StreamReset(p) \/ Stop(p) \/ TurnStep(p)

QuickFairness == \A p \in 1 .. MaxShows : WF_qaVars(p \in DOMAIN panel /\ TurnStep(p))

QuickSpec == QuickInit /\ [][QuickNext]_qaVars /\ QuickFairness

-----------------------------------------------------------------------------
(* Properties.                                                             *)

\* Every variable keeps its type (QuickAskController, QuickAskPanel).
QuickTypeOK ==
    /\ doc \in [Views -> Seq(Cell)] /\ file \in [Views -> Files] /\ alive \subseteq Views
    /\ overlay \in [Views -> 1 .. MaxShows \cup {None}] /\ widget \in Views \cup {None}
    /\ panel \in Seq(Panel) /\ hit \subseteq Origins /\ qaEdits \in 0 .. MaxEdits

\* Replace never writes over a character that stood outside the selection when
\* the panel opened, wherever equal text turns up (replaceGuard.ts).
OutsideKept == "out" \notin hit

\* One panel at a time, and the controller can close the one that is shown.
OnePanel == \A v \in Views : overlay[v] # None => widget = v

\* The text that streams in comes from one attempt only, the current one
\* (panel.tsx, attemptReset.ts).
StreamCurrent == \A p \in DOMAIN panel :
    LET q == panel[p] IN q.stream \subseteq {<<q.turn.target, q.turn.attempt>>}

\* What the panel shows is what the next request carries, and the selection
\* rides with the first question and no other (panel.tsx send).
WireShown == \A p \in DOMAIN panel :
    LET q == panel[p] IN
    /\ q.display = [i \in DOMAIN q.wire |-> q.wire[i].role]
    /\ \A i \in DOMAIN q.wire : q.wire[i].sel <=> i = 1 /\ Len(q.text) > 0

\* Every turn of a panel ends, however its attempts fail and whenever it is stopped.
\* Checked as: Waits leads to ~Waits.
Waits(p) == p \in DOMAIN panel /\ Busy(p)
=============================================================================
