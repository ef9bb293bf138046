---------------------------- MODULE PromptQueue ----------------------------
(***************************************************************************)
(* The queue of prompts of a chat (src/agent/promptQueue.ts and the        *)
(* persistQueue, sendQueued and sendQueuedNow callbacks of                 *)
(* src/ui/ChatApp.tsx).  Every view mirrors its session's slice of one     *)
(* settings object; every change is a transaction that takes the global    *)
(* mutex, applies itself to the slice and to the view, saves data.json,    *)
(* and rolls back when the save fails or the view has moved on.  Removing  *)
(* an entry durably is the claim that allows it to be sent.                *)
(*                                                                         *)
(* A save is the only thing a transaction awaits that takes more than a    *)
(* microtask, so user actions and effects run while one is in flight or    *)
(* when no transaction is pending (Quiet), never between two steps that    *)
(* microtasks join.                                                        *)
(***************************************************************************)
EXTENDS Naturals, Sequences, FiniteSets, SequencesExt

CONSTANTS
    Views,          \* open chat views
    Sessions,       \* sessions of the vault
    Entries,        \* prompts the user may queue
    NoEntry,        \* the entry of a request about a whole queue
    Idle,           \* no transaction holds the mutex
    MaxPerSession,  \* MAX_QUEUE_PER_SESSION
    MaxPending      \* bound: transactions waiting for the mutex

Kinds == {"enqueue", "remove", "promote", "claim", "drain", "clear"}

\* Only a deletion is about a whole queue.
Requests ==
    {r \in [kind : Kinds, view : Views, sid : Sessions, entry : Entries \cup {NoEntry}] :
        r.kind = "clear" <=> r.entry = NoEntry}

\* Queues hold no prompt twice.
Queues == {q \in Seq(Entries) : IsInjective(q)}

\* A request that holds the mutex: the queue the view showed and the slice of
\* the settings before it.
Transactions ==
    {t \in [kind : Kinds, view : Views, sid : Sessions, entry : Entries \cup {NoEntry},
            active : BOOLEAN, step : {"save", "resave"}, shown : Queues, slice : Queues] :
        t.kind = "clear" <=> t.entry = NoEntry}

ASSUME BoundsAssumption ==
    /\ NoEntry \notin Entries
    /\ Idle \notin Transactions
    /\ MaxPerSession \in Nat
    /\ MaxPending \in Nat

VARIABLES
    shows,       \* sessionIdRef.current of each view
    live,        \* queueRef.current of each view
    busy,        \* running of each view
    held,        \* queueParked of each view
    draining,    \* queueDrainingRef.current of each view
    stored,      \* settings.promptQueue
    disk,        \* the same in data.json
    parked,      \* parkedSids
    pending,     \* transactions waiting for the mutex
    current,     \* the transaction that holds it, its save in flight
    used,        \* history: prompts ever offered to the queue
    sent         \* history: how often each prompt was handed to runAgent

viewVars == <<shows, live, busy, held, draining>>
diskVars == <<stored, disk>>
txVars   == <<pending, current>>
history  == <<used, sent>>
vars == <<shows, live, busy, held, draining, stored, disk, parked, pending,
          current, used, sent>>

Quiet == current # Idle \/ pending = << >>

Init ==
    /\ shows \in [Views -> Sessions]
    /\ live = [v \in Views |-> << >>]
    /\ busy = [v \in Views |-> FALSE]
    /\ held = [v \in Views |-> FALSE]
    /\ draining = [v \in Views |-> FALSE]
    /\ stored = [s \in Sessions |-> << >>]
    /\ disk = [s \in Sessions |-> << >>]
    /\ parked = {}
    /\ pending = << >>
    /\ current = Idle
    /\ used = {}
    /\ sent = [e \in Entries |-> 0]

-----------------------------------------------------------------------------
(* The user and the drain effect.                                          *)

Request(k, v, s, e) ==
    /\ Len(pending) < MaxPending
    /\ pending' = Append(pending, [kind |-> k, view |-> v, sid |-> s, entry |-> e])

Unpark(v) ==
    /\ parked' = parked \ {shows[v]}
    /\ held' = [held EXCEPT ![v] = FALSE]

\* Enter while the agent is working, or /queue: fresh intent lifts a park.
Enqueue(v, e) ==
    /\ Quiet
    /\ e \notin used
    /\ used' = used \cup {e}
    /\ Unpark(v)
    /\ Request("enqueue", v, shows[v], e)
    /\ UNCHANGED <<shows, live, busy, draining, diskVars, current, sent>>

RemoveRow(v, e) ==
    /\ Quiet
    /\ Contains(live[v], e)
    /\ Request("remove", v, shows[v], e)
    /\ UNCHANGED <<viewVars, diskVars, parked, current, history>>

\* "Send" on a row, or Enter on an empty composer.  While the agent works the
\* entry is only promoted; the park is lifted once that is durable.
SendNow(v, e) ==
    /\ Quiet
    /\ Contains(live[v], e)
    /\ IF busy[v]
       THEN Request("promote", v, shows[v], e) /\ UNCHANGED <<parked, held>>
       ELSE Request("claim", v, shows[v], e) /\ Unpark(v)
    /\ UNCHANGED <<shows, live, busy, draining, diskVars, current, history>>

Resume(v) ==
    /\ Quiet
    /\ held[v]
    /\ Unpark(v)
    /\ UNCHANGED <<shows, live, busy, draining, diskVars, txVars, history>>

\* The effect claims the head of an idle view once nothing is being saved.
Drain(v) ==
    /\ ~draining[v] /\ ~busy[v] /\ ~held[v] /\ live[v] # << >>
    /\ pending = << >> /\ current = Idle
    /\ draining' = [draining EXCEPT ![v] = TRUE]
    /\ Request("drain", v, shows[v], Head(live[v]))
    /\ UNCHANGED <<shows, live, busy, held, diskVars, parked, current, history>>

Park(v) ==
    /\ parked' = parked \cup {shows[v]}
    /\ held' = [held EXCEPT ![v] = TRUE]

Stop(v) ==
    /\ Quiet
    /\ busy[v]
    /\ Park(v)
    /\ UNCHANGED <<shows, live, busy, draining, diskVars, txVars, history>>

\* A run of the view starts or ends (ChatRuns says when).
Turn(v) ==
    /\ Quiet
    /\ busy' = [busy EXCEPT ![v] = ~busy[v]]
    /\ UNCHANGED <<shows, live, held, draining, diskVars, parked, txVars, history>>

\* The view opens another session and mirrors what settings hold of its queue.
Switch(v, s) ==
    /\ Quiet
    /\ s # shows[v]
    /\ shows' = [shows EXCEPT ![v] = s]
    /\ live' = [live EXCEPT ![v] = stored[s]]
    /\ held' = [held EXCEPT ![v] = s \in parked]
    /\ UNCHANGED <<busy, draining, diskVars, parked, txVars, history>>

\* A deleted session's queue is cleared, whatever the view shows by then.
Delete(v, s) ==
    /\ Quiet
    /\ stored[s] # << >>
    /\ Request("clear", v, s, NoEntry)
    /\ UNCHANGED <<viewVars, diskVars, parked, current, history>>

-----------------------------------------------------------------------------
(* The transactions.                                                       *)

\* Mutant: a claim whose entry is gone by now still goes through.
VanishedNever(t, entries) == FALSE

\* A null updater: the entry vanished while the request waited for the mutex.
Vanished(t, entries) ==
    t.kind \in {"remove", "promote", "claim", "drain"} /\ ~Contains(entries, t.entry)

\* Mutant: a promoted entry also keeps its old place.
UpdatedTwice(t, entries) ==
    CASE t.kind = "enqueue" -> IF Contains(entries, t.entry) THEN entries
                               ELSE Append(entries, t.entry)
      [] t.kind = "promote" -> <<t.entry>> \o entries
      [] t.kind = "clear"   -> << >>
      [] OTHER -> RemoveFirst(entries, t.entry)

\* The updater of each kind, given the queue once the mutex is held.  The
\* filter by id removes one entry at most: ids are unique.
Updated(t, entries) ==
    CASE t.kind = "enqueue" -> IF Contains(entries, t.entry) THEN entries
                               ELSE Append(entries, t.entry)
      [] t.kind = "promote" -> <<t.entry>> \o RemoveFirst(entries, t.entry)
      [] t.kind = "clear"   -> << >>
      [] OTHER -> RemoveFirst(entries, t.entry)

\* The drain effect's lock is released whatever became of its claim.
ReleaseDrain(t) ==
    draining' = IF t.kind = "drain" THEN [draining EXCEPT ![t.view] = FALSE]
                ELSE draining

\* persistQueue only works for the session the view shows, except to clear.
RequiresActive(t) == t.kind # "clear"

\* With the mutex: refused, or applied to the slice and shown optimistically
\* while the save runs.
Start ==
    /\ current = Idle /\ pending # << >>
    /\ pending' = Tail(pending)
    /\ LET t      == Head(pending)
           active == shows[t.view] = t.sid
           before == IF active THEN live[t.view] ELSE stored[t.sid]
           after  == Updated(t, before)
       IN  IF (RequiresActive(t) /\ ~active) \/ Vanished(t, before)
           THEN ReleaseDrain(t) /\ UNCHANGED <<live, stored, current>>
           ELSE /\ stored' = [stored EXCEPT ![t.sid] = after]
                /\ live' = IF active THEN [live EXCEPT ![t.view] = after] ELSE live
                /\ current' = [kind |-> t.kind, view |-> t.view, sid |-> t.sid,
                               entry |-> t.entry, active |-> active, step |-> "save",
                               shown |-> before, slice |-> stored[t.sid]]
                /\ UNCHANGED draining
    /\ UNCHANGED <<shows, busy, held, disk, parked, history>>

\* Mutant: the rollback restores what the view showed to the session it shows.
RestoredElsewhere == [stored EXCEPT ![shows[current.view]] = current.slice]

Restored == [stored EXCEPT ![current.sid] = current.slice]

\* Mutant: a sent entry goes back to the end of the view's queue.
CommitRequeued ==
    /\ sent' = IF current.kind \in {"claim", "drain"}
               THEN [sent EXCEPT ![current.entry] = @ + 1] ELSE sent
    /\ live' = IF current.active THEN [live EXCEPT ![current.view] = current.shown] ELSE live
    /\ UNCHANGED <<parked, held>>

\* What a durable transaction allows: a claimed entry is sent; a promoted one
\* lifts the park; an emptied queue does too.
Commit ==
    LET after  == stored[current.sid]
        lifted == after = << >> \/ current.kind = "promote"
    IN
    /\ sent' = IF current.kind \in {"claim", "drain"}
               THEN [sent EXCEPT ![current.entry] = @ + 1] ELSE sent
    /\ live' = IF current.active THEN [live EXCEPT ![current.view] = after] ELSE live
    /\ parked' = IF lifted THEN parked \ {current.sid} ELSE parked
    /\ held' = IF lifted /\ current.active THEN [held EXCEPT ![current.view] = FALSE]
               ELSE held

\* Saved.  If the view shows another session by now, the slice is restored and
\* saved again before the mutex is released.
Saved ==
    /\ current # Idle /\ current.step = "save"
    /\ disk' = stored
    /\ IF RequiresActive(current) /\ shows[current.view] # current.sid
       THEN /\ stored' = Restored
            /\ current' = [current EXCEPT !.step = "resave"]
            /\ UNCHANGED <<live, held, parked, sent, draining>>
       ELSE /\ Commit
            /\ ReleaseDrain(current)
            /\ current' = Idle
            /\ UNCHANGED stored
    /\ UNCHANGED <<shows, busy, pending, used>>

\* Mutant: a failed save keeps the slice as the transaction left it.
SaveFailsKeeps ==
    /\ current # Idle /\ current.step = "save"
    /\ Commit
    /\ ReleaseDrain(current)
    /\ current' = Idle
    /\ UNCHANGED <<shows, busy, diskVars, pending, used>>

\* The save failed: the slice is restored and, if the view still shows the
\* session, the view's queue too, which is then parked.
SaveFails ==
    /\ current # Idle /\ current.step = "save"
    /\ stored' = Restored
    /\ IF shows[current.view] = current.sid
       THEN /\ live' = [live EXCEPT ![current.view] = current.shown]
            /\ parked' = parked \cup {current.sid}
            /\ held' = [held EXCEPT ![current.view] = TRUE]
       ELSE UNCHANGED <<live, parked, held>>
    /\ ReleaseDrain(current)
    /\ current' = Idle
    /\ UNCHANGED <<shows, busy, disk, pending, history>>

\* The second save ends, and a failure of it is swallowed.
Resaved(ok) ==
    /\ current # Idle /\ current.step = "resave"
    /\ disk' = IF ok THEN stored ELSE disk
    /\ ReleaseDrain(current)
    /\ current' = Idle
    /\ UNCHANGED <<shows, live, busy, held, stored, parked, pending, history>>

\* Any other change of the settings saves the queues as they are.
SaveElsewhere ==
    /\ Quiet
    /\ disk # stored
    /\ disk' = stored
    /\ UNCHANGED <<viewVars, stored, parked, txVars, history>>

\* The plugin is unloaded, or Obsidian ends, and loads what data.json holds.
Restart ==
    /\ Quiet
    /\ LET loaded == [s \in Sessions |->
                         SubSeq(disk[s], 1, IF Len(disk[s]) < MaxPerSession
                                            THEN Len(disk[s]) ELSE MaxPerSession)]
       IN  /\ stored' = loaded
           /\ live' = [v \in Views |-> loaded[shows[v]]]
    /\ busy' = [v \in Views |-> FALSE]
    /\ held' = [v \in Views |-> FALSE]
    /\ draining' = [v \in Views |-> FALSE]
    /\ parked' = {}
    /\ pending' = << >>
    /\ current' = Idle
    /\ UNCHANGED <<shows, disk, history>>

-----------------------------------------------------------------------------
UserStep ==
    \E v \in Views :
        \/ \E e \in Entries : Enqueue(v, e) \/ RemoveRow(v, e) \/ SendNow(v, e)
        \/ Resume(v) \/ Stop(v) \/ Turn(v)
        \/ \E s \in Sessions : Switch(v, s) \/ Delete(v, s)

Next ==
    \/ UserStep
    \/ \E v \in Views : Drain(v)
    \/ Start \/ Saved \/ SaveFails \/ \E ok \in BOOLEAN : Resaved(ok)
    \/ SaveElsewhere \/ Restart

Spec == Init /\ [][Next]_vars

-----------------------------------------------------------------------------
(* Properties.                                                             *)

\* Type invariant of the queue's state: no queue holds a prompt twice.
TypeOK ==
    /\ shows \in [Views -> Sessions]
    /\ live \in [Views -> Queues]
    /\ busy \in [Views -> BOOLEAN]
    /\ held \in [Views -> BOOLEAN]
    /\ draining \in [Views -> BOOLEAN]
    /\ {stored, disk} \subseteq [Sessions -> Queues]
    /\ parked \subseteq Sessions
    /\ pending \in Seq(Requests) /\ Len(pending) <= MaxPending
    /\ current \in Transactions \cup {Idle}
    /\ used \subseteq Entries
    /\ sent \in [Entries -> Nat]

Holds(queues, e) == \E s \in Sessions : Contains(queues[s], e)

\* No prompt is sent twice, by the drain effect, the user or a restart.
SentOnce == \A e \in Entries : sent[e] <= 1

\* A sent prompt is off the disk already: a crash right after the dispatch
\* finds no entry to send again.
SentOffDisk == \A e \in Entries : sent[e] > 0 => ~Holds(disk, e)

\* The queues as the last finished transaction left them.
Committed == IF current = Idle \/ current.step = "resave" THEN stored ELSE Restored

\* A prompt leaves the settled queues by a transaction of that very prompt, by
\* the deletion of its session or by a restart: a change of session or another
\* prompt's failed save takes none along.  The exception is a transaction that
\* found its view not mirroring the settings.
LeavesByName ==
    [][\A e \in Entries :
        Holds(Committed, e) /\ ~Holds(Committed', e) =>
            \/ current # Idle /\ current.entry \in {e, NoEntry}
            \/ current # Idle /\ current.shown # current.slice
            \/ current' = Idle /\ pending' = << >>]_vars

\* What has become of a prompt, for the ledger this queue implements.
Offered(e) ==
    \/ \E i \in DOMAIN pending : pending[i].kind = "enqueue" /\ pending[i].entry = e
    \/ current # Idle /\ current.step = "save"
       /\ current.kind = "enqueue" /\ current.entry = e

Fate(e) ==
    CASE Holds(Committed, e) -> "queued"
      [] ~Holds(Committed, e) /\ sent[e] > 0 -> "sent"
      [] e \notin used -> "fresh"
      [] OTHER -> IF Offered(e) THEN "offered" ELSE "gone"

Ledger == INSTANCE QueueLedger WITH fate <- [e \in Entries |-> Fate(e)]

\* The queue implements the ledger: a prompt is sent from the queue only, never
\* when its offer failed or the user removed it, and never queued again.
KeepsLedger == Ledger!Spec
=============================================================================
