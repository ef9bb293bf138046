------------------------- MODULE PromptQueueProofs -------------------------
(***************************************************************************)
(* TLAPS proofs about PromptQueue, for any number of sessions, prompts and *)
(* waiting transactions: types and the fate of the queues for any views;   *)
(* that a prompt is sent once, off the disk first, while no two views show *)
(* one session; and, for a single view, that the queue implements the      *)
(* ledger of QueueLedger.                                                  *)
(***************************************************************************)
EXTENDS PromptQueue, SequenceTheorems, TLAPS

\* No two views show one session.  Two that do each keep a queue of their own
\* and can both send its head.
Apart == \A v, w \in Views : shows[v] = shows[w] => v = w

\* The save in flight is that of the updated slice; a transaction about one
\* prompt found it in the queue the view showed, and all but a deletion found
\* the view showing the session.
TxSound ==
    current # Idle /\ current.step = "save" =>
        /\ stored[current.sid] = Updated(current, current.shown)
        /\ ~Vanished(current, current.shown)
        /\ RequiresActive(current) => current.active

\* Everywhere a prompt of session s can be found, or come back from.
At(e, s) ==
    \/ Contains(stored[s], e) \/ Contains(disk[s], e)
    \/ \E v \in Views : shows[v] = s /\ Contains(live[v], e)
    \/ /\ current # Idle /\ current.sid = s
       /\ Contains(current.shown, e) \/ Contains(current.slice, e)

Waits(i, e) == i \in DOMAIN pending /\ pending[i].kind = "enqueue" /\ pending[i].entry = e

\* A prompt belongs to one session, waits to be queued once, and is nowhere
\* while it waits and once it was sent.
Once ==
    /\ \A e \in Entries, s \in Sessions : At(e, s) =>
          e \in used /\ sent[e] = 0 /\ \A i \in DOMAIN pending : ~Waits(i, e)
    /\ \A e \in Entries, s \in Sessions, r \in Sessions : At(e, s) /\ At(e, r) => s = r
    /\ \A e \in Entries, i \in DOMAIN pending : Waits(i, e) =>
          /\ e \in used /\ sent[e] = 0
          /\ \A j \in DOMAIN pending : Waits(j, e) => i = j
    /\ \A e \in Entries : sent[e] \in {0, 1} /\ (sent[e] = 1 => e \in used)

\* What the only view shows is in the settings too.
Mirrors ==
    /\ \A v \in Views, e \in Entries : Contains(live[v], e) => Contains(stored[shows[v]], e)
    /\ current # Idle /\ current.step = "save" =>
          \A e \in Entries : Contains(current.shown, e) => Contains(current.slice, e)

-----------------------------------------------------------------------------
(* Queues: sequences of prompts without repetition.                        *)

LEMMA EmptyQueue == << >> \in Queues /\ \A x : ~Contains(<< >>, x)
BY DEF Queues, IsInjective, Contains

LEMMA MinOne == ASSUME NEW k \in Nat PROVE Min({k}) = k
BY DEF Min

\* The removal of the only occurrence of an element.
LEMMA RemoveFirstAt ==
    ASSUME NEW S, NEW q \in Seq(S), IsInjective(q), NEW k \in 1 .. Len(q)
    PROVE  RemoveFirst(q, q[k]) = RemoveAt(q, k)
<1>1. {i \in 1 .. Len(q) : q[i] = q[k]} = {k}
  BY DEF IsInjective
<1>2. SelectInSeq(q, LAMBDA v : v = q[k]) = k
  BY <1>1, MinOne DEF SelectInSeq
<1> QED BY <1>2 DEF RemoveFirst

LEMMA RemoveAtElements ==
    ASSUME NEW S, NEW q \in Seq(S), NEW k \in 1 .. Len(q)
    PROVE  /\ RemoveAt(q, k) \in Seq(S) /\ Len(RemoveAt(q, k)) = Len(q) - 1
           /\ \A i \in 1 .. Len(q) - 1 : RemoveAt(q, k)[i] = IF i < k THEN q[i] ELSE q[i + 1]
<1> DEFINE a == SubSeq(q, 1, k - 1)
           b == SubSeq(q, k + 1, Len(q))
<1>1. a \in Seq(S) /\ Len(a) = k - 1 /\ \A i \in 1 .. k - 1 : a[i] = q[i]
  BY SubSeqProperties
<1>2. b \in Seq(S) /\ Len(b) = Len(q) - k /\ \A i \in 1 .. Len(q) - k : b[i] = q[i + k]
  BY SubSeqProperties
<1>3. RemoveAt(q, k) = a \o b
  BY DEF RemoveAt
<1> HIDE DEF a, b
<1>4. /\ a \o b \in Seq(S) /\ Len(a \o b) = Len(q) - 1
      /\ \A i \in 1 .. Len(q) - 1 : (a \o b)[i] = IF i <= k - 1 THEN a[i] ELSE b[i - (k - 1)]
  BY <1>1, <1>2, ConcatProperties
<1>5. \A i \in 1 .. Len(q) - 1 : (a \o b)[i] = IF i < k THEN q[i] ELSE q[i + 1]
  BY <1>1, <1>2, <1>4
<1> QED BY <1>3, <1>4, <1>5

LEMMA AppendQueue ==
    ASSUME NEW q \in Queues, NEW e \in Entries, ~Contains(q, e)
    PROVE  /\ Append(q, e) \in Queues
           /\ \A x : Contains(Append(q, e), x) <=> Contains(q, x) \/ x = e
<1>1. q \in Seq(Entries) /\ IsInjective(q)
  BY DEF Queues
<1>2. /\ Append(q, e) \in Seq(Entries) /\ Len(Append(q, e)) = Len(q) + 1
      /\ \A i \in 1 .. Len(q) : Append(q, e)[i] = q[i]
      /\ Append(q, e)[Len(q) + 1] = e /\ DOMAIN q = 1 .. Len(q)
      /\ DOMAIN Append(q, e) = 1 .. Len(q) + 1 /\ Len(q) \in Nat
  BY <1>1, AppendProperties
<1> DEFINE r == Append(q, e)
<1> HIDE DEF r
<1>3. IsInjective(r)
  BY <1>1, <1>2 DEF IsInjective, Contains, r
<1>4. \A x : Contains(r, x) <=> Contains(q, x) \/ x = e
  BY <1>2 DEF Contains, r
<1> QED BY <1>2, <1>3, <1>4 DEF Queues, r

LEMMA RemoveQueue ==
    ASSUME NEW q \in Queues, NEW e
    PROVE  /\ RemoveFirst(q, e) \in Queues
           /\ \A x : Contains(RemoveFirst(q, e), x) <=> Contains(q, x) /\ x # e
<1>1. q \in Seq(Entries) /\ IsInjective(q) /\ DOMAIN q = 1 .. Len(q) /\ Len(q) \in Nat
  BY DEF Queues
<1>2. CASE ~Contains(q, e)
  <2>1. RemoveFirst(q, e) = q
    BY <1>2 DEF RemoveFirst, Contains
  <2> QED BY <1>2, <2>1 DEF Contains
<1>3. CASE Contains(q, e)
  <2>1. PICK k \in 1 .. Len(q) : q[k] = e
    BY <1>3 DEF Contains
  <2> DEFINE r == RemoveFirst(q, e)
  <2>2. /\ r \in Seq(Entries) /\ Len(r) = Len(q) - 1
        /\ \A i \in 1 .. Len(q) - 1 : r[i] = IF i < k THEN q[i] ELSE q[i + 1]
    <3>1. r = RemoveAt(q, k)
      BY <1>1, <2>1, RemoveFirstAt
    <3> HIDE DEF r
    <3> QED BY <1>1, <3>1, RemoveAtElements
  <2>3. DOMAIN r = 1 .. Len(q) - 1
    BY <2>2
  <2> HIDE DEF r
  <2>4. IsInjective(r)
    <3> SUFFICES ASSUME NEW i \in 1 .. Len(q) - 1, NEW j \in 1 .. Len(q) - 1, r[i] = r[j] PROVE i = j
      BY <2>3 DEF IsInjective
    <3>1. PICK a \in 1 .. Len(q) : a = IF i < k THEN i ELSE i + 1
      BY <1>1
    <3>2. PICK b \in 1 .. Len(q) : b = IF j < k THEN j ELSE j + 1
      BY <1>1
    <3>3. q[a] = q[b]
      BY <2>2, <3>1, <3>2
    <3>4. a = b
      BY <1>1, <3>3 DEF IsInjective
    <3> QED BY <1>1, <3>1, <3>2, <3>4
  <2>5. ASSUME NEW x, Contains(r, x) PROVE Contains(q, x) /\ x # e
    <3>1. PICK i \in 1 .. Len(q) - 1 : r[i] = x
      BY <2>2, <2>5 DEF Contains
    <3>2. CASE i < k
      BY <1>1, <2>1, <2>2, <3>1, <3>2, SMTT(20) DEF Contains, IsInjective
    <3>3. CASE ~(i < k)
      <4>1. i + 1 \in 1 .. Len(q) /\ i + 1 # k /\ q[i + 1] = x
        BY <1>1, <2>1, <2>2, <3>1, <3>3
      <4> QED BY <1>1, <2>1, <4>1 DEF Contains, IsInjective
    <3> QED BY <3>2, <3>3
  <2>6. ASSUME NEW x, Contains(q, x), x # e PROVE Contains(r, x)
    <3>1. PICK i \in 1 .. Len(q) : q[i] = x
      BY <2>6 DEF Contains
    <3>2. CASE i < k
      <4>1. i \in 1 .. Len(r) /\ r[i] = x
        BY <1>1, <2>1, <2>2, <3>1, <3>2
      <4> QED BY <4>1 DEF Contains
    <3>3. CASE i > k
      <4>1. i - 1 \in 1 .. Len(q) - 1 /\ ~(i - 1 < k) /\ (i - 1) + 1 = i
        BY <1>1, <3>3
      <4>2. i - 1 \in 1 .. Len(r) /\ r[i - 1] = x
        BY <2>2, <3>1, <4>1
      <4> QED BY <4>2 DEF Contains
    <3> QED BY <1>1, <2>1, <2>6, <3>1, <3>2, <3>3
  <2> QED BY <2>2, <2>4, <2>5, <2>6 DEF Queues, r
<1> QED BY <1>2, <1>3

LEMMA PromoteQueue ==
    ASSUME NEW q \in Queues, NEW e \in Entries
    PROVE  /\ <<e>> \o RemoveFirst(q, e) \in Queues
           /\ \A x : Contains(<<e>> \o RemoveFirst(q, e), x) <=> Contains(q, x) \/ x = e
<1> DEFINE r == RemoveFirst(q, e)
           p == <<e>> \o r
<1>1. r \in Queues /\ \A x : Contains(r, x) <=> Contains(q, x) /\ x # e
  BY RemoveQueue
<1> HIDE DEF r
<1>2. r \in Seq(Entries) /\ IsInjective(r) /\ DOMAIN r = 1 .. Len(r) /\ Len(r) \in Nat
  BY <1>1 DEF Queues
<1>3. <<e>> \in Seq(Entries) /\ Len(<<e>>) = 1 /\ <<e>>[1] = e
  OBVIOUS
<1>4. /\ p \in Seq(Entries) /\ Len(p) = 1 + Len(r)
      /\ \A i \in 1 .. 1 + Len(r) : p[i] = IF i <= 1 THEN <<e>>[i] ELSE r[i - 1]
  BY <1>2, <1>3, ConcatProperties
<1>5. DOMAIN p = 1 .. 1 + Len(r) /\ p[1] = e /\ \A i \in 2 .. 1 + Len(r) : p[i] = r[i - 1] /\ p[i] # e
  <2>1. DOMAIN p = 1 .. 1 + Len(r)
    BY <1>4
  <2>2. \A i \in 1 .. Len(r) : r[i] # e
    BY <1>1 DEF Contains
  <2> QED BY <1>2, <1>3, <1>4, <2>1, <2>2
<1> HIDE DEF p
<1>6. IsInjective(p)
  BY <1>2, <1>5 DEF IsInjective
<1>7. \A x : Contains(p, x) <=> Contains(r, x) \/ x = e
  <2>1. ASSUME NEW x, Contains(p, x) PROVE Contains(r, x) \/ x = e
    <3>1. PICK i \in 1 .. 1 + Len(r) : p[i] = x
      BY <1>4, <2>1 DEF Contains
    <3>2. i = 1 \/ (i - 1 \in 1 .. Len(r) /\ r[i - 1] = x)
      BY <1>2, <1>5, <3>1
    <3> QED BY <1>5, <3>1, <3>2 DEF Contains
  <2>2. ASSUME NEW x, Contains(r, x) PROVE Contains(p, x)
    <3>1. PICK i \in 1 .. Len(r) : r[i] = x
      BY <2>2 DEF Contains
    <3>2. i + 1 \in 1 .. Len(p) /\ p[i + 1] = x
      BY <1>2, <1>4, <1>5, <3>1
    <3> QED BY <3>2 DEF Contains
  <2>3. Contains(p, e)
    BY <1>2, <1>4, <1>5 DEF Contains
  <2> QED BY <2>1, <2>2, <2>3
<1> QED BY <1>1, <1>4, <1>6, <1>7 DEF Queues, p, r

LEMMA PrefixQueue ==
    ASSUME NEW q \in Queues, NEW n \in 0 .. Len(q)
    PROVE  /\ SubSeq(q, 1, n) \in Queues
           /\ \A x : Contains(SubSeq(q, 1, n), x) => Contains(q, x)
<1>1. q \in Seq(Entries) /\ IsInjective(q) /\ DOMAIN q = 1 .. Len(q) /\ Len(q) \in Nat
  BY DEF Queues
<1> DEFINE r == SubSeq(q, 1, n)
<1>2. r \in Seq(Entries) /\ Len(r) = n /\ \A i \in 1 .. n : r[i] = q[i]
  BY <1>1, SubSeqProperties
<1>3. DOMAIN r = 1 .. n
  BY <1>2
<1> HIDE DEF r
<1>4. IsInjective(r) /\ \A x : Contains(r, x) => Contains(q, x)
  BY <1>1, <1>2, <1>3 DEF IsInjective, Contains
<1> QED BY <1>2, <1>4 DEF Queues, r

\* What the updater of a transaction does to a queue.
LEMMA UpdatedQueue ==
    ASSUME NEW t, NEW q \in Queues, t.kind \in Kinds, t.kind # "clear" => t.entry \in Entries
    PROVE  /\ Updated(t, q) \in Queues
           /\ t.kind = "clear" => Updated(t, q) = << >>
           /\ \A x : Contains(Updated(t, q), x) =>
                 Contains(q, x) \/ (t.kind \in {"enqueue", "promote"} /\ x = t.entry)
           /\ \A x : Contains(q, x) /\ t.kind # "clear" /\ x # t.entry => Contains(Updated(t, q), x)
           /\ t.kind \in {"remove", "claim", "drain"} => ~Contains(Updated(t, q), t.entry)
           /\ t.kind \in {"enqueue", "promote"} => Contains(Updated(t, q), t.entry)
<1>1. CASE t.kind = "enqueue"
  BY <1>1, AppendQueue DEF Updated
<1>2. CASE t.kind = "promote"
  BY <1>2, PromoteQueue DEF Updated
<1>3. CASE t.kind = "clear"
  BY <1>3, EmptyQueue DEF Updated
<1>4. CASE t.kind \in {"remove", "claim", "drain"}
  BY <1>4, RemoveQueue DEF Updated
<1> QED BY <1>1, <1>2, <1>3, <1>4 DEF Kinds

-----------------------------------------------------------------------------
(* Types.                                                                  *)

LEMMA TypeInit == Init => TypeOK
BY EmptyQueue, BoundsAssumption DEF Init, TypeOK

LEMMA RequestTyped ==
    ASSUME TypeOK, NEW k \in Kinds, NEW v \in Views, NEW s \in Sessions,
           NEW e \in Entries \cup {NoEntry}, k = "clear" <=> e = NoEntry, Request(k, v, s, e)
    PROVE  /\ pending' \in Seq(Requests) /\ Len(pending') <= MaxPending
           /\ Len(pending') = Len(pending) + 1
           /\ \A i \in DOMAIN pending : i \in DOMAIN pending' /\ pending'[i] = pending[i]
           /\ \A i \in DOMAIN pending' : i \in DOMAIN pending \/ i = Len(pending')
           /\ pending'[Len(pending')] = [kind |-> k, view |-> v, sid |-> s, entry |-> e]
<1> DEFINE r == [kind |-> k, view |-> v, sid |-> s, entry |-> e]
<1>1. r \in Requests
  BY DEF Requests
<1>2. pending \in Seq(Requests) /\ Len(pending) < MaxPending /\ pending' = Append(pending, r)
  BY DEF TypeOK, Request
<1> HIDE DEF r
<1>3. /\ pending' \in Seq(Requests) /\ Len(pending') = Len(pending) + 1
      /\ \A i \in DOMAIN pending : i \in DOMAIN pending' /\ pending'[i] = pending[i]
      /\ \A i \in DOMAIN pending' : i \in DOMAIN pending \/ i = Len(pending')
      /\ pending'[Len(pending')] = r
  BY <1>1, <1>2
<1>4. Len(pending') <= MaxPending
  BY <1>2, <1>3, BoundsAssumption
<1> QED BY <1>3, <1>4 DEF r

LEMMA HeadTyped ==
    ASSUME TypeOK, pending # << >>
    PROVE  /\ Head(pending) \in Requests /\ 1 \in DOMAIN pending /\ Head(pending) = pending[1]
           /\ Head(pending).kind \in Kinds /\ Head(pending).view \in Views
           /\ Head(pending).sid \in Sessions /\ Head(pending).entry \in Entries \cup {NoEntry}
           /\ Head(pending).kind # "clear" => Head(pending).entry \in Entries
           /\ Head(pending).kind = "clear" => Head(pending).entry = NoEntry
           /\ Tail(pending) \in Seq(Requests) /\ Len(Tail(pending)) <= MaxPending
           /\ \A i \in DOMAIN Tail(pending) :
                 i + 1 \in DOMAIN pending /\ Tail(pending)[i] = pending[i + 1] /\ i + 1 # 1
<1>1. pending \in Seq(Requests) /\ Len(pending) <= MaxPending
  BY DEF TypeOK
<1>2. /\ Head(pending) \in Requests /\ 1 \in DOMAIN pending /\ Head(pending) = pending[1]
      /\ Tail(pending) \in Seq(Requests) /\ Len(Tail(pending)) = Len(pending) - 1
      /\ \A i \in DOMAIN Tail(pending) :
            i + 1 \in DOMAIN pending /\ Tail(pending)[i] = pending[i + 1] /\ i + 1 # 1
  BY <1>1
<1>3. Len(Tail(pending)) <= MaxPending
  BY <1>1, <1>2, BoundsAssumption
<1> QED BY <1>2, <1>3 DEF Requests

LEMMA CurrentTyped ==
    ASSUME TypeOK, current # Idle
    PROVE  /\ current \in Transactions /\ current.kind \in Kinds /\ current.view \in Views
           /\ current.sid \in Sessions /\ current.entry \in Entries \cup {NoEntry}
           /\ current.active \in BOOLEAN /\ current.step \in {"save", "resave"}
           /\ current.shown \in Queues /\ current.slice \in Queues
           /\ current.kind # "clear" => current.entry \in Entries
           /\ current.kind = "clear" => current.entry = NoEntry
           /\ Restored \in [Sessions -> Queues]
           /\ Restored[current.sid] = current.slice
           /\ \A s \in Sessions : s # current.sid => Restored[s] = stored[s]
BY DEF TypeOK, Transactions, Restored

\* A transaction starts: refused, or applied to the slice and shown.
Refused ==
    LET t      == Head(pending)
        active == shows[t.view] = t.sid
        before == IF active THEN live[t.view] ELSE stored[t.sid]
    IN  (RequiresActive(t) /\ ~active) \/ Vanished(t, before)

LEMMA StartRefused ==
    ASSUME TypeOK, Start, Refused
    PROVE  /\ pending # << >> /\ current = Idle /\ pending' = Tail(pending)
           /\ live' = live /\ stored' = stored /\ current' = current /\ disk' = disk
           /\ shows' = shows /\ used' = used /\ sent' = sent
           /\ busy' = busy /\ held' = held /\ parked' = parked
           /\ ReleaseDrain(Head(pending))
BY DEF Start, Refused, history

LEMMA StartApplied ==
    ASSUME TypeOK, Start, ~Refused
    PROVE  /\ pending # << >> /\ current = Idle /\ pending' = Tail(pending)
           /\ current' \in Transactions /\ current' # Idle
           /\ current'.kind = Head(pending).kind /\ current'.view = Head(pending).view
           /\ current'.sid = Head(pending).sid /\ current'.entry = Head(pending).entry
           /\ current'.step = "save"
           /\ current'.active = (shows[current'.view] = current'.sid)
           /\ RequiresActive(current') => current'.active
           /\ current'.shown = IF current'.active THEN live[current'.view] ELSE stored[current'.sid]
           /\ ~Vanished(current', current'.shown)
           /\ current'.slice = stored[current'.sid]
           /\ Updated(current', current'.shown) \in Queues
           /\ stored' = [stored EXCEPT ![current'.sid] = Updated(current', current'.shown)]
           /\ live' = IF current'.active
                      THEN [live EXCEPT ![current'.view] = Updated(current', current'.shown)] ELSE live
           /\ disk' = disk /\ shows' = shows /\ used' = used /\ sent' = sent
           /\ busy' = busy /\ held' = held /\ parked' = parked /\ draining' = draining
<1> DEFINE t      == Head(pending)
           active == shows[t.view] = t.sid
           before == IF active THEN live[t.view] ELSE stored[t.sid]
           after  == Updated(t, before)
           next   == [kind |-> t.kind, view |-> t.view, sid |-> t.sid, entry |-> t.entry,
                      active |-> active, step |-> "save", shown |-> before, slice |-> stored[t.sid]]
<1>1. /\ pending # << >> /\ current = Idle /\ pending' = Tail(pending)
      /\ disk' = disk /\ shows' = shows /\ used' = used /\ sent' = sent
      /\ busy' = busy /\ held' = held /\ parked' = parked
  BY DEF Start, history
<1>2. /\ ~(RequiresActive(t) /\ ~active) /\ ~Vanished(t, before)
      /\ stored' = [stored EXCEPT ![t.sid] = after]
      /\ live' = IF active THEN [live EXCEPT ![t.view] = after] ELSE live
      /\ current' = next /\ draining' = draining
  BY DEF Start, Refused
<1>3. /\ t \in Requests /\ t.kind \in Kinds /\ t.view \in Views /\ t.sid \in Sessions
      /\ t.entry \in Entries \cup {NoEntry} /\ (t.kind = "clear" <=> t.entry = NoEntry)
  BY <1>1, HeadTyped DEF Requests
<1>4. before \in Queues /\ stored[t.sid] \in Queues /\ active \in BOOLEAN
  BY <1>3 DEF TypeOK
<1> HIDE DEF t, active, before
<1>5. next \in Transactions
  BY <1>3, <1>4 DEF Transactions
<1>6. after \in Queues
  BY <1>3, <1>4, UpdatedQueue
<1>7. next # Idle
  BY <1>5, BoundsAssumption
<1>8. /\ next.kind = t.kind /\ next.view = t.view /\ next.sid = t.sid /\ next.entry = t.entry
      /\ next.step = "save" /\ next.active = active /\ next.shown = before /\ next.slice = stored[t.sid]
  OBVIOUS
<1>9. Updated(next, before) = after /\ (Vanished(next, before) <=> Vanished(t, before))
  BY <1>8 DEF Updated, Vanished
<1>10. RequiresActive(next) <=> RequiresActive(t)
  BY <1>8 DEF RequiresActive
<1>11. /\ next.active = (shows[next.view] = next.sid)
       /\ next.shown = IF next.active THEN live[next.view] ELSE stored[next.sid]
  BY <1>8 DEF active, before
<1> HIDE DEF next, after
<1> QED BY <1>1, <1>2, <1>5, <1>6, <1>7, <1>8, <1>9, <1>10, <1>11 DEF t

LEMMA ReleaseTyped ==
    ASSUME TypeOK, NEW t, ReleaseDrain(t)
    PROVE  draining' \in [Views -> BOOLEAN]
BY DEF TypeOK, ReleaseDrain

\* What a saved transaction does while its view shows the session, or when it
\* clears a deleted one.
LEMMA CommitTyped ==
    ASSUME TypeOK, current # Idle, Commit
    PROVE  /\ live' \in [Views -> Queues] /\ held' \in [Views -> BOOLEAN]
           /\ parked' \subseteq Sessions /\ sent' \in [Entries -> Nat]
           /\ live' = IF current.active THEN [live EXCEPT ![current.view] = stored[current.sid]] ELSE live
           /\ sent' = IF current.kind \in {"claim", "drain"}
                      THEN [sent EXCEPT ![current.entry] = @ + 1] ELSE sent
<1>1. stored[current.sid] \in Queues /\ current.view \in Views
  BY CurrentTyped DEF TypeOK
<1>2. /\ live' = IF current.active THEN [live EXCEPT ![current.view] = stored[current.sid]] ELSE live
      /\ sent' = IF current.kind \in {"claim", "drain"}
                 THEN [sent EXCEPT ![current.entry] = @ + 1] ELSE sent
  BY DEF Commit
<1>3. live' \in [Views -> Queues]
  BY <1>1, <1>2 DEF TypeOK
<1>5. sent' \in [Entries -> Nat]
  <2>1. CASE current.kind \in {"claim", "drain"}
    <3>1. current.entry \in Entries /\ sent[current.entry] + 1 \in Nat
      BY <2>1, CurrentTyped DEF TypeOK
    <3>2. sent' = [sent EXCEPT ![current.entry] = sent[current.entry] + 1]
      BY <1>2, <2>1
    <3> QED BY <3>1, <3>2 DEF TypeOK
  <2>2. CASE current.kind \notin {"claim", "drain"}
    BY <1>2, <2>2 DEF TypeOK
  <2> QED BY <2>1, <2>2
<1>4. held' \in [Views -> BOOLEAN] /\ parked' \subseteq Sessions
  BY DEF Commit, TypeOK
<1> QED BY <1>2, <1>3, <1>4, <1>5

LEMMA LoadedTyped ==
    ASSUME TypeOK, Restart
    PROVE  /\ stored' \in [Sessions -> Queues] /\ live' \in [Views -> Queues]
           /\ \A s \in Sessions : \A x : Contains(stored'[s], x) => Contains(disk[s], x)
           /\ \A v \in Views : live'[v] = stored'[shows[v]]
<1> DEFINE n(s) == IF Len(disk[s]) < MaxPerSession THEN Len(disk[s]) ELSE MaxPerSession
<1>1. stored' = [s \in Sessions |-> SubSeq(disk[s], 1, n(s))]
  BY DEF Restart
<1>2. live' = [v \in Views |-> [s \in Sessions |-> SubSeq(disk[s], 1, n(s))][shows[v]]]
  BY DEF Restart
<1>3. ASSUME NEW s \in Sessions
      PROVE  /\ disk[s] \in Queues /\ n(s) \in 0 .. Len(disk[s])
             /\ SubSeq(disk[s], 1, n(s)) \in Queues
             /\ \A x : Contains(SubSeq(disk[s], 1, n(s)), x) => Contains(disk[s], x)
  <2>1. disk[s] \in Queues /\ Len(disk[s]) \in Nat
    BY DEF TypeOK, Queues
  <2>2. n(s) \in 0 .. Len(disk[s])
    BY <2>1, BoundsAssumption
  <2> HIDE DEF n
  <2> QED BY <2>1, <2>2, PrefixQueue
<1> HIDE DEF n
<1>4. \A v \in Views : shows[v] \in Sessions
  BY DEF TypeOK
<1>5. /\ stored' \in [Sessions -> Queues]
      /\ \A s \in Sessions : stored'[s] = SubSeq(disk[s], 1, n(s))
  BY <1>1, <1>3
<1>6. live' \in [Views -> Queues] /\ \A v \in Views : live'[v] = stored'[shows[v]]
  BY <1>2, <1>3, <1>4, <1>5
<1> QED BY <1>3, <1>5, <1>6

\* The actions that only ask for a transaction, and those that touch no queue.
Asks ==
    \E v \in Views :
        \/ \E e \in Entries : Enqueue(v, e) \/ RemoveRow(v, e) \/ SendNow(v, e)
        \/ Drain(v) \/ \E s \in Sessions : Delete(v, s)

Idles == \E v \in Views : Resume(v) \/ Stop(v) \/ Turn(v)

Asked(r) ==
    /\ r \in Requests /\ pending' \in Seq(Requests) /\ Len(pending') <= MaxPending
    /\ Len(pending') = Len(pending) + 1
    /\ \A i \in DOMAIN pending : i \in DOMAIN pending' /\ pending'[i] = pending[i]
    /\ \A i \in DOMAIN pending' : i \in DOMAIN pending \/ i = Len(pending')
    /\ pending'[Len(pending')] = r
    /\ \/ r.kind = "enqueue" /\ r.entry \notin used /\ used' = used \cup {r.entry}
       \/ r.kind # "enqueue" /\ used' = used
    /\ shows' = shows /\ live' = live /\ stored' = stored /\ disk' = disk
    /\ current' = current /\ sent' = sent

LEMMA AskedRequest ==
    ASSUME TypeOK, NEW k \in Kinds, NEW v \in Views, NEW s \in Sessions,
           NEW e \in Entries \cup {NoEntry}, k = "clear" <=> e = NoEntry, Request(k, v, s, e),
           shows' = shows, live' = live, stored' = stored, disk' = disk,
           current' = current, sent' = sent,
           \/ k = "enqueue" /\ e \notin used /\ used' = used \cup {e}
           \/ k # "enqueue" /\ used' = used
    PROVE  \E r \in Requests : Asked(r)
<1> DEFINE r == [kind |-> k, view |-> v, sid |-> s, entry |-> e]
<1>1. r \in Requests /\ r.kind = k /\ r.entry = e
  BY DEF Requests
<1>2. /\ pending' \in Seq(Requests) /\ Len(pending') <= MaxPending
      /\ Len(pending') = Len(pending) + 1
      /\ \A i \in DOMAIN pending : i \in DOMAIN pending' /\ pending'[i] = pending[i]
      /\ \A i \in DOMAIN pending' : i \in DOMAIN pending \/ i = Len(pending')
      /\ pending'[Len(pending')] = r
  BY RequestTyped
<1> HIDE DEF r
<1> QED BY <1>1, <1>2 DEF Asked

LEMMA AsksEffect ==
    ASSUME TypeOK, Asks
    PROVE  /\ \E r \in Requests : Asked(r)
           /\ busy' = busy /\ held' \in [Views -> BOOLEAN] /\ draining' \in [Views -> BOOLEAN]
           /\ parked' \subseteq Sessions
<1> USE DEF Kinds
<1>s. \A v \in Views : shows[v] \in Sessions
  BY DEF TypeOK
<1>n. \A e \in Entries : e # NoEntry
  BY BoundsAssumption
<1>1. ASSUME NEW v \in Views, NEW e \in Entries, Enqueue(v, e)
      PROVE  /\ \E r \in Requests : Asked(r)
             /\ busy' = busy /\ held' \in [Views -> BOOLEAN] /\ draining' \in [Views -> BOOLEAN]
             /\ parked' \subseteq Sessions
  <2>1. /\ Request("enqueue", v, shows[v], e) /\ e \notin used /\ used' = used \cup {e}
        /\ shows' = shows /\ live' = live /\ stored' = stored /\ disk' = disk
        /\ current' = current /\ sent' = sent /\ busy' = busy /\ draining' = draining
        /\ Unpark(v)
    BY <1>1 DEF Enqueue, diskVars
  <2>2. \E r \in Requests : Asked(r)
    BY <1>s, <1>n, <2>1, AskedRequest
  <2> QED BY <2>1, <2>2 DEF Unpark, TypeOK
<1>2. ASSUME NEW v \in Views, NEW e \in Entries, RemoveRow(v, e)
      PROVE  /\ \E r \in Requests : Asked(r)
             /\ busy' = busy /\ held' \in [Views -> BOOLEAN] /\ draining' \in [Views -> BOOLEAN]
             /\ parked' \subseteq Sessions
  <2>1. /\ Request("remove", v, shows[v], e) /\ used' = used
        /\ shows' = shows /\ live' = live /\ stored' = stored /\ disk' = disk
        /\ current' = current /\ sent' = sent /\ busy' = busy /\ draining' = draining
        /\ held' = held /\ parked' = parked
    BY <1>2 DEF RemoveRow, diskVars, viewVars, history
  <2>2. \E r \in Requests : Asked(r)
    BY <1>s, <1>n, <2>1, AskedRequest
  <2> QED BY <2>1, <2>2 DEF TypeOK
<1>3. ASSUME NEW v \in Views, NEW e \in Entries, SendNow(v, e)
      PROVE  /\ \E r \in Requests : Asked(r)
             /\ busy' = busy /\ held' \in [Views -> BOOLEAN] /\ draining' \in [Views -> BOOLEAN]
             /\ parked' \subseteq Sessions
  <2>1. /\ used' = used
        /\ shows' = shows /\ live' = live /\ stored' = stored /\ disk' = disk
        /\ current' = current /\ sent' = sent /\ busy' = busy /\ draining' = draining
    BY <1>3 DEF SendNow, diskVars, history
  <2>2. \/ Request("promote", v, shows[v], e) /\ parked' = parked /\ held' = held
        \/ Request("claim", v, shows[v], e) /\ Unpark(v)
    BY <1>3 DEF SendNow
  <2>3. \E r \in Requests : Asked(r)
    <3>1. CASE Request("promote", v, shows[v], e)
      BY <1>s, <1>n, <2>1, <3>1, AskedRequest
    <3>2. CASE Request("claim", v, shows[v], e)
      BY <1>s, <1>n, <2>1, <3>2, AskedRequest
    <3> QED BY <2>2, <3>1, <3>2
  <2> QED BY <2>1, <2>2, <2>3 DEF Unpark, TypeOK
<1>4. ASSUME NEW v \in Views, Drain(v)
      PROVE  /\ \E r \in Requests : Asked(r)
             /\ busy' = busy /\ held' \in [Views -> BOOLEAN] /\ draining' \in [Views -> BOOLEAN]
             /\ parked' \subseteq Sessions
  <2>1. /\ Request("drain", v, shows[v], Head(live[v])) /\ used' = used
        /\ shows' = shows /\ live' = live /\ stored' = stored /\ disk' = disk
        /\ current' = current /\ sent' = sent /\ busy' = busy
        /\ draining' = [draining EXCEPT ![v] = TRUE] /\ held' = held /\ parked' = parked
        /\ live[v] # << >>
    BY <1>4 DEF Drain, diskVars, history
  <2>2. Head(live[v]) \in Entries
    BY <2>1 DEF TypeOK, Queues
  <2>3. \E r \in Requests : Asked(r)
    BY <1>s, <1>n, <2>1, <2>2, AskedRequest
  <2> QED BY <2>1, <2>3 DEF TypeOK
<1>5. ASSUME NEW v \in Views, NEW s \in Sessions, Delete(v, s)
      PROVE  /\ \E r \in Requests : Asked(r)
             /\ busy' = busy /\ held' \in [Views -> BOOLEAN] /\ draining' \in [Views -> BOOLEAN]
             /\ parked' \subseteq Sessions
  <2>1. /\ Request("clear", v, s, NoEntry) /\ used' = used
        /\ shows' = shows /\ live' = live /\ stored' = stored /\ disk' = disk
        /\ current' = current /\ sent' = sent /\ busy' = busy /\ draining' = draining
        /\ held' = held /\ parked' = parked
    BY <1>5 DEF Delete, diskVars, viewVars, history
  <2>2. \E r \in Requests : Asked(r)
    BY <2>1, AskedRequest
  <2> QED BY <2>1, <2>2 DEF TypeOK
<1> QED BY <1>1, <1>2, <1>3, <1>4, <1>5 DEF Asks

LEMMA IdlesEffect ==
    ASSUME TypeOK, Idles
    PROVE  /\ shows' = shows /\ live' = live /\ stored' = stored /\ disk' = disk
           /\ pending' = pending /\ current' = current /\ used' = used /\ sent' = sent
           /\ busy' \in [Views -> BOOLEAN] /\ held' \in [Views -> BOOLEAN]
           /\ draining' = draining /\ parked' \subseteq Sessions
<1>1. ASSUME NEW v \in Views, Resume(v)
      PROVE  /\ shows' = shows /\ live' = live /\ stored' = stored /\ disk' = disk
             /\ pending' = pending /\ current' = current /\ used' = used /\ sent' = sent
             /\ busy' \in [Views -> BOOLEAN] /\ held' \in [Views -> BOOLEAN]
             /\ draining' = draining /\ parked' \subseteq Sessions
  BY <1>1 DEF Resume, Unpark, TypeOK, diskVars, txVars, history
<1>2. ASSUME NEW v \in Views, Stop(v)
      PROVE  /\ shows' = shows /\ live' = live /\ stored' = stored /\ disk' = disk
             /\ pending' = pending /\ current' = current /\ used' = used /\ sent' = sent
             /\ busy' \in [Views -> BOOLEAN] /\ held' \in [Views -> BOOLEAN]
             /\ draining' = draining /\ parked' \subseteq Sessions
  BY <1>2 DEF Stop, Park, TypeOK, diskVars, txVars, history
<1>3. ASSUME NEW v \in Views, Turn(v)
      PROVE  /\ shows' = shows /\ live' = live /\ stored' = stored /\ disk' = disk
             /\ pending' = pending /\ current' = current /\ used' = used /\ sent' = sent
             /\ busy' \in [Views -> BOOLEAN] /\ held' \in [Views -> BOOLEAN]
             /\ draining' = draining /\ parked' \subseteq Sessions
  BY <1>3 DEF Turn, TypeOK, diskVars, txVars, history
<1> QED BY <1>1, <1>2, <1>3 DEF Idles

LEMMA SwitchEffect ==
    ASSUME TypeOK, NEW v \in Views, NEW s \in Sessions, Switch(v, s)
    PROVE  /\ s # shows[v]
           /\ shows' = [shows EXCEPT ![v] = s] /\ live' = [live EXCEPT ![v] = stored[s]]
           /\ shows' \in [Views -> Sessions] /\ live' \in [Views -> Queues]
           /\ shows'[v] = s /\ live'[v] = stored[s]
           /\ \A w \in Views : w # v => shows'[w] = shows[w] /\ live'[w] = live[w]
           /\ stored' = stored /\ disk' = disk /\ pending' = pending /\ current' = current
           /\ used' = used /\ sent' = sent /\ busy' = busy /\ draining' = draining
           /\ held' \in [Views -> BOOLEAN] /\ parked' = parked
<1>1. /\ s # shows[v]
      /\ shows' = [shows EXCEPT ![v] = s] /\ live' = [live EXCEPT ![v] = stored[s]]
      /\ stored' = stored /\ disk' = disk /\ pending' = pending /\ current' = current
      /\ used' = used /\ sent' = sent /\ busy' = busy /\ draining' = draining
      /\ held' = [held EXCEPT ![v] = s \in parked] /\ parked' = parked
  BY DEF Switch, diskVars, txVars, history
<1>2. held' \in [Views -> BOOLEAN]
  BY <1>1 DEF TypeOK
<1>3. /\ shows' \in [Views -> Sessions] /\ live' \in [Views -> Queues]
      /\ shows'[v] = s /\ live'[v] = stored[s]
      /\ \A w \in Views : w # v => shows'[w] = shows[w] /\ live'[w] = live[w]
  BY <1>1 DEF TypeOK
<1> QED BY <1>1, <1>2, <1>3

\* The view shows another session when the save is done.
Moved == RequiresActive(current) /\ shows[current.view] # current.sid

LEMMA SavedMoved ==
    ASSUME TypeOK, Saved, Moved
    PROVE  /\ current # Idle /\ current.step = "save"
           /\ current' = [current EXCEPT !.step = "resave"] /\ current' \in Transactions
           /\ current' # Idle /\ current'.step = "resave" /\ current'.kind = current.kind
           /\ current'.sid = current.sid /\ current'.entry = current.entry
           /\ current'.shown = current.shown /\ current'.slice = current.slice
           /\ disk' = stored /\ stored' = Restored
           /\ live' = live /\ held' = held /\ parked' = parked /\ sent' = sent
           /\ draining' = draining /\ shows' = shows /\ busy' = busy
           /\ pending' = pending /\ used' = used
<1>1. /\ current # Idle /\ current.step = "save"
      /\ current' = [current EXCEPT !.step = "resave"]
      /\ disk' = stored /\ stored' = Restored
      /\ live' = live /\ held' = held /\ parked' = parked /\ sent' = sent
      /\ draining' = draining /\ shows' = shows /\ busy' = busy
      /\ pending' = pending /\ used' = used
  BY DEF Saved, Moved
<1>2. current' \in Transactions
  BY <1>1, CurrentTyped DEF Transactions
<1>3. /\ current'.step = "resave" /\ current'.kind = current.kind
      /\ current'.sid = current.sid /\ current'.entry = current.entry
      /\ current'.shown = current.shown /\ current'.slice = current.slice
  BY <1>1, CurrentTyped DEF Transactions
<1> QED BY <1>1, <1>2, <1>3, BoundsAssumption

LEMMA SavedCommits ==
    ASSUME TypeOK, Saved, ~Moved
    PROVE  /\ current # Idle /\ current.step = "save" /\ Commit /\ ReleaseDrain(current)
           /\ current' = Idle /\ disk' = stored /\ stored' = stored
           /\ shows' = shows /\ busy' = busy /\ pending' = pending /\ used' = used
BY DEF Saved, Moved

LEMMA SaveFailsEffect ==
    ASSUME TypeOK, SaveFails
    PROVE  /\ current # Idle /\ current.step = "save" /\ ReleaseDrain(current)
           /\ current' = Idle /\ disk' = disk /\ stored' = Restored
           /\ live' = IF shows[current.view] = current.sid
                      THEN [live EXCEPT ![current.view] = current.shown] ELSE live
           /\ live' \in [Views -> Queues] /\ held' \in [Views -> BOOLEAN] /\ parked' \subseteq Sessions
           /\ shows' = shows /\ busy' = busy /\ pending' = pending /\ used' = used /\ sent' = sent
<1>1. /\ current # Idle /\ current.step = "save" /\ ReleaseDrain(current)
      /\ current' = Idle /\ disk' = disk /\ stored' = Restored
      /\ live' = IF shows[current.view] = current.sid
                 THEN [live EXCEPT ![current.view] = current.shown] ELSE live
      /\ shows' = shows /\ busy' = busy /\ pending' = pending /\ used' = used /\ sent' = sent
  BY DEF SaveFails, history
<1>2. live' \in [Views -> Queues]
  BY <1>1, CurrentTyped DEF TypeOK
<1>3. held' \in [Views -> BOOLEAN] /\ parked' \subseteq Sessions
  BY <1>1, CurrentTyped DEF SaveFails, TypeOK
<1> QED BY <1>1, <1>2, <1>3

LEMMA ResavedEffect ==
    ASSUME TypeOK, NEW ok \in BOOLEAN, Resaved(ok)
    PROVE  /\ current # Idle /\ current.step = "resave" /\ ReleaseDrain(current)
           /\ current' = Idle /\ (disk' = stored \/ disk' = disk) /\ stored' = stored
           /\ live' = live /\ held' = held /\ parked' = parked /\ shows' = shows
           /\ busy' = busy /\ pending' = pending /\ used' = used /\ sent' = sent
BY DEF Resaved, history

LEMMA NextCases ==
    ASSUME Next
    PROVE  \/ Asks \/ Idles \/ \E v \in Views, s \in Sessions : Switch(v, s)
           \/ Start \/ Saved \/ SaveFails \/ \E ok \in BOOLEAN : Resaved(ok)
           \/ SaveElsewhere \/ Restart
BY DEF Next, UserStep, Asks, Idles

LEMMA TypeStep == TypeOK /\ [Next]_vars => TypeOK'
<1> SUFFICES ASSUME TypeOK, [Next]_vars PROVE TypeOK'
  OBVIOUS
<1>1. CASE Asks
  <2>1. PICK r \in Requests : Asked(r)
    BY <1>1, AsksEffect
  <2>2. /\ busy' = busy /\ held' \in [Views -> BOOLEAN] /\ draining' \in [Views -> BOOLEAN]
        /\ parked' \subseteq Sessions
    BY <1>1, AsksEffect
  <2>3. r.entry \in Entries \/ r.entry = NoEntry
    BY DEF Requests
  <2>4. used' \subseteq Entries
    BY <2>1, <2>3 DEF Asked, TypeOK, Requests
  <2> QED BY <2>1, <2>2, <2>4 DEF Asked, TypeOK
<1>2. CASE Idles
  BY <1>2, IdlesEffect DEF TypeOK
<1>3. ASSUME NEW v \in Views, NEW s \in Sessions, Switch(v, s) PROVE TypeOK'
  BY <1>3, SwitchEffect DEF TypeOK
<1>4. CASE Start
  <2>1. CASE Refused
    <3>1. draining' \in [Views -> BOOLEAN]
      BY <1>4, <2>1, StartRefused, ReleaseTyped
    <3> QED BY <1>4, <2>1, <3>1, StartRefused, HeadTyped DEF TypeOK
  <2>2. CASE ~Refused
    <3>1. /\ pending' \in Seq(Requests) /\ Len(pending') <= MaxPending
          /\ current' \in Transactions /\ current'.sid \in Sessions /\ current'.view \in Views
      BY <1>4, <2>2, StartApplied, HeadTyped
    <3>2. stored' \in [Sessions -> Queues] /\ live' \in [Views -> Queues]
      <4> DEFINE after == Updated(current', current'.shown)
      <4>1. /\ after \in Queues /\ stored' = [stored EXCEPT ![current'.sid] = after]
            /\ live' = IF current'.active THEN [live EXCEPT ![current'.view] = after] ELSE live
        BY <1>4, <2>2, StartApplied
      <4> HIDE DEF after
      <4>2. stored' \in [Sessions -> Queues]
        BY <3>1, <4>1 DEF TypeOK
      <4>3. live' \in [Views -> Queues]
        BY <3>1, <4>1 DEF TypeOK
      <4> QED BY <4>2, <4>3
    <3> QED BY <1>4, <2>2, <3>1, <3>2, StartApplied DEF TypeOK
  <2> QED BY <2>1, <2>2
<1>5. CASE Saved
  <2>1. CASE Moved
    <3>1. stored' \in [Sessions -> Queues]
      BY <1>5, <2>1, SavedMoved, CurrentTyped
    <3> QED BY <1>5, <2>1, <3>1, SavedMoved DEF TypeOK
  <2>2. CASE ~Moved
    <3>1. draining' \in [Views -> BOOLEAN]
      BY <1>5, <2>2, SavedCommits, ReleaseTyped
    <3> QED BY <1>5, <2>2, <3>1, SavedCommits, CommitTyped DEF TypeOK
  <2> QED BY <2>1, <2>2
<1>6. CASE SaveFails
  <2>1. draining' \in [Views -> BOOLEAN]
    BY <1>6, SaveFailsEffect, ReleaseTyped
  <2>2. stored' \in [Sessions -> Queues]
    BY <1>6, SaveFailsEffect, CurrentTyped
  <2> QED BY <1>6, <2>1, <2>2, SaveFailsEffect DEF TypeOK
<1>7. ASSUME NEW ok \in BOOLEAN, Resaved(ok) PROVE TypeOK'
  <2>1. draining' \in [Views -> BOOLEAN]
    BY <1>7, ResavedEffect, ReleaseTyped
  <2> QED BY <1>7, <2>1, ResavedEffect DEF TypeOK
<1>8. CASE SaveElsewhere
  BY <1>8 DEF SaveElsewhere, TypeOK, viewVars, txVars, history
<1>9. CASE Restart
  <2>1. stored' \in [Sessions -> Queues] /\ live' \in [Views -> Queues]
    BY <1>9, LoadedTyped
  <2>2. /\ busy' \in [Views -> BOOLEAN] /\ held' \in [Views -> BOOLEAN]
        /\ draining' \in [Views -> BOOLEAN] /\ parked' = {} /\ pending' = << >> /\ current' = Idle
        /\ shows' = shows /\ disk' = disk /\ used' = used /\ sent' = sent
    BY <1>9 DEF Restart, history
  <2>3. pending' \in Seq(Requests) /\ Len(pending') <= MaxPending
    BY <2>2, BoundsAssumption
  <2> QED BY <2>1, <2>2, <2>3 DEF TypeOK
<1>10. CASE UNCHANGED vars
  BY <1>10 DEF vars, TypeOK
<1> QED BY <1>1, <1>2, <1>3, <1>4, <1>5, <1>6, <1>7, <1>8, <1>9, <1>10, NextCases

\* Every state is well typed; in particular no queue, of a view, of the
\* settings or of data.json, ever holds one prompt twice, however the
\* transactions of any number of views follow each other.
THEOREM TypeCorrect == Spec => []TypeOK
<1> QED BY TypeInit, TypeStep, PTL DEF Spec

-----------------------------------------------------------------------------
(* The settled queues.                                                     *)

LEMMA TxInit == Init => TxSound
BY DEF Init, TxSound

LEMMA TxStep == TypeOK /\ TxSound /\ [Next]_vars => TxSound'
<1> SUFFICES ASSUME TypeOK, TxSound, [Next]_vars PROVE TxSound'
  OBVIOUS
<1>1. ASSUME stored' = stored, current' = current PROVE TxSound'
  BY <1>1 DEF TxSound
<1>2. CASE Asks
  BY <1>1, <1>2, AsksEffect DEF Asked
<1>3. CASE Idles
  BY <1>1, <1>3, IdlesEffect
<1>4. ASSUME NEW v \in Views, NEW s \in Sessions, Switch(v, s) PROVE TxSound'
  BY <1>1, <1>4, SwitchEffect
<1>5. CASE Start
  <2>1. CASE Refused
    BY <1>1, <1>5, <2>1, StartRefused
  <2>2. CASE ~Refused
    <3> DEFINE after == Updated(current', current'.shown)
    <3>1. /\ stored' = [stored EXCEPT ![current'.sid] = after]
          /\ ~Vanished(current', current'.shown) /\ (RequiresActive(current') => current'.active)
      BY <1>5, <2>2, StartApplied
    <3>2. current'.sid \in Sessions
      BY <1>5, <2>2, StartApplied, HeadTyped
    <3>3. stored'[current'.sid] = after
      <4> HIDE DEF after
      <4> QED BY <3>1, <3>2 DEF TypeOK
    <3> QED BY <3>1, <3>3 DEF TxSound
  <2> QED BY <2>1, <2>2
<1>6. CASE Saved
  <2>1. CASE Moved
    BY <1>6, <2>1, SavedMoved DEF TxSound
  <2>2. CASE ~Moved
    BY <1>6, <2>2, SavedCommits DEF TxSound
  <2> QED BY <2>1, <2>2
<1>7. CASE SaveFails
  BY <1>7, SaveFailsEffect DEF TxSound
<1>8. ASSUME NEW ok \in BOOLEAN, Resaved(ok) PROVE TxSound'
  BY <1>8, ResavedEffect DEF TxSound
<1>9. CASE SaveElsewhere
  BY <1>1, <1>9 DEF SaveElsewhere, txVars
<1>10. CASE Restart
  BY <1>10 DEF Restart, TxSound
<1>11. CASE UNCHANGED vars
  BY <1>1, <1>11 DEF vars
<1> QED BY <1>2, <1>3, <1>4, <1>5, <1>6, <1>7, <1>8, <1>9, <1>10, <1>11, NextCases

\* A commit is the step that settles a transaction.
Commits == Saved /\ ~Moved

LEMMA CommittedTyped == TypeOK => Committed \in [Sessions -> Queues]
<1> SUFFICES ASSUME TypeOK PROVE Committed \in [Sessions -> Queues]
  OBVIOUS
<1>1. CASE current = Idle \/ current.step = "resave"
  BY <1>1 DEF Committed, TypeOK
<1>2. CASE ~(current = Idle \/ current.step = "resave")
  BY <1>2, CurrentTyped DEF Committed
<1> QED BY <1>1, <1>2

\* The settled queues change when a transaction commits or the program
\* restarts, and at no other step.
LEMMA CommittedKept ==
    ASSUME TypeOK, [Next]_vars, ~Commits, ~Restart
    PROVE  \A s \in Sessions : Committed'[s] = Committed[s]
<1>1. ASSUME stored' = stored, current' = current
      PROVE  \A s \in Sessions : Committed'[s] = Committed[s]
  BY <1>1 DEF Committed, Restored
<1>2. CASE Asks
  BY <1>1, <1>2, AsksEffect DEF Asked
<1>3. CASE Idles
  BY <1>1, <1>3, IdlesEffect
<1>4. ASSUME NEW v \in Views, NEW s \in Sessions, Switch(v, s)
      PROVE  \A r \in Sessions : Committed'[r] = Committed[r]
  BY <1>1, <1>4, SwitchEffect
<1>5. CASE Start
  <2>1. CASE Refused
    BY <1>1, <1>5, <2>1, StartRefused
  <2>2. CASE ~Refused
    <3> DEFINE after == Updated(current', current'.shown)
    <3>1. /\ stored' = [stored EXCEPT ![current'.sid] = after]
          /\ current = Idle /\ current' # Idle /\ current'.step = "save"
          /\ current'.slice = stored[current'.sid]
      BY <1>5, <2>2, StartApplied
    <3>2. current'.sid \in Sessions
      BY <1>5, <2>2, StartApplied, HeadTyped
    <3>3. Committed = stored /\ Committed' = [stored' EXCEPT ![current'.sid] = current'.slice]
      BY <3>1 DEF Committed, Restored
    <3> HIDE DEF after
    <3> QED BY <3>1, <3>2, <3>3 DEF TypeOK
  <2> QED BY <2>1, <2>2
<1>6. CASE Saved
  <2>1. Moved
    BY <1>6 DEF Commits
  <2>2. current # Idle /\ current.step = "save" /\ current'.step = "resave" /\ stored' = Restored
    BY <1>6, <2>1, SavedMoved
  <2> QED BY <2>2 DEF Committed
<1>7. CASE SaveFails
  BY <1>7, SaveFailsEffect DEF Committed
<1>8. ASSUME NEW ok \in BOOLEAN, Resaved(ok) PROVE \A s \in Sessions : Committed'[s] = Committed[s]
  BY <1>8, ResavedEffect DEF Committed
<1>9. CASE SaveElsewhere
  BY <1>1, <1>9 DEF SaveElsewhere, txVars
<1>10. CASE UNCHANGED vars
  BY <1>1, <1>10 DEF vars
<1> QED BY <1>2, <1>3, <1>4, <1>5, <1>6, <1>7, <1>8, <1>9, <1>10, NextCases

\* A commit puts the updated queue of one session in place of the slice found.
LEMMA CommittedSet ==
    ASSUME TypeOK, TxSound, Commits
    PROVE  /\ current # Idle /\ current.step = "save" /\ current' = Idle
           /\ Committed[current.sid] = current.slice
           /\ Committed'[current.sid] = Updated(current, current.shown)
           /\ ~Vanished(current, current.shown)
           /\ \A s \in Sessions : s # current.sid => Committed'[s] = Committed[s]
<1>1. current # Idle /\ current.step = "save" /\ current' = Idle /\ stored' = stored
  BY SavedCommits DEF Commits
<1>2. Committed = Restored /\ Committed' = stored
  BY <1>1 DEF Committed
<1>3. stored[current.sid] = Updated(current, current.shown) /\ ~Vanished(current, current.shown)
  BY <1>1 DEF TxSound
<1> QED BY <1>1, <1>2, <1>3, CurrentTyped

\* The step LeavesByName allows.
Leaves ==
    \A e \in Entries :
        Holds(Committed, e) /\ ~Holds(Committed', e) =>
            \/ current # Idle /\ current.entry \in {e, NoEntry}
            \/ current # Idle /\ current.shown # current.slice
            \/ current' = Idle /\ pending' = << >>

LEMMA LeavesStep == TypeOK /\ TxSound /\ [Next]_vars => Leaves
<1> SUFFICES ASSUME TypeOK, TxSound, [Next]_vars PROVE Leaves
  OBVIOUS
<1>1. CASE Restart
  BY <1>1 DEF Restart, Leaves
<1>2. CASE Commits
  <2> SUFFICES ASSUME NEW e \in Entries, NEW s \in Sessions, Contains(Committed[s], e),
                      ~Holds(Committed', e), current.entry \notin {e, NoEntry},
                      current.shown = current.slice
               PROVE  FALSE
    BY <1>2, CommittedSet DEF Leaves, Holds
  <2>1. s = current.sid
    BY <1>2, CommittedSet DEF Holds
  <2>2. Contains(current.shown, e)
    BY <1>2, <2>1, CommittedSet
  <2>3. Contains(Updated(current, current.shown), e)
    BY <1>2, <2>2, CommittedSet, CurrentTyped, UpdatedQueue
  <2> QED BY <1>2, <2>1, <2>3, CommittedSet DEF Holds
<1>3. CASE ~Restart /\ ~Commits
  BY <1>3, CommittedKept DEF Leaves, Holds
<1> QED BY <1>1, <1>2, <1>3

LEMMA TxCorrect == Spec => []TxSound
<1> QED BY TypeInit, TypeStep, TxInit, TxStep, PTL DEF Spec

\* A prompt leaves the settled queues by its own transaction, a deletion of its
\* session or a restart; only a transaction that found its view and the
\* settings apart can take another prompt along.  Of any number of views.
THEOREM QueuesLeaveByName == Spec => LeavesByName
<1>1. TypeOK /\ TxSound /\ [Next]_vars => [Leaves]_vars
  BY LeavesStep
<1>2. Spec => [][Leaves]_vars
  BY <1>1, TypeCorrect, TxCorrect, PTL DEF Spec
<1> QED BY <1>2 DEF Leaves, LeavesByName

-----------------------------------------------------------------------------
(* Sent once.                                                              *)

\* The head of the waiting transactions queues e for s.
Enqueues(e, s) ==
    /\ pending # << >> /\ Head(pending).kind = "enqueue"
    /\ Head(pending).entry = e /\ Head(pending).sid = s

LEMMA AtStart ==
    ASSUME TypeOK, Start, ~Refused, NEW e \in Entries, NEW s \in Sessions, At(e, s)'
    PROVE  At(e, s) \/ Enqueues(e, s)
<1> DEFINE before == current'.shown
           after  == Updated(current', before)
<1>1. /\ pending # << >> /\ current = Idle /\ current' # Idle
      /\ current'.kind = Head(pending).kind /\ current'.view = Head(pending).view
      /\ current'.sid = Head(pending).sid /\ current'.entry = Head(pending).entry
      /\ current'.active = (shows[current'.view] = current'.sid)
      /\ before = IF current'.active THEN live[current'.view] ELSE stored[current'.sid]
      /\ ~Vanished(current', before) /\ current'.slice = stored[current'.sid]
      /\ stored' = [stored EXCEPT ![current'.sid] = after]
      /\ live' = IF current'.active THEN [live EXCEPT ![current'.view] = after] ELSE live
      /\ disk' = disk /\ shows' = shows
  BY StartApplied
<1>2. /\ current'.kind \in Kinds /\ current'.view \in Views /\ current'.sid \in Sessions
      /\ current'.kind # "clear" => current'.entry \in Entries
  BY <1>1, HeadTyped
<1>3. before \in Queues
  BY <1>1, <1>2 DEF TypeOK
<1>4. ASSUME s = current'.sid, Contains(before, e) PROVE At(e, s)
  BY <1>1, <1>2, <1>4 DEF At
<1>5. ASSUME s = current'.sid, Contains(after, e) PROVE At(e, s) \/ Enqueues(e, s)
  <2>1. Contains(before, e) \/ (current'.kind \in {"enqueue", "promote"} /\ e = current'.entry)
    <3> HIDE DEF before
    <3> QED BY <1>2, <1>3, <1>5, UpdatedQueue
  <2>2. current'.kind = "promote" => Contains(before, current'.entry)
    BY <1>1 DEF Vanished
  <2> QED BY <1>1, <1>4, <1>5, <2>1, <2>2 DEF Enqueues
<1> HIDE DEF before, after
<1>6. CASE Contains(stored'[s], e)
  <2>1. CASE s = current'.sid
    BY <1>1, <1>2, <1>5, <1>6, <2>1 DEF TypeOK
  <2>2. CASE s # current'.sid
    BY <1>1, <1>2, <1>6, <2>2 DEF TypeOK, At
  <2> QED BY <2>1, <2>2
<1>7. CASE Contains(disk'[s], e)
  BY <1>1, <1>7 DEF At
<1>8. ASSUME NEW v \in Views, shows'[v] = s, Contains(live'[v], e)
      PROVE  At(e, s) \/ Enqueues(e, s)
  <2>1. CASE current'.active /\ v = current'.view
    <3>1. live'[v] = after /\ s = current'.sid
      BY <1>1, <1>2, <1>8, <2>1 DEF TypeOK
    <3> QED BY <1>5, <1>8, <3>1
  <2>2. CASE ~(current'.active /\ v = current'.view)
    <3>1. live'[v] = live[v]
      BY <1>1, <1>2, <2>2 DEF TypeOK
    <3> QED BY <1>1, <1>8, <3>1 DEF At
  <2> QED BY <2>1, <2>2
<1>9. CASE current'.sid = s /\ (Contains(current'.shown, e) \/ Contains(current'.slice, e))
  <2>1. CASE Contains(current'.shown, e)
    BY <1>4, <1>9, <2>1 DEF before
  <2>2. CASE Contains(current'.slice, e)
    BY <1>1, <1>9, <2>2 DEF At
  <2> QED BY <1>9, <2>1, <2>2
<1> QED BY <1>6, <1>7, <1>8, <1>9 DEF At

LEMMA AtCommit ==
    ASSUME TypeOK, TxSound, Commits, NEW e \in Entries, NEW s \in Sessions, At(e, s)'
    PROVE  At(e, s)
<1>1. /\ current # Idle /\ current.step = "save" /\ current' = Idle
      /\ disk' = stored /\ stored' = stored /\ shows' = shows /\ ~Moved
      /\ live' = IF current.active THEN [live EXCEPT ![current.view] = stored[current.sid]] ELSE live
  BY SavedCommits, CommitTyped DEF Commits
<1>2. Contains(stored'[s], e) \/ Contains(disk'[s], e)
      \/ \E v \in Views : shows'[v] = s /\ Contains(live'[v], e)
  BY <1>1 DEF At
<1>3. ASSUME NEW v \in Views, shows'[v] = s, Contains(live'[v], e) PROVE At(e, s)
  <2>1. CASE current.active /\ v = current.view
    <3>1. live'[v] = stored[current.sid]
      BY <1>1, <2>1 DEF TypeOK
    <3>2. CASE s = current.sid
      BY <1>3, <3>1, <3>2 DEF At
    <3>3. CASE s # current.sid
      <4>1. current.kind = "clear"
        BY <1>1, <1>3, <2>1, <3>3 DEF Moved, RequiresActive
      <4>2. stored[current.sid] = << >>
        BY <1>1, <4>1 DEF TxSound, Updated
      <4> QED BY <1>3, <3>1, <4>2, EmptyQueue
    <3> QED BY <3>2, <3>3
  <2>2. CASE ~(current.active /\ v = current.view)
    <3>1. live'[v] = live[v]
      BY <1>1, <2>2, CurrentTyped DEF TypeOK
    <3> QED BY <1>1, <1>3, <3>1 DEF At
  <2> QED BY <2>1, <2>2
<1> QED BY <1>1, <1>2, <1>3 DEF At

\* A prompt comes to a session by an enqueue transaction only: no rollback,
\* switch, save or restart brings one to where it was not.
LEMMA AtStep ==
    ASSUME TypeOK, TxSound, [Next]_vars, NEW e \in Entries, NEW s \in Sessions, At(e, s)'
    PROVE  At(e, s) \/ (Start /\ Enqueues(e, s))
<1>1. CASE Asks
  BY <1>1, AsksEffect DEF Asked, At
<1>2. CASE Idles
  BY <1>2, IdlesEffect DEF At
<1>3. ASSUME NEW v \in Views, NEW r \in Sessions, Switch(v, r) PROVE At(e, s)
  <2>1. /\ shows'[v] = r /\ live'[v] = stored[r]
        /\ \A w \in Views : w # v => shows'[w] = shows[w] /\ live'[w] = live[w]
        /\ stored' = stored /\ disk' = disk /\ current' = current
    BY <1>3, SwitchEffect
  <2> QED BY <2>1 DEF At
<1>4. CASE Start
  <2>1. CASE Refused
    BY <1>4, <2>1, StartRefused DEF At
  <2>2. CASE ~Refused
    BY <1>4, <2>2, AtStart
  <2> QED BY <2>1, <2>2
<1>5. CASE Saved
  <2>1. CASE Moved
    <3>1. /\ current # Idle /\ current'.sid = current.sid
          /\ current'.shown = current.shown /\ current'.slice = current.slice
          /\ disk' = stored /\ stored' = Restored /\ live' = live /\ shows' = shows
      BY <1>5, <2>1, SavedMoved
    <3>2. stored'[s] = stored[s] \/ (s = current.sid /\ stored'[s] = current.slice)
      BY <3>1, CurrentTyped
    <3> QED BY <3>1, <3>2 DEF At
  <2>2. CASE ~Moved
    BY <1>5, <2>2, AtCommit DEF Commits
  <2> QED BY <2>1, <2>2
<1>6. CASE SaveFails
  <2>1. /\ current # Idle /\ current' = Idle /\ disk' = disk /\ stored' = Restored /\ shows' = shows
        /\ live' = IF shows[current.view] = current.sid
                   THEN [live EXCEPT ![current.view] = current.shown] ELSE live
    BY <1>6, SaveFailsEffect
  <2>2. stored'[s] = stored[s] \/ (s = current.sid /\ stored'[s] = current.slice)
    BY <2>1, CurrentTyped
  <2>3. \A v \in Views :
            live'[v] = live[v] \/ (shows[v] = current.sid /\ live'[v] = current.shown)
    BY <2>1, CurrentTyped DEF TypeOK
  <2> QED BY <2>1, <2>2, <2>3 DEF At
<1>7. ASSUME NEW ok \in BOOLEAN, Resaved(ok) PROVE At(e, s)
  BY <1>7, ResavedEffect DEF At
<1>8. CASE SaveElsewhere
  BY <1>8 DEF SaveElsewhere, At, viewVars, txVars
<1>9. CASE Restart
  <2>1. /\ \A r \in Sessions : \A x : Contains(stored'[r], x) => Contains(disk[r], x)
        /\ \A v \in Views : live'[v] = stored'[shows[v]]
    BY <1>9, LoadedTyped
  <2>2. current' = Idle /\ disk' = disk /\ shows' = shows
    BY <1>9 DEF Restart
  <2> QED BY <2>1, <2>2 DEF At
<1>10. CASE UNCHANGED vars
  BY <1>10 DEF vars, At
<1> QED BY <1>1, <1>2, <1>3, <1>4, <1>5, <1>6, <1>7, <1>8, <1>9, <1>10, NextCases

LEMMA OnceInit == Init => Once
BY EmptyQueue DEF Init, Once, At, Waits

\* Steps that leave the waiting transactions and the history alone.
LEMMA OnceKept ==
    ASSUME Once, pending' = pending, used' = used, sent' = sent,
           \A e \in Entries, s \in Sessions : At(e, s)' => At(e, s)
    PROVE  Once'
<1>1. \A i, e : Waits(i, e)' <=> Waits(i, e)
  BY DEF Waits
<1>2. (\A e \in Entries, s \in Sessions : At(e, s) =>
          e \in used /\ sent[e] = 0 /\ \A i \in DOMAIN pending : ~Waits(i, e))'
  BY <1>1 DEF Once
<1>3. (\A e \in Entries, s \in Sessions, r \in Sessions : At(e, s) /\ At(e, r) => s = r)'
  BY DEF Once
<1>4. (\A e \in Entries, i \in DOMAIN pending : Waits(i, e) =>
          /\ e \in used /\ sent[e] = 0
          /\ \A j \in DOMAIN pending : Waits(j, e) => i = j)'
  BY <1>1 DEF Once
<1>5. (\A e \in Entries : sent[e] \in {0, 1} /\ (sent[e] = 1 => e \in used))'
  BY DEF Once
<1> QED BY <1>2, <1>3, <1>4, <1>5 DEF Once

LEMMA OnceAsks ==
    ASSUME TypeOK, TxSound, Once, Asks
    PROVE  Once'
<1>1. PICK r \in Requests : Asked(r)
  BY AsksEffect
<1>2. /\ \A i \in DOMAIN pending : i \in DOMAIN pending' /\ pending'[i] = pending[i]
      /\ \A i \in DOMAIN pending' : i \in DOMAIN pending \/ i = Len(pending')
      /\ pending'[Len(pending')] = r
      /\ \/ r.kind = "enqueue" /\ r.entry \notin used /\ used' = used \cup {r.entry}
         \/ r.kind # "enqueue" /\ used' = used
      /\ sent' = sent
  BY <1>1 DEF Asked
<1>3. \A e \in Entries, s \in Sessions : At(e, s)' <=> At(e, s)
  BY <1>1 DEF Asked, At
<1>4. ASSUME NEW e \in Entries, NEW i \in DOMAIN pending', Waits(i, e)'
      PROVE  \/ i \in DOMAIN pending /\ Waits(i, e)
             \/ i = Len(pending') /\ e \notin used /\ e \in used'
  BY <1>2, <1>4 DEF Waits
<1>5. used \subseteq used'
  BY <1>2
<1>6. \A e \in Entries : sent[e] \in {0, 1} /\ (sent[e] = 1 => e \in used)
  BY DEF Once
<1>7. (\A e \in Entries, s \in Sessions : At(e, s) =>
          e \in used /\ sent[e] = 0 /\ \A i \in DOMAIN pending : ~Waits(i, e))'
  BY <1>2, <1>3, <1>4, <1>5 DEF Once
<1>8. (\A e \in Entries, s \in Sessions, u \in Sessions : At(e, s) /\ At(e, u) => s = u)'
  BY <1>3 DEF Once
<1>9. ASSUME NEW e \in Entries, NEW i \in DOMAIN pending', Waits(i, e)'
      PROVE  e \in used' /\ sent'[e] = 0 /\ \A j \in DOMAIN pending' : Waits(j, e)' => i = j
  <2>1. CASE i \in DOMAIN pending /\ Waits(i, e)
    <3>1. e \in used /\ sent[e] = 0 /\ \A j \in DOMAIN pending : Waits(j, e) => i = j
      BY <2>1 DEF Once
    <3> QED BY <1>2, <1>4, <1>5, <3>1
  <2>2. CASE i = Len(pending') /\ e \notin used /\ e \in used'
    <3>1. \A j \in DOMAIN pending : ~Waits(j, e)
      BY <2>2 DEF Once
    <3> QED BY <1>2, <1>4, <1>6, <2>2, <3>1
  <2> QED BY <1>4, <1>9, <2>1, <2>2
<1>10. (\A e \in Entries : sent[e] \in {0, 1} /\ (sent[e] = 1 => e \in used))'
  BY <1>2, <1>5, <1>6
<1> QED BY <1>7, <1>8, <1>9, <1>10 DEF Once

LEMMA OnceStarts ==
    ASSUME TypeOK, TxSound, Once, Start
    PROVE  Once'
<1>1. pending # << >> /\ pending' = Tail(pending) /\ used' = used /\ sent' = sent
  BY DEF Start, history
<1>2. \A i \in DOMAIN pending' : i + 1 \in DOMAIN pending /\ pending'[i] = pending[i + 1] /\ i + 1 # 1
  BY <1>1, HeadTyped
<1>3. ASSUME NEW e \in Entries, NEW i \in DOMAIN pending', Waits(i, e)'
      PROVE  i + 1 \in DOMAIN pending /\ Waits(i + 1, e) /\ i + 1 # 1 /\ i \in Nat
  <2>1. i \in Nat
    BY <1>1, HeadTyped
  <2> QED BY <1>2, <1>3, <2>1 DEF Waits
<1>4. ASSUME NEW e \in Entries, NEW s \in Sessions, At(e, s)'
      PROVE  At(e, s) \/ (1 \in DOMAIN pending /\ Waits(1, e) /\ s = Head(pending).sid)
  <2>1. At(e, s) \/ Enqueues(e, s)
    BY <1>4, AtStep DEF Next
  <2> QED BY <1>1, <2>1, HeadTyped DEF Enqueues, Waits
<1>5. ASSUME NEW e \in Entries, NEW s \in Sessions, At(e, s)'
      PROVE  e \in used' /\ sent'[e] = 0 /\ \A i \in DOMAIN pending' : ~Waits(i, e)'
  <2>1. CASE At(e, s)
    BY <1>1, <1>3, <2>1 DEF Once
  <2>2. CASE 1 \in DOMAIN pending /\ Waits(1, e)
    <3>1. e \in used /\ sent[e] = 0 /\ \A j \in DOMAIN pending : Waits(j, e) => 1 = j
      BY <2>2 DEF Once
    <3> QED BY <1>1, <1>3, <3>1
  <2> QED BY <1>4, <1>5, <2>1, <2>2
<1>6. ASSUME NEW e \in Entries, NEW s \in Sessions, NEW r \in Sessions, At(e, s)', At(e, r)'
      PROVE  s = r
  <2>1. CASE 1 \in DOMAIN pending /\ Waits(1, e)
    <3>1. ~At(e, s) /\ ~At(e, r)
      BY <2>1 DEF Once
    <3> QED BY <1>4, <1>6, <3>1
  <2>2. CASE ~(1 \in DOMAIN pending /\ Waits(1, e))
    <3>1. At(e, s) /\ At(e, r)
      BY <1>4, <1>6, <2>2
    <3> QED BY <3>1 DEF Once
  <2> QED BY <2>1, <2>2
<1>7. ASSUME NEW e \in Entries, NEW i \in DOMAIN pending', Waits(i, e)'
      PROVE  e \in used' /\ sent'[e] = 0 /\ \A j \in DOMAIN pending' : Waits(j, e)' => i = j
  <2>1. i + 1 \in DOMAIN pending /\ Waits(i + 1, e) /\ i \in Nat
    BY <1>3, <1>7
  <2>2. e \in used /\ sent[e] = 0 /\ \A j \in DOMAIN pending : Waits(j, e) => i + 1 = j
    BY <2>1 DEF Once
  <2>3. ASSUME NEW j \in DOMAIN pending', Waits(j, e)' PROVE i = j
    <3>1. j + 1 \in DOMAIN pending /\ Waits(j + 1, e) /\ j \in Nat
      BY <1>3, <2>3
    <3>2. i + 1 = j + 1
      BY <2>2, <3>1
    <3> QED BY <2>1, <3>1, <3>2
  <2> QED BY <1>1, <2>2, <2>3
<1>8. (\A e \in Entries : sent[e] \in {0, 1} /\ (sent[e] = 1 => e \in used))'
  BY <1>1 DEF Once
<1> QED BY <1>5, <1>6, <1>7, <1>8 DEF Once

\* A claim becomes durable: nothing holds the prompt any more when it is sent,
\* for want of a second view of the session.
LEMMA OnceCommits ==
    ASSUME TypeOK, TxSound, Apart, Once, Commits
    PROVE  Once'
<1>1. /\ current # Idle /\ current.step = "save" /\ current' = Idle /\ ~Moved
      /\ disk' = stored /\ stored' = stored /\ shows' = shows /\ pending' = pending /\ used' = used
      /\ live' = IF current.active THEN [live EXCEPT ![current.view] = stored[current.sid]] ELSE live
      /\ sent' = IF current.kind \in {"claim", "drain"}
                 THEN [sent EXCEPT ![current.entry] = @ + 1] ELSE sent
  BY SavedCommits, CommitTyped DEF Commits
<1>2. \A e \in Entries, s \in Sessions : At(e, s)' => At(e, s)
  BY AtCommit
<1>3. CASE current.kind \notin {"claim", "drain"}
  BY <1>1, <1>2, <1>3, OnceKept
<1>4. CASE current.kind \in {"claim", "drain"}
  <2>e. PICK e0 \in Entries : e0 = current.entry
    BY <1>1, <1>4, CurrentTyped
  <2>s. PICK s0 \in Sessions : s0 = current.sid
    BY <1>1, CurrentTyped
  <2> DEFINE q == Updated(current, current.shown)
  <2>1. /\ e0 = current.entry /\ s0 = current.sid /\ current.view \in Views /\ current.shown \in Queues
        /\ current.kind # "clear" /\ current.kind \in {"remove", "claim", "drain"} /\ current.kind \in Kinds
    BY <1>1, <1>4, <2>e, <2>s, CurrentTyped
  <2>2. stored[s0] = q /\ Contains(current.shown, e0) /\ current.active /\ shows[current.view] = s0
    BY <1>1, <1>4, <2>1 DEF TxSound, Vanished, RequiresActive, Moved
  <2>3. ~Contains(q, e0)
    BY <2>1, UpdatedQueue
  <2> HIDE DEF q
  <2>4. At(e0, s0)
    BY <1>1, <2>1, <2>2 DEF At
  <2>5. /\ e0 \in used /\ sent[e0] = 0 /\ \A i \in DOMAIN pending : ~Waits(i, e0)
        /\ \A s \in Sessions : At(e0, s) => s = s0
    BY <2>1, <2>4 DEF Once
  <2>6. ~At(e0, s0)'
    <3>1. \A v \in Views : shows[v] = s0 => v = current.view
      BY <2>1, <2>2 DEF Apart
    <3>2. live'[current.view] = stored[s0]
      BY <1>1, <2>1, <2>2 DEF TypeOK
    <3> QED BY <1>1, <2>2, <2>3, <3>1, <3>2 DEF At
  <2>7. \A s \in Sessions : ~At(e0, s)'
    BY <1>2, <2>1, <2>5, <2>6
  <2>8. sent'[e0] = 1 /\ \A e \in Entries : e # e0 => sent'[e] = sent[e]
    BY <1>1, <1>4, <2>1, <2>5 DEF TypeOK
  <2>9. \A i, e : Waits(i, e)' <=> Waits(i, e)
    BY <1>1 DEF Waits
  <2>10. (\A e \in Entries, s \in Sessions : At(e, s) =>
            e \in used /\ sent[e] = 0 /\ \A i \in DOMAIN pending : ~Waits(i, e))'
    BY <1>1, <1>2, <2>7, <2>8, <2>9 DEF Once
  <2>11. (\A e \in Entries, s \in Sessions, r \in Sessions : At(e, s) /\ At(e, r) => s = r)'
    BY <1>2 DEF Once
  <2>12. (\A e \in Entries, i \in DOMAIN pending : Waits(i, e) =>
            /\ e \in used /\ sent[e] = 0
            /\ \A j \in DOMAIN pending : Waits(j, e) => i = j)'
    BY <1>1, <2>5, <2>8, <2>9 DEF Once
  <2>13. (\A e \in Entries : sent[e] \in {0, 1} /\ (sent[e] = 1 => e \in used))'
    BY <1>1, <2>5, <2>8 DEF Once
  <2> QED BY <2>10, <2>11, <2>12, <2>13 DEF Once
<1> QED BY <1>3, <1>4

LEMMA OnceStep == TypeOK /\ TxSound /\ Apart /\ Once /\ [Next]_vars => Once'
<1> SUFFICES ASSUME TypeOK, TxSound, Apart, Once, [Next]_vars PROVE Once'
  OBVIOUS
<1>0. ASSUME ~Start PROVE \A e \in Entries, s \in Sessions : At(e, s)' => At(e, s)
  BY <1>0, AtStep
<1>1. CASE Asks
  BY <1>1, OnceAsks
<1>2. CASE Start
  BY <1>2, OnceStarts
<1>3. CASE Commits
  BY <1>3, OnceCommits
<1>4. CASE Restart /\ ~Start
  <2>1. pending' = << >> /\ used' = used /\ sent' = sent
    BY <1>4 DEF Restart, history
  <2>2. \A i \in DOMAIN pending' : FALSE
    BY <2>1
  <2>3. (\A e \in Entries, s \in Sessions : At(e, s) =>
            e \in used /\ sent[e] = 0 /\ \A i \in DOMAIN pending : ~Waits(i, e))'
    BY <1>0, <1>4, <2>1, <2>2 DEF Once
  <2>4. (\A e \in Entries, s \in Sessions, r \in Sessions : At(e, s) /\ At(e, r) => s = r)'
    BY <1>0, <1>4 DEF Once
  <2>5. (\A e \in Entries : sent[e] \in {0, 1} /\ (sent[e] = 1 => e \in used))'
    BY <2>1 DEF Once
  <2> QED BY <2>2, <2>3, <2>4, <2>5 DEF Once
<1>5. CASE ~Asks /\ ~Start /\ ~Commits /\ ~Restart
  <2>1. pending' = pending /\ used' = used /\ sent' = sent
    <3>1. CASE Idles
      BY <3>1, IdlesEffect
    <3>2. ASSUME NEW v \in Views, NEW s \in Sessions, Switch(v, s)
          PROVE  pending' = pending /\ used' = used /\ sent' = sent
      BY <3>2, SwitchEffect
    <3>3. CASE Saved
      BY <1>5, <3>3, SavedMoved DEF Commits
    <3>4. CASE SaveFails
      BY <3>4, SaveFailsEffect
    <3>5. ASSUME NEW ok \in BOOLEAN, Resaved(ok)
          PROVE  pending' = pending /\ used' = used /\ sent' = sent
      BY <3>5, ResavedEffect
    <3>6. CASE SaveElsewhere
      BY <3>6 DEF SaveElsewhere, txVars, history
    <3>7. CASE UNCHANGED vars
      BY <3>7 DEF vars
    <3> QED BY <1>5, <3>1, <3>2, <3>3, <3>4, <3>5, <3>6, <3>7, NextCases
  <2> QED BY <1>0, <1>5, <2>1, OnceKept
<1> QED BY <1>1, <1>2, <1>3, <1>4, <1>5

LEMMA OnceCorrect == Spec /\ []Apart => []Once
<1> QED BY OnceInit, OnceStep, TypeCorrect, TxCorrect, PTL DEF Spec

\* While no two views show one session, no prompt is sent twice: whatever
\* saves fail, sessions are switched and restarts happen.
THEOREM SendsOnce == Spec /\ []Apart => []SentOnce
<1>1. Once => SentOnce
  BY DEF Once, SentOnce
<1> QED BY <1>1, OnceCorrect, PTL

\* While no two views show one session, a prompt that was sent is in no queue
\* on the disk, so no later load can bring it back.
THEOREM SendsOffDisk == Spec /\ []Apart => []SentOffDisk
<1>1. TypeOK /\ Once => SentOffDisk
  BY DEF TypeOK, Once, SentOffDisk, Holds, At
<1> QED BY <1>1, TypeCorrect, OnceCorrect, PTL

-----------------------------------------------------------------------------
(* The ledger.                                                             *)

\* At most one view is open.
OneView == \A v, w \in Views : v = w

LEMMA MirrorsInit == Init => Mirrors
BY EmptyQueue DEF Init, Mirrors

LEMMA MirrorsStart ==
    ASSUME OneView, TypeOK, Mirrors, Start, ~Refused
    PROVE  Mirrors'
<1> DEFINE after == Updated(current', current'.shown)
<1>1. /\ current' # Idle
      /\ current'.active = (shows[current'.view] = current'.sid)
      /\ current'.shown = IF current'.active THEN live[current'.view] ELSE stored[current'.sid]
      /\ current'.slice = stored[current'.sid]
      /\ stored' = [stored EXCEPT ![current'.sid] = after]
      /\ live' = IF current'.active THEN [live EXCEPT ![current'.view] = after] ELSE live
      /\ shows' = shows
  BY StartApplied
<1>2. current'.view \in Views /\ current'.sid \in Sessions
  BY StartApplied, HeadTyped
<1> HIDE DEF after
<1>3. ASSUME NEW e \in Entries, Contains(current'.shown, e) PROVE Contains(current'.slice, e)
  BY <1>1, <1>2, <1>3 DEF Mirrors
<1>4. ASSUME NEW v \in Views, NEW e \in Entries, Contains(live'[v], e)
      PROVE  Contains(stored'[shows'[v]], e)
  <2>1. v = current'.view /\ shows[v] \in Sessions
    BY <1>2 DEF OneView, TypeOK
  <2>2. CASE current'.active
    <3>1. live'[v] = after /\ stored'[shows'[v]] = after
      BY <1>1, <1>2, <2>1, <2>2 DEF TypeOK
    <3> QED BY <1>4, <3>1
  <2>3. CASE ~current'.active
    <3>1. live'[v] = live[v] /\ stored'[shows'[v]] = stored[shows[v]]
      BY <1>1, <1>2, <2>1, <2>3 DEF TypeOK
    <3> QED BY <1>4, <3>1 DEF Mirrors
  <2> QED BY <2>2, <2>3
<1> QED BY <1>3, <1>4 DEF Mirrors

LEMMA MirrorsSaved ==
    ASSUME OneView, TypeOK, TxSound, Mirrors, Saved
    PROVE  Mirrors'
<1>0. current # Idle /\ current.view \in Views /\ current.sid \in Sessions
  BY CurrentTyped DEF Saved
<1>v. \A v \in Views : v = current.view /\ shows[v] \in Sessions
  BY <1>0 DEF OneView, TypeOK
<1>1. CASE Moved
  <2>1. /\ current'.step = "resave" /\ stored' = Restored /\ live' = live /\ shows' = shows
        /\ shows[current.view] # current.sid
    BY <1>1, SavedMoved DEF Moved
  <2>2. \A v \in Views : stored'[shows'[v]] = stored[shows[v]]
    BY <1>0, <1>v, <2>1, CurrentTyped
  <2> QED BY <2>1, <2>2 DEF Mirrors
<1>2. CASE ~Moved
  <2>1. /\ current' = Idle /\ stored' = stored /\ shows' = shows /\ current.step = "save"
        /\ live' = IF current.active THEN [live EXCEPT ![current.view] = stored[current.sid]] ELSE live
    BY <1>2, SavedCommits, CommitTyped
  <2>2. CASE current.active
    <3>1. \A v \in Views : live'[v] = stored[current.sid]
      BY <1>0, <1>v, <2>1, <2>2 DEF TypeOK
    <3>2. CASE shows[current.view] = current.sid
      BY <1>v, <2>1, <3>1, <3>2 DEF Mirrors
    <3>3. CASE shows[current.view] # current.sid
      <4>1. stored[current.sid] = << >>
        BY <1>0, <1>2, <2>1, <3>3 DEF Moved, RequiresActive, TxSound, Updated
      <4> QED BY <2>1, <3>1, <4>1, EmptyQueue DEF Mirrors
    <3> QED BY <3>2, <3>3
  <2>3. CASE ~current.active
    BY <2>1, <2>3 DEF Mirrors
  <2> QED BY <2>2, <2>3
<1> QED BY <1>1, <1>2

LEMMA MirrorsFails ==
    ASSUME OneView, TypeOK, Mirrors, SaveFails
    PROVE  Mirrors'
<1>1. /\ current # Idle /\ current.step = "save" /\ current' = Idle
      /\ stored' = Restored /\ shows' = shows
      /\ live' = IF shows[current.view] = current.sid
                 THEN [live EXCEPT ![current.view] = current.shown] ELSE live
  BY SaveFailsEffect
<1>2. current.view \in Views /\ current.sid \in Sessions
  BY <1>1, CurrentTyped
<1>v. \A v \in Views : v = current.view /\ shows[v] \in Sessions
  BY <1>2 DEF OneView, TypeOK
<1>3. \A e \in Entries : Contains(current.shown, e) => Contains(current.slice, e)
  BY <1>1 DEF Mirrors
<1>4. CASE shows[current.view] = current.sid
  <2>1. \A v \in Views : live'[v] = current.shown /\ stored'[shows'[v]] = current.slice
    BY <1>1, <1>2, <1>v, <1>4, CurrentTyped DEF TypeOK
  <2> QED BY <1>1, <1>3, <2>1 DEF Mirrors
<1>5. CASE shows[current.view] # current.sid
  <2>1. \A v \in Views : live'[v] = live[v] /\ stored'[shows'[v]] = stored[shows[v]]
    BY <1>1, <1>2, <1>v, <1>5, CurrentTyped
  <2> QED BY <1>1, <2>1 DEF Mirrors
<1> QED BY <1>4, <1>5

LEMMA MirrorsStep ==
    ASSUME OneView
    PROVE  TypeOK /\ TxSound /\ Mirrors /\ [Next]_vars => Mirrors'
<1> SUFFICES ASSUME TypeOK, TxSound, Mirrors, [Next]_vars PROVE Mirrors'
  OBVIOUS
<1>0. ASSUME live' = live, stored' = stored, current' = current, shows' = shows PROVE Mirrors'
  BY <1>0 DEF Mirrors
<1>1. CASE Asks
  BY <1>0, <1>1, AsksEffect DEF Asked
<1>2. CASE Idles
  BY <1>0, <1>2, IdlesEffect
<1>3. ASSUME NEW v \in Views, NEW s \in Sessions, Switch(v, s) PROVE Mirrors'
  <2>1. /\ shows'[v] = s /\ live'[v] = stored[s] /\ stored' = stored /\ current' = current
        /\ \A w \in Views : w # v => shows'[w] = shows[w] /\ live'[w] = live[w]
    BY <1>3, SwitchEffect
  <2> QED BY <2>1 DEF Mirrors
<1>4. CASE Start
  <2>1. CASE Refused
    BY <1>0, <1>4, <2>1, StartRefused
  <2>2. CASE ~Refused
    BY <1>4, <2>2, MirrorsStart
  <2> QED BY <2>1, <2>2
<1>5. CASE Saved
  BY <1>5, MirrorsSaved
<1>6. CASE SaveFails
  BY <1>6, MirrorsFails
<1>7. ASSUME NEW ok \in BOOLEAN, Resaved(ok) PROVE Mirrors'
  BY <1>7, ResavedEffect DEF Mirrors
<1>8. CASE SaveElsewhere
  BY <1>0, <1>8 DEF SaveElsewhere, viewVars, txVars
<1>9. CASE Restart
  <2>1. \A v \in Views : live'[v] = stored'[shows[v]]
    BY <1>9, LoadedTyped
  <2> QED BY <1>9, <2>1 DEF Restart, Mirrors
<1>10. CASE UNCHANGED vars
  BY <1>0, <1>10 DEF vars
<1> QED BY <1>1, <1>2, <1>3, <1>4, <1>5, <1>6, <1>7, <1>8, <1>9, <1>10, NextCases

-----------------------------------------------------------------------------
\* A settled queue is one of the places a prompt can be found.
LEMMA HoldsAt ==
    ASSUME TypeOK, NEW e, Holds(Committed, e)
    PROVE  \E s \in Sessions : At(e, s)
<1>1. PICK s \in Sessions : Contains(Committed[s], e)
  BY DEF Holds
<1>2. CASE current = Idle \/ current.step = "resave"
  BY <1>1, <1>2 DEF Committed, At
<1>3. CASE ~(current = Idle \/ current.step = "resave")
  <2>1. Contains(Restored[s], e) /\ current # Idle
    BY <1>1, <1>3 DEF Committed
  <2>2. CASE s = current.sid
    BY <2>1, <2>2, CurrentTyped DEF At
  <2>3. CASE s # current.sid
    BY <2>1, <2>3, CurrentTyped DEF At
  <2> QED BY <2>2, <2>3
<1> QED BY <1>2, <1>3

LEMMA HoldsSomewhere ==
    TypeOK => \A e \in Entries : Holds(Committed, e) => \E s \in Sessions : At(e, s)
BY HoldsAt

LEMMA HoldsNext ==
    TypeOK' => (\A e \in Entries : Holds(Committed, e) => \E s \in Sessions : At(e, s))'
BY HoldsSomewhere, PTL

\* What a step does to the history and to the offers of a prompt.
LEMMA UsedStep ==
    ASSUME TypeOK, [Next]_vars, NEW e \in Entries
    PROVE  /\ e \in used => e \in used'
           /\ e \notin used /\ e \in used' => Asks /\ Offered(e)'
<1>1. CASE Asks
  <2>1. PICK r \in Requests : Asked(r)
    BY <1>1, AsksEffect
  <2>2. ASSUME e \notin used, e \in used' PROVE Offered(e)'
    <3>1. r.kind = "enqueue" /\ r.entry = e /\ pending'[Len(pending')] = r
      BY <2>1, <2>2 DEF Asked
    <3>2. Len(pending') \in DOMAIN pending'
      BY <2>1 DEF Asked, TypeOK
    <3> QED BY <3>1, <3>2 DEF Offered
  <2>3. e \in used => e \in used'
    BY <2>1 DEF Asked
  <2> QED BY <1>1, <2>2, <2>3
<1>2. CASE ~Asks
  <2>1. used' = used
    <3>1. CASE Idles
      BY <3>1, IdlesEffect
    <3>2. ASSUME NEW v \in Views, NEW s \in Sessions, Switch(v, s) PROVE used' = used
      BY <3>2, SwitchEffect
    <3>3. CASE Start
      BY <3>3 DEF Start, history
    <3>4. CASE Saved
      BY <3>4 DEF Saved
    <3>5. CASE SaveFails
      BY <3>5 DEF SaveFails, history
    <3>6. ASSUME NEW ok \in BOOLEAN, Resaved(ok) PROVE used' = used
      BY <3>6 DEF Resaved, history
    <3>7. CASE SaveElsewhere
      BY <3>7 DEF SaveElsewhere, history
    <3>8. CASE Restart
      BY <3>8 DEF Restart, history
    <3>9. CASE UNCHANGED vars
      BY <3>9 DEF vars
    <3> QED BY <1>2, <3>1, <3>2, <3>3, <3>4, <3>5, <3>6, <3>7, <3>8, <3>9, NextCases
  <2> QED BY <2>1
<1> QED BY <1>1, <1>2

LEMMA SentStep ==
    ASSUME TypeOK, [Next]_vars, NEW e \in Entries, sent'[e] # sent[e]
    PROVE  /\ Commits /\ current.kind \in {"claim", "drain"} /\ current.entry = e
           /\ sent'[e] = sent[e] + 1
<1>1. Commits
  <2>1. CASE Asks
    BY <2>1, AsksEffect DEF Asked
  <2>2. CASE Idles
    BY <2>2, IdlesEffect
  <2>3. ASSUME NEW v \in Views, NEW s \in Sessions, Switch(v, s) PROVE Commits
    BY <2>3, SwitchEffect
  <2>4. CASE Start
    BY <2>4 DEF Start, history
  <2>5. CASE Saved
    BY <2>5, SavedMoved DEF Commits
  <2>6. CASE SaveFails
    BY <2>6 DEF SaveFails, history
  <2>7. ASSUME NEW ok \in BOOLEAN, Resaved(ok) PROVE Commits
    BY <2>7 DEF Resaved, history
  <2>8. CASE SaveElsewhere
    BY <2>8 DEF SaveElsewhere, history
  <2>9. CASE Restart
    BY <2>9 DEF Restart, history
  <2>10. CASE UNCHANGED vars
    BY <2>10 DEF vars
  <2> QED BY <2>1, <2>2, <2>3, <2>4, <2>5, <2>6, <2>7, <2>8, <2>9, <2>10, NextCases
<1>2. sent' = IF current.kind \in {"claim", "drain"}
              THEN [sent EXCEPT ![current.entry] = @ + 1] ELSE sent
  BY <1>1, SavedCommits, CommitTyped DEF Commits
<1>3. sent \in [Entries -> Nat]
  BY DEF TypeOK
<1> QED BY <1>1, <1>2, <1>3

\* An offer is made by an enqueue of a fresh prompt only.
LEMMA OfferStep ==
    ASSUME TypeOK, [Next]_vars, NEW e \in Entries, Offered(e)', e \in used
    PROVE  Offered(e)
<1>1. CASE Asks
  <2>1. PICK r \in Requests : Asked(r)
    BY <1>1, AsksEffect
  <2> QED BY <2>1 DEF Asked, Offered
<1>2. CASE Start
  <2>1. pending # << >> /\ pending' = Tail(pending)
    BY <1>2 DEF Start
  <2>2. ASSUME NEW i \in DOMAIN pending', pending'[i].kind = "enqueue", pending'[i].entry = e
        PROVE  Offered(e)
    BY <2>1, <2>2, HeadTyped DEF Offered
  <2>3. CASE Refused
    BY <1>2, <2>2, <2>3, StartRefused DEF Offered
  <2>4. CASE ~Refused
    <3>1. current'.kind = Head(pending).kind /\ current'.entry = Head(pending).entry
      BY <1>2, <2>4, StartApplied
    <3> QED BY <2>1, <2>2, <3>1, HeadTyped DEF Offered
  <2> QED BY <2>3, <2>4
<1>3. CASE Idles
  BY <1>3, IdlesEffect DEF Offered
<1>4. ASSUME NEW v \in Views, NEW s \in Sessions, Switch(v, s) PROVE Offered(e)
  BY <1>4, SwitchEffect DEF Offered
<1>5. CASE Saved
  <2>1. CASE Moved
    BY <1>5, <2>1, SavedMoved DEF Offered
  <2>2. CASE ~Moved
    BY <1>5, <2>2, SavedCommits DEF Offered
  <2> QED BY <2>1, <2>2
<1>6. CASE SaveFails
  BY <1>6, SaveFailsEffect DEF Offered
<1>7. ASSUME NEW ok \in BOOLEAN, Resaved(ok) PROVE Offered(e)
  BY <1>7, ResavedEffect DEF Offered
<1>8. CASE SaveElsewhere
  BY <1>8 DEF SaveElsewhere, Offered, txVars
<1>9. CASE Restart
  BY <1>9 DEF Restart, Offered
<1>10. CASE UNCHANGED vars
  BY <1>10 DEF vars, Offered
<1> QED BY <1>1, <1>2, <1>3, <1>4, <1>5, <1>6, <1>7, <1>8, <1>9, <1>10, NextCases

\* What the fate of a prompt depends on, one fact for each transition that the
\* ledger forbids.
LEMMA FateFacts ==
    ASSUME OneView, TypeOK, TxSound, Once, Mirrors, Once', TypeOK', [Next]_vars, NEW e \in Entries
    PROVE  /\ Holds(Committed, e) => sent[e] = 0 /\ e \in used
           /\ Holds(Committed', e) => sent'[e] = 0 /\ e \in used'
           /\ sent[e] \in {0, 1} /\ sent'[e] \in {0, 1} /\ (sent[e] = 1 => sent'[e] = 1)
           /\ sent[e] = 1 => e \in used
           /\ sent[e] = 0 /\ sent'[e] = 1 => Holds(Committed, e)
           /\ e \in used => e \in used'
           /\ e \notin used /\ e \in used' => Offered(e)' /\ sent'[e] = sent[e]
           /\ Offered(e)' /\ e \in used => Offered(e)
           /\ Holds(Committed, e) /\ ~Holds(Committed', e) => ~Offered(e)'
           /\ e \notin used /\ e \in used' => (Holds(Committed', e) => Holds(Committed, e))
<1>1. Holds(Committed, e) => sent[e] = 0 /\ e \in used
  BY HoldsAt DEF Once
<1>2. Holds(Committed', e) => sent'[e] = 0 /\ e \in used'
  <2> QED BY HoldsNext DEF Once
<1>3. sent[e] \in {0, 1} /\ sent'[e] \in {0, 1} /\ (sent[e] = 1 => e \in used)
  BY DEF Once
<1>4. sent[e] = 1 => sent'[e] = 1
  BY <1>3, SentStep
<1>5. ASSUME sent[e] = 0, sent'[e] = 1 PROVE Holds(Committed, e)
  <2>1. Commits /\ current.kind \in {"claim", "drain"} /\ current.entry = e
    BY <1>5, SentStep
  <2>2. /\ Committed[current.sid] = current.slice /\ ~Vanished(current, current.shown)
        /\ current # Idle /\ current.step = "save"
    BY <2>1, CommittedSet
  <2>3. Contains(current.slice, e) /\ current.sid \in Sessions
    BY <2>1, <2>2, CurrentTyped DEF Vanished, Mirrors
  <2> QED BY <2>2, <2>3 DEF Holds
<1>6. /\ e \in used => e \in used'
      /\ e \notin used /\ e \in used' => Asks /\ Offered(e)'
  BY UsedStep
<1>7. e \notin used /\ e \in used' => sent'[e] = sent[e]
  BY <1>6, AsksEffect DEF Asked
<1>8. Offered(e)' /\ e \in used => Offered(e)
  BY OfferStep
<1>9. ASSUME Holds(Committed, e), ~Holds(Committed', e) PROVE ~Offered(e)'
  <2>1. Commits \/ Restart
    BY <1>9, CommittedKept DEF Holds
  <2>2. \A i \in DOMAIN pending : ~Waits(i, e)
    BY <1>9, HoldsAt DEF Once
  <2>3. CASE Commits
    BY <2>2, <2>3, SavedCommits DEF Commits, Offered, Waits
  <2>4. CASE Restart
    BY <2>4 DEF Restart, Offered
  <2> QED BY <2>1, <2>3, <2>4
<1>10. ASSUME e \notin used, e \in used' PROVE Holds(Committed', e) => Holds(Committed, e)
  <2>1. PICK r \in Requests : Asked(r)
    BY <1>6, <1>10, AsksEffect
  <2> QED BY <2>1 DEF Asked, Committed, Restored
<1> QED BY <1>1, <1>2, <1>3, <1>4, <1>5, <1>6, <1>7, <1>8, <1>9, <1>10

LEMMA FateStep ==
    ASSUME OneView, TypeOK, TxSound, Once, Mirrors, Once', TypeOK', [Next]_vars, NEW e \in Entries
    PROVE  Fate(e)' \in Ledger!Fates /\ Fate(e)' \in Ledger!MayBecome(Fate(e))
<1> DEFINE H == Holds(Committed, e)
           O == Offered(e)
<1>1. /\ H => sent[e] = 0 /\ e \in used
      /\ H' => sent'[e] = 0 /\ e \in used'
      /\ sent[e] \in {0, 1} /\ sent'[e] \in {0, 1} /\ (sent[e] = 1 => sent'[e] = 1)
      /\ sent[e] = 1 => e \in used
      /\ sent[e] = 0 /\ sent'[e] = 1 => H
      /\ e \in used => e \in used'
      /\ e \notin used /\ e \in used' => O' /\ sent'[e] = sent[e]
      /\ O' /\ e \in used => O
      /\ H /\ ~H' => ~O'
      /\ e \notin used /\ e \in used' => (H' => H)
  BY FateFacts
<1>2. Fate(e) = CASE H -> "queued"
                  [] ~H /\ sent[e] > 0 -> "sent"
                  [] e \notin used -> "fresh"
                  [] OTHER -> IF O THEN "offered" ELSE "gone"
  BY DEF Fate
<1>3. Fate(e)' = CASE H' -> "queued"
                   [] ~H' /\ sent'[e] > 0 -> "sent"
                   [] e \notin used' -> "fresh"
                   [] OTHER -> IF O' THEN "offered" ELSE "gone"
  BY DEF Fate
<1> HIDE DEF H, O
<1>4. CASE H
  <2>1. Fate(e) = "queued"
    BY <1>1, <1>2, <1>4
  <2>2. Fate(e)' \in {"queued", "sent", "gone"}
    BY <1>1, <1>3, <1>4
  <2> QED BY <2>1, <2>2 DEF Ledger!Fates, Ledger!MayBecome
<1>5. CASE ~H /\ sent[e] = 1
  <2>1. Fate(e) = "sent"
    BY <1>1, <1>2, <1>5
  <2>2. Fate(e)' = "sent"
    BY <1>1, <1>3, <1>5
  <2> QED BY <2>1, <2>2 DEF Ledger!Fates, Ledger!MayBecome
<1>6. CASE ~H /\ sent[e] = 0 /\ e \notin used
  <2>1. Fate(e) = "fresh"
    BY <1>1, <1>2, <1>6
  <2>2. Fate(e)' \in {"fresh", "offered"}
    BY <1>1, <1>3, <1>6
  <2> QED BY <2>1, <2>2 DEF Ledger!Fates, Ledger!MayBecome
<1>7. CASE ~H /\ sent[e] = 0 /\ e \in used /\ O
  <2>1. Fate(e) = "offered"
    BY <1>1, <1>2, <1>7
  <2>2. Fate(e)' \in {"offered", "queued", "gone"}
    BY <1>1, <1>3, <1>7
  <2> QED BY <2>1, <2>2 DEF Ledger!Fates, Ledger!MayBecome
<1>8. CASE ~H /\ sent[e] = 0 /\ e \in used /\ ~O
  <2>1. Fate(e) = "gone"
    BY <1>1, <1>2, <1>8
  <2>2. Fate(e)' \in {"queued", "gone"}
    BY <1>1, <1>3, <1>8
  <2> QED BY <2>1, <2>2 DEF Ledger!Fates, Ledger!MayBecome
<1> QED BY <1>1, <1>4, <1>5, <1>6, <1>7, <1>8

LEMMA MirrorsCorrect == ASSUME OneView PROVE Spec => []Mirrors
<1>1. TypeOK /\ TxSound /\ Mirrors /\ [Next]_vars => Mirrors'
  BY MirrorsStep
<1> QED BY <1>1, MirrorsInit, TypeCorrect, TxCorrect, PTL DEF Spec

\* With one view open, the queue implements the ledger of QueueLedger: each
\* prompt goes from fresh over offered and queued to sent or gone, is sent from
\* the queue only, and once sent stays so through every failure and restart.
THEOREM ImplementsLedger == ASSUME OneView PROVE Spec => KeepsLedger
<1>1. Init => Ledger!Init
  <2> SUFFICES ASSUME Init, NEW e \in Entries PROVE Fate(e) = "fresh"
    BY DEF Ledger!Init
  <2>1. ~Holds(Committed, e) /\ sent[e] = 0 /\ e \notin used
    BY EmptyQueue DEF Init, Holds, Committed
  <2> QED BY <2>1 DEF Fate
<1>2. Apart
  BY DEF OneView, Apart
<1>3. Spec => []Once
  BY <1>2, OnceCorrect, PTL
<1>4. TypeOK /\ TxSound /\ Once /\ Mirrors /\ TypeOK' /\ Once' /\ [Next]_vars => Ledger!Next
  BY FateStep DEF Ledger!Next
<1> QED BY <1>1, <1>3, <1>4, TypeCorrect, TxCorrect, MirrorsCorrect, PTL DEF Spec, KeepsLedger, Ledger!Spec
=============================================================================
