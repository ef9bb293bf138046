---------------------------- MODULE ServicesProofs ----------------------------
(***************************************************************************)
(* TLAPS proofs about the services around the agent loop, component by     *)
(* component, for any instance of each:                                    *)
(*   - McpServers: its types, and that no request waits on a client that   *)
(*     was closed and no closed or half-connected client is registered;    *)
(*   - MoaEngine: its types, and that the advice a mixture acts on is of   *)
(*     the turn and as old as the cadence allows, and whole;               *)
(*   - Delegation: its types, the lanes of a batch, and the stores a run   *)
(*     writes to;                                                          *)
(*   - WebTools: its types, that a note an answer names is there, and that *)
(*     a stopped call waits for nothing;                                   *)
(*   - PdfUpload: its types, that one worker is live at most, and that an  *)
(*     extraction nobody waits for keeps none;                             *)
(*   - Completions: its types, and that what a request returns is what was *)
(*     shown.                                                              *)
(***************************************************************************)
EXTENDS McpServers, Integers, FiniteSetTheorems, SequenceTheorems, TLAPS

CONSTANTS
    Refs, Fanouts, Policies, Workers, Attempts, MaxTurns, MaxSteps,   \* of MoaEngine
    Parents, Folders, MaxTasks, Pool, MaxBatches, MaxRebinds,         \* of Delegation
    Calls, AsksOf, Urls, Public, Limit, MaxBytes,                     \* of WebTools
    MaxPdfs, MaxDrops,                                                \* of PdfUpload
    MaxLines, MaxRuns, Lookups                                        \* of Completions

VARIABLES
    fanout, degraded, turn, step, cadence, cache, refs, phase, guidance, moaAborted, asked,
    folder, parent, batch, rebinds,
    request, progress, stopped, page, outs, notes, deleted,
    ops, inits, live, workerReady, sharedWorker, active, drops,
    streaming, came, pending, half, got, flags, shown, emitted, halted, seen, completions, vision, window, lookup

Moa == INSTANCE MoaEngine
Del == INSTANCE Delegation
Web == INSTANCE WebTools WITH ask <- request, stage <- progress, out <- outs, cache <- notes
Pdf == INSTANCE PdfUpload
Compl == INSTANCE Completions WITH phase <- came, wire <- pending, stopped <- halted

-----------------------------------------------------------------------------
(* McpServers, for any servers, runs and configurations and any bounds.    *)

\* What the instance of a run, or the code, gives the constants: there is a
\* server and a configuration to name, and None is no client.
McpBounds ==
    /\ Servers # {} /\ Keys # {} /\ None \notin Clients
    /\ MaxClients \in Nat /\ MaxListings \in Nat /\ MaxRequests \in Nat /\ MaxEdits \in Nat

Handshakes(r, c) == mrun[r].stage \in {"initialize", "list"} /\ mrun[r].client = c

\* A client that is registered or waited on was connected; one in a handshake
\* belongs to the run that connected it, and to the server it was started for.
Linked ==
    /\ \A s \in Servers : registry[s] # None => registry[s] \in DOMAIN client
    /\ \A r \in Runs : mrun[r].stage \in Waiting => mrun[r].client \in DOMAIN client
    /\ \A r \in Runs, c \in DOMAIN client : Handshakes(r, c) =>
          /\ client[c].server = mrun[r].server
          /\ \A q \in Runs : WaitsOn(q, c) => q = r

McpInv == McpTypeOK /\ Linked /\ McpServed

-----------------------------------------------------------------------------
(* The operators.                                                          *)

\* A run that goes on, or whose request was rejected, waits for nothing.
LEMMA OnwardCalm ==
    ASSUME NEW m \in MRun, McpBounds
    PROVE  /\ Onward(m) \in MRun /\ Onward(m).stage \in {"ready", "secrets"}
           /\ Rejected(m) \in MRun /\ Rejected(m).stage \in {"ready", "secrets"}
<1>1. ASSUME m.todo # {}
      PROVE  (CHOOSE t \in m.todo : TRUE) \in m.todo
  BY <1>1
<1>2. Onward(m) \in MRun /\ Onward(m).stage \in {"ready", "secrets"}
  <2>1. CASE m.todo = {}
    BY <2>1 DEF Onward, MRun, Stages
  <2>2. CASE m.todo # {}
    <3> DEFINE s == CHOOSE t \in m.todo : TRUE
    <3>1. s \in Servers
      BY <1>1, <2>2 DEF MRun
    <3> HIDE DEF s
    <3>2. Onward(m) = [m EXCEPT !.stage = "secrets", !.server = s, !.todo = @ \ {s}, !.client = None]
      BY <2>2 DEF Onward, s
    <3>3. m.todo \ {s} \in SUBSET Servers
      BY DEF MRun
    <3> DEFINE rest == m.todo \ {s}
    <3> HIDE DEF rest
    <3>4. Onward(m) = [m EXCEPT !.stage = "secrets", !.server = s, !.todo = rest, !.client = None]
      BY <3>2 DEF rest, MRun
    <3>5. rest \in SUBSET Servers
      BY <3>3 DEF rest
    <3> QED BY <3>1, <3>4, <3>5 DEF MRun, Stages
  <2> QED BY <2>1, <2>2
<1>3. Rejected(m) \in MRun /\ Rejected(m).stage \in {"ready", "secrets"}
  <2>1. CASE m.stage = "call"
    BY <2>1 DEF Rejected, MRun, Stages
  <2>2. CASE m.stage # "call"
    BY <2>2, <1>2 DEF Rejected
  <2> QED BY <2>1, <2>2
<1> QED BY <1>2, <1>3

\* failAll leaves nobody waiting on the client and touches no one else.
LEMMA FailAllCalm ==
    ASSUME McpBounds, McpTypeOK, NEW c
    PROVE  /\ FailAll(c) \in [Runs -> MRun]
           /\ \A r \in Runs : IF WaitsOn(r, c) THEN FailAll(c)[r].stage \in {"ready", "secrets"}
                              ELSE FailAll(c)[r] = mrun[r]
<1>1. \A r \in Runs : mrun[r] \in MRun
  BY DEF McpTypeOK
<1>2. \A r \in Runs : Rejected(mrun[r]) \in MRun /\ Rejected(mrun[r]).stage \in {"ready", "secrets"}
  BY <1>1, OnwardCalm
<1> QED BY <1>1, <1>2 DEF FailAll

LEMMA ClientKinds ==
    ASSUME NEW cl \in Client
    PROVE  /\ Closed(cl) \in Client /\ Closed(cl).server = cl.server /\ ~Closed(cl).open
           /\ \A reqs \in Seq(Request) : /\ SentTo(cl, reqs) \in Client
                                         /\ SentTo(cl, reqs).server = cl.server
                                         /\ SentTo(cl, reqs).open = cl.open
<1>1. <<>> \in Seq(Request)
  OBVIOUS
<1>2. Closed(cl) \in Client /\ Closed(cl).server = cl.server /\ ~Closed(cl).open
  BY <1>1 DEF Closed, Client
<1>3. ASSUME NEW reqs \in Seq(Request)
      PROVE  SentTo(cl, reqs) \in Client /\ SentTo(cl, reqs).server = cl.server
             /\ SentTo(cl, reqs).open = cl.open
  <2>1. cl.wire \o reqs \in Seq(Request)
    BY ConcatProperties DEF Client
  <2> QED BY <2>1 DEF SentTo, Client
<1> QED BY <1>2, <1>3

LEMMA OneClient ==
    ASSUME McpTypeOK, NEW c \in DOMAIN client, NEW cl \in Client
    PROVE  /\ [client EXCEPT ![c] = cl] \in Seq(Client)
           /\ Len([client EXCEPT ![c] = cl]) = Len(client)
           /\ DOMAIN [client EXCEPT ![c] = cl] = DOMAIN client
<1>1. client \in Seq(Client) /\ c \in 1 .. Len(client)
  BY DEF McpTypeOK
<1> QED BY <1>1, ExceptSeq

\* What a client says of itself, for every client connected so far.
LEMMA ClientOf ==
    ASSUME McpBounds, McpTypeOK, NEW c \in DOMAIN client
    PROVE  client[c] \in Client /\ c \in Clients
<1>1. client \in Seq(Client) /\ c \in 1 .. Len(client) /\ Len(client) <= MaxClients /\ MaxClients \in Nat
  BY DEF McpTypeOK, McpBounds
<1>2. DOMAIN client = 1 .. Len(client) /\ Len(client) \in Nat
  BY <1>1
<1>3. client[c] \in Client
  BY <1>1, ElementOfSeq
<1> QED BY <1>1, <1>2, <1>3 DEF Clients

-----------------------------------------------------------------------------
(* What a step is: runs stop waiting or join a client, servers leave the    *)
(* registry or enter it, and a client closes only when nobody waits on it   *)
(* and no server is it.                                                     *)

\* A run that waits soundly: on an open client that nobody else is in a
\* handshake with, and in a handshake of its own alone, on no registered one.
Joins(q) ==
    LET c == mrun[q].client IN
    /\ c \in DOMAIN client /\ client[c].open
    /\ \A p \in Runs \ {q} : ~Handshakes(p, c)
    /\ mrun[q].stage # "call" =>
         /\ client[c].server = mrun[q].server
         /\ \A p \in Runs : WaitsOn(p, c) => p = q
         /\ \A s \in Servers : registry[s] # c

Enters(s) ==
    LET c == registry[s] IN
    /\ c \in DOMAIN client /\ client[c].open /\ client[c].server = s
    /\ \A r \in Runs : WaitsOn(r, c) => mrun[r].stage = "call"

LEMMA Kept ==
    ASSUME McpBounds, McpInv, McpTypeOK',
           \A r \in Runs : mrun'[r] = mrun[r] \/ mrun'[r].stage \notin Waiting \/ Joins(r)',
           \A s \in Servers : registry'[s] \in {registry[s], None} \/ Enters(s)',
           DOMAIN client \subseteq DOMAIN client',
           \A c \in DOMAIN client : client'[c].server = client[c].server,
           \A c \in DOMAIN client :
              \/ client'[c].open = client[c].open
              \/ /\ \A r \in Runs : ~WaitsOn(r, c)'
                 /\ \A s \in Servers : registry'[s] # c
    PROVE  Linked' /\ McpServed'
<1> USE DEF McpInv
<1>1. ASSUME NEW s \in Servers, registry'[s] # None, ~Enters(s)'
      PROVE  registry'[s] = registry[s] /\ registry[s] \in DOMAIN client
  BY <1>1 DEF Linked
<1>2. ASSUME NEW r \in Runs, mrun'[r].stage \in Waiting, ~Joins(r)'
      PROVE  mrun'[r] = mrun[r] /\ mrun[r].client \in DOMAIN client
  BY <1>2 DEF Linked
<1>3. ASSUME NEW r \in Runs, NEW c \in DOMAIN client', Handshakes(r, c)'
      PROVE  client'[c].server = mrun'[r].server /\ \A q \in Runs : WaitsOn(q, c)' => q = r
  <2>1. CASE Joins(r)'
    BY <1>3, <2>1 DEF Joins, Handshakes
  <2>2. CASE ~Joins(r)'
    <3>1. mrun'[r] = mrun[r] /\ c \in DOMAIN client /\ Handshakes(r, c)
      BY <1>2, <1>3, <2>2 DEF Handshakes, Waiting
    <3>2. ASSUME NEW q \in Runs, WaitsOn(q, c)', q # r
          PROVE  WaitsOn(q, c)
      <4>1. ~Joins(q)'
        BY <1>3, <3>2 DEF Joins, WaitsOn
      <4> QED BY <1>2, <3>2, <4>1 DEF WaitsOn
    <3> QED BY <3>1, <3>2 DEF Linked
  <2> QED BY <2>1, <2>2
<1>4. \A s \in Servers : registry'[s] # None => registry'[s] \in DOMAIN client'
  BY <1>1 DEF Enters
<1>5. \A r \in Runs : mrun'[r].stage \in Waiting => mrun'[r].client \in DOMAIN client'
  BY <1>2 DEF Joins
<1>6. Linked'
  BY <1>3, <1>4, <1>5 DEF Linked
<1>7. ASSUME NEW s \in Servers, registry'[s] # None
      PROVE  Enters(s)'
  <2>1. CASE ~Enters(s)'
    <3>1. registry'[s] = registry[s] /\ registry[s] \in DOMAIN client /\ registry[s] # None
      BY <1>1, <1>7, <2>1
    <3>2. client'[registry[s]].open = client[registry[s]].open
      BY <3>1
    <3>3. client[registry[s]].open /\ client[registry[s]].server = s
      BY <3>1 DEF McpServed
    <3>4. ASSUME NEW r \in Runs, WaitsOn(r, registry[s])'
          PROVE  mrun'[r].stage = "call"
      <4>1. CASE Joins(r)'
        BY <3>4, <4>1 DEF Joins, WaitsOn
      <4>2. CASE ~Joins(r)'
        <5>1. mrun'[r] = mrun[r] /\ WaitsOn(r, registry[s])
          BY <1>2, <3>1, <3>4, <4>2 DEF WaitsOn
        <5> QED BY <3>1, <5>1 DEF McpServed
      <4> QED BY <4>1, <4>2
    <3> QED BY <3>1, <3>2, <3>3, <3>4 DEF Enters
  <2> QED BY <2>1
<1>8. ASSUME NEW r \in Runs, mrun'[r].stage \in Waiting
      PROVE  client'[mrun'[r].client].open
  <2>1. CASE Joins(r)'
    BY <2>1 DEF Joins
  <2>2. CASE ~Joins(r)'
    <3>1. mrun'[r] = mrun[r] /\ mrun[r].client \in DOMAIN client /\ client[mrun[r].client].open
      BY <1>2, <1>8, <2>2 DEF McpServed
    <3>2. WaitsOn(r, mrun[r].client)'
      BY <3>1, <1>8 DEF WaitsOn
    <3> QED BY <3>1, <3>2
  <2> QED BY <2>1, <2>2
<1> QED BY <1>6, <1>7, <1>8 DEF McpServed, Enters

-----------------------------------------------------------------------------
(* The steps of one run that touch no client.                              *)

\* The types of a step that changes one run and nothing else of the runtime.
LEMMA OneRunTypes ==
    ASSUME McpTypeOK, NEW r \in Runs, NEW m \in MRun, mrun' = [mrun EXCEPT ![r] = m],
           UNCHANGED <<config, enabled, registry, client, disposed, edits>>
    PROVE  McpTypeOK'
BY DEF McpTypeOK

LEMMA ListToolsKeeps ==
    ASSUME McpBounds, McpInv, NEW r \in Runs, ListTools(r)
    PROVE  McpInv'
<1> DEFINE m0 == [mrun[r] EXCEPT !.todo = Servers, !.listings = @ + 1]
<1>1. mrun[r] \in MRun /\ mrun[r].listings + 1 \in 0 .. MaxListings
  BY DEF McpInv, McpTypeOK, ListTools, MRun, McpBounds
<1>2. m0 \in MRun
  BY <1>1 DEF MRun
<1>3. Onward(m0) \in MRun /\ Onward(m0).stage \in {"ready", "secrets"}
  BY <1>2, OnwardCalm
<1>4. mrun' = [mrun EXCEPT ![r] = Onward(m0)]
      /\ UNCHANGED <<config, enabled, registry, client, disposed, edits>>
  BY DEF ListTools
<1> HIDE DEF m0
<1>5. McpTypeOK'
  BY <1>3, <1>4, OneRunTypes DEF McpInv
<1>6. \A q \in Runs : mrun'[q] = mrun[q] \/ mrun'[q].stage \notin Waiting
  BY <1>3, <1>4 DEF McpInv, McpTypeOK, Waiting
<1>7. Linked' /\ McpServed'
  BY <1>4, <1>5, <1>6, Kept
<1> QED BY <1>5, <1>7 DEF McpInv

LEMMA ReuseKeeps ==
    ASSUME McpBounds, McpInv, NEW r \in Runs, Reuse(r)
    PROVE  McpInv'
<1>1. Onward(mrun[r]) \in MRun /\ Onward(mrun[r]).stage \in {"ready", "secrets"}
  BY OnwardCalm DEF McpInv, McpTypeOK
<1>2. mrun' = [mrun EXCEPT ![r] = Onward(mrun[r])]
      /\ UNCHANGED <<config, enabled, registry, client, disposed, edits>>
  BY DEF Reuse, McpInv, McpTypeOK
<1>3. McpTypeOK'
  BY <1>1, <1>2, OneRunTypes DEF McpInv
<1>4. \A q \in Runs : mrun'[q] = mrun[q] \/ mrun'[q].stage \notin Waiting
  BY <1>1, <1>2 DEF McpInv, McpTypeOK, Waiting
<1>5. Linked' /\ McpServed'
  BY <1>2, <1>3, <1>4, Kept
<1> QED BY <1>3, <1>5 DEF McpInv

LEMMA RunEndsKeeps ==
    ASSUME McpBounds, McpInv, NEW r \in Runs, RunEnds(r)
    PROVE  McpInv'
<1> DEFINE m == [mrun[r] EXCEPT !.stage = "idle"]
<1>1. m \in MRun /\ m.stage = "idle"
  BY DEF McpInv, McpTypeOK, MRun, Stages
<1>2. mrun' = [mrun EXCEPT ![r] = m]
      /\ UNCHANGED <<config, enabled, registry, client, disposed, edits>>
  BY DEF RunEnds, McpInv, McpTypeOK
<1> HIDE DEF m
<1>3. McpTypeOK'
  BY <1>1, <1>2, OneRunTypes DEF McpInv
<1>4. \A q \in Runs : mrun'[q] = mrun[q] \/ mrun'[q].stage \notin Waiting
  BY <1>1, <1>2 DEF McpInv, McpTypeOK, Waiting
<1>5. Linked' /\ McpServed'
  BY <1>2, <1>3, <1>4, Kept
<1> QED BY <1>3, <1>5 DEF McpInv

\* A change of the configuration or of the switch.
LEMMA EditKeeps ==
    ASSUME McpBounds, McpInv, Switch \/ \E s \in Servers, k \in Keys : Edit(s, k)
    PROVE  McpInv'
<1>1. UNCHANGED <<registry, client, mrun, disposed>>
      /\ edits < MaxEdits /\ edits' = edits + 1
  BY DEF Switch, Edit
<1>2. edits' \in 0 .. MaxEdits
  BY <1>1 DEF McpInv, McpTypeOK, McpBounds
<1>3. config' \in [Servers -> Keys] /\ enabled' \in BOOLEAN
  <2>1. CASE Switch
    BY <2>1 DEF Switch, McpInv, McpTypeOK
  <2>2. CASE \E s \in Servers, k \in Keys : Edit(s, k)
    BY <2>2 DEF Edit, McpInv, McpTypeOK
  <2> QED BY <2>1, <2>2
<1>4. McpTypeOK'
  BY <1>1, <1>2, <1>3 DEF McpInv, McpTypeOK
<1>5. Linked' /\ McpServed'
  BY <1>1, <1>4, Kept
<1> QED BY <1>4, <1>5 DEF McpInv

-----------------------------------------------------------------------------
(* Connecting and calling.                                                 *)

\* The client that a configuration change leaves behind is closed, and who
\* waited on it is rejected: the clients and the runs that remain.
ClientsLeft(s) == IF registry[s] = None THEN client
           ELSE [client EXCEPT ![registry[s]] = Closed(client[registry[s]])]

RunsLeft(s) == IF registry[s] = None THEN mrun ELSE FailAll(registry[s])

LEMMA ReplaceCalm ==
    ASSUME McpBounds, McpInv, NEW s \in Servers
    PROVE  /\ ClientsLeft(s) \in Seq(Client) /\ Len(ClientsLeft(s)) = Len(client) /\ DOMAIN ClientsLeft(s) = DOMAIN client
           /\ RunsLeft(s) \in [Runs -> MRun]
           /\ \A q \in Runs : RunsLeft(s)[q] = mrun[q] \/ RunsLeft(s)[q].stage \in {"ready", "secrets"}
           /\ \A c \in DOMAIN client : ClientsLeft(s)[c].server = client[c].server
           /\ \A c \in DOMAIN client :
                 \/ ClientsLeft(s)[c].open = client[c].open
                 \/ /\ c = registry[s]
                    /\ \A q \in Runs : RunsLeft(s)[q].stage \in Waiting => RunsLeft(s)[q].client # c
<1> USE DEF McpInv
<1>1. CASE registry[s] = None
  BY <1>1 DEF McpTypeOK, ClientsLeft, RunsLeft
<1>2. CASE registry[s] # None
  <2> DEFINE old == registry[s]
  <2>1. old \in DOMAIN client
    BY <1>2 DEF Linked
  <2>2. client[old] \in Client
    BY <2>1, ClientOf
  <2>3. Closed(client[old]) \in Client /\ Closed(client[old]).server = client[old].server
    BY <2>2, ClientKinds
  <2>4. ClientsLeft(s) = [client EXCEPT ![old] = Closed(client[old])] /\ RunsLeft(s) = FailAll(old)
    BY <1>2 DEF ClientsLeft, RunsLeft
  <2>5. ClientsLeft(s) \in Seq(Client) /\ Len(ClientsLeft(s)) = Len(client) /\ DOMAIN ClientsLeft(s) = DOMAIN client
    BY <2>1, <2>3, <2>4, OneClient
  <2>6. /\ RunsLeft(s) \in [Runs -> MRun]
        /\ \A q \in Runs : IF WaitsOn(q, old) THEN RunsLeft(s)[q].stage \in {"ready", "secrets"}
                           ELSE RunsLeft(s)[q] = mrun[q]
    BY <2>4, FailAllCalm
  <2>7. \A c \in DOMAIN client : ClientsLeft(s)[c] = IF c = old THEN Closed(client[old]) ELSE client[c]
    BY <2>1, <2>4 DEF McpTypeOK
  <2>8. \A q \in Runs : RunsLeft(s)[q].stage \in Waiting => RunsLeft(s)[q].client # old
    BY <2>6 DEF WaitsOn, Waiting
  <2> QED BY <2>3, <2>5, <2>6, <2>7, <2>8
<1> QED BY <1>1, <1>2

LEMMA ConnectKeeps ==
    ASSUME McpBounds, McpInv, NEW r \in Runs, NEW ok \in BOOLEAN, Connect(r, ok)
    PROVE  McpInv'
<1> USE DEF McpInv
<1> DEFINE s    == mrun[r].server
           old  == registry[s]
           kept == ClientsLeft(s)
           rest == RunsLeft(s)
           c    == Len(client) + 1
           new  == [server |-> s, key |-> config[s], proc |-> "up", open |-> TRUE,
                    dead |-> FALSE, wire |-> <<[by |-> r, n |-> mrun[r].n + 1]>>]
           me   == [mrun[r] EXCEPT !.stage = "initialize", !.client = c,
                                   !.key = config[s], !.n = mrun[r].n + 1]
<1>1. /\ c \in Clients /\ registry' = [registry EXCEPT ![s] = None]
      /\ IF ok THEN client' = Append(kept, new) /\ mrun' = [rest EXCEPT ![r] = me]
               ELSE client' = kept /\ mrun' = [rest EXCEPT ![r] = Onward(rest[r])]
      /\ UNCHANGED <<config, enabled, disposed, edits>>
  BY DEF Connect, ClientsLeft, RunsLeft
<1>2. mrun[r] \in MRun /\ s \in Servers /\ config[s] \in Keys /\ mrun[r].n + 1 \in Nat
  BY DEF McpTypeOK, MRun
<1>3. /\ kept \in Seq(Client) /\ Len(kept) = Len(client) /\ DOMAIN kept = DOMAIN client
      /\ rest \in [Runs -> MRun]
      /\ \A q \in Runs : rest[q] = mrun[q] \/ rest[q].stage \in {"ready", "secrets"}
      /\ \A d \in DOMAIN client : kept[d].server = client[d].server
      /\ \A d \in DOMAIN client :
            \/ kept[d].open = client[d].open
            \/ d = old /\ \A q \in Runs : rest[q].stage \in Waiting => rest[q].client # d
  BY <1>2, ReplaceCalm
<1>4. DOMAIN client = 1 .. Len(client) /\ Len(client) \in Nat /\ client \in Seq(Client)
  BY DEF McpTypeOK
<1>5. registry' \in [Servers -> Clients \cup {None}]
      /\ \A t \in Servers : registry'[t] = IF t = s THEN None ELSE registry[t]
  BY <1>1, <1>2 DEF McpTypeOK
<1>6. \A t \in Servers : old # None => registry'[t] # old
  BY <1>2, <1>5 DEF McpServed
<1>7. CASE ~ok
  <2>1. Onward(rest[r]) \in MRun /\ Onward(rest[r]).stage \in {"ready", "secrets"}
    BY <1>3, OnwardCalm
  <2>2. client' = kept /\ mrun' = [rest EXCEPT ![r] = Onward(rest[r])]
    BY <1>1, <1>7
  <2> HIDE DEF kept, rest
  <2>3. mrun' \in [Runs -> MRun]
        /\ \A q \in Runs : mrun'[q] = IF q = r THEN Onward(rest[r]) ELSE rest[q]
    BY <1>3, <2>1, <2>2
  <2>4. McpTypeOK'
    BY <1>1, <1>3, <1>5, <2>2, <2>3 DEF McpTypeOK
  <2>5. \A q \in Runs : mrun'[q] = mrun[q] \/ mrun'[q].stage \notin Waiting
    BY <1>3, <2>1, <2>3 DEF Waiting
  <2>6. ASSUME NEW d \in DOMAIN client
        PROVE  \/ client'[d].open = client[d].open
               \/ /\ \A q \in Runs : ~WaitsOn(q, d)'
                  /\ \A t \in Servers : registry'[t] # d
    <3>1. old # None \/ d # old
      BY <1>4 DEF McpBounds, McpTypeOK, Clients
    <3> QED BY <1>3, <1>6, <2>1, <2>2, <2>3, <3>1 DEF WaitsOn, Waiting
  <2>7. \A t \in Servers : registry'[t] \in {registry[t], None}
    BY <1>5
  <2>8. DOMAIN client \subseteq DOMAIN client'
        /\ \A d \in DOMAIN client : client'[d].server = client[d].server
    BY <1>3, <2>2
  <2>9. Linked' /\ McpServed'
    BY <2>4, <2>5, <2>6, <2>7, <2>8, Kept
  <2> QED BY <2>4, <2>9
<1>8. CASE ok
  <2>1. client' = Append(kept, new) /\ mrun' = [rest EXCEPT ![r] = me]
    BY <1>1, <1>8
  <2>2. new \in Client /\ new.server = s /\ new.open
    <3>1. <<[by |-> r, n |-> mrun[r].n + 1]>> \in Seq(Request)
      BY <1>2 DEF Request
    <3> QED BY <1>2, <3>1 DEF Client
  <2>3. me \in MRun /\ me.stage = "initialize" /\ me.client = c /\ me.server = s
    BY <1>1, <1>2 DEF MRun, Stages, Waiting
  <2> HIDE DEF kept, rest, new, me
  <2>4. /\ client' \in Seq(Client) /\ Len(client') = c /\ client'[c] = new
        /\ \A d \in DOMAIN client : client'[d] = kept[d]
    BY <1>3, <1>4, <2>1, <2>2, AppendProperties
  <2>5. DOMAIN client' = 1 .. c
    BY <2>4
  <2>6. mrun' \in [Runs -> MRun] /\ \A q \in Runs : mrun'[q] = IF q = r THEN me ELSE rest[q]
    BY <1>3, <2>1, <2>3
  <2>7. McpTypeOK'
    BY <1>1, <1>5, <2>4, <2>6 DEF McpTypeOK, Clients, McpBounds
  <2>8. c \notin DOMAIN client /\ c \in DOMAIN client' /\ c # None
    BY <1>1, <1>4, <2>5 DEF McpBounds
  <2>9. \A q \in Runs \ {r} : mrun'[q].stage \in Waiting => mrun'[q].client # c
    BY <1>3, <2>6, <2>8 DEF Waiting, Linked
  <2>10. \A t \in Servers : registry'[t] # c
    BY <1>5, <2>8 DEF Linked
  <2>11. Joins(r)'
    BY <2>2, <2>3, <2>4, <2>6, <2>8, <2>9, <2>10 DEF Joins, WaitsOn, Handshakes, Waiting
  <2>12. \A q \in Runs : mrun'[q] = mrun[q] \/ mrun'[q].stage \notin Waiting \/ Joins(q)'
    BY <1>3, <2>6, <2>11 DEF Waiting
  <2>13. ASSUME NEW d \in DOMAIN client
         PROVE  \/ client'[d].open = client[d].open
                \/ /\ \A q \in Runs : ~WaitsOn(q, d)'
                   /\ \A t \in Servers : registry'[t] # d
    <3>1. (old # None \/ d # old) /\ d # c
      BY <1>4 DEF McpBounds, McpTypeOK, Clients
    <3> QED BY <1>3, <1>6, <2>3, <2>4, <2>6, <3>1, SMTT(20) DEF WaitsOn
  <2>14. \A t \in Servers : registry'[t] \in {registry[t], None}
    BY <1>5
  <2>15. DOMAIN client \subseteq DOMAIN client'
         /\ \A d \in DOMAIN client : client'[d].server = client[d].server
    BY <1>3, <1>4, <2>4, <2>5
  <2>16. Linked' /\ McpServed'
    BY <2>7, <2>12, <2>13, <2>14, <2>15, Kept
  <2> QED BY <2>7, <2>16
<1> QED BY <1>7, <1>8

\* A step that replaces one client by one of the same server keeps the others.
LEMMA OneClientKeeps ==
    ASSUME McpBounds, McpTypeOK, NEW c \in DOMAIN client, NEW cl \in Client,
           cl.server = client[c].server, client' = [client EXCEPT ![c] = cl]
    PROVE  /\ client' \in Seq(Client) /\ Len(client') = Len(client)
           /\ DOMAIN client' = DOMAIN client
           /\ client'[c] = cl
           /\ \A d \in DOMAIN client : client'[d].server = client[d].server
                                       /\ (d # c => client'[d] = client[d])
<1>1. client \in Seq(Client)
  BY DEF McpTypeOK
<1> QED BY <1>1, OneClient

LEMMA CallKeeps ==
    ASSUME McpBounds, McpInv, NEW r \in Runs, NEW s \in Servers, NEW broken \in BOOLEAN,
           Call(r, s, broken)
    PROVE  McpInv'
<1> USE DEF McpInv
<1> DEFINE c  == registry[s]
           cl == IF broken THEN [client[c] EXCEPT !.dead = TRUE]
                 ELSE SentTo(client[c], <<[by |-> r, n |-> mrun[r].n + 1]>>)
           me == [mrun[r] EXCEPT !.stage = "call", !.client = c, !.n = mrun[r].n + 1]
           rest == IF broken THEN FailAll(c) ELSE mrun
<1>1. /\ c # None /\ mrun[r].stage = "ready"
      /\ mrun' = [rest EXCEPT ![r] = me] /\ client' = [client EXCEPT ![c] = cl]
      /\ UNCHANGED <<config, enabled, registry, disposed, edits>>
  BY DEF Call
<1>2. c \in DOMAIN client /\ client[c].open /\ client[c].server = s
      /\ \A q \in Runs : WaitsOn(q, c) => mrun[q].stage = "call"
  BY <1>1 DEF Linked, McpServed
<1>3. mrun[r] \in MRun /\ mrun[r].n + 1 \in Nat /\ client[c] \in Client /\ c \in Clients
  BY <1>2, ClientOf DEF McpTypeOK, MRun
<1>4. cl \in Client /\ cl.server = client[c].server /\ cl.open = client[c].open
  <2>1. <<[by |-> r, n |-> mrun[r].n + 1]>> \in Seq(Request)
    BY <1>3 DEF Request
  <2>2. SentTo(client[c], <<[by |-> r, n |-> mrun[r].n + 1]>>) \in Client
        /\ SentTo(client[c], <<[by |-> r, n |-> mrun[r].n + 1]>>).server = client[c].server
        /\ SentTo(client[c], <<[by |-> r, n |-> mrun[r].n + 1]>>).open
             = client[c].open
    BY <1>3, <2>1, ClientKinds
  <2>3. [client[c] EXCEPT !.dead = TRUE] \in Client
    BY <1>3 DEF Client
  <2>4. [client[c] EXCEPT !.dead = TRUE].server = client[c].server
        /\ [client[c] EXCEPT !.dead = TRUE].open = client[c].open
    BY <1>3 DEF Client
  <2> QED BY <2>2, <2>3, <2>4
<1>5. me \in MRun /\ me.stage = "call" /\ me.client = c
  BY <1>3 DEF MRun, Stages, Waiting
<1>6. rest \in [Runs -> MRun]
      /\ \A q \in Runs : rest[q] = mrun[q] \/ rest[q].stage \in {"ready", "secrets"}
  BY FailAllCalm DEF McpTypeOK
<1> HIDE DEF cl, me, rest
<1>7. /\ client' \in Seq(Client) /\ Len(client') = Len(client) /\ DOMAIN client' = DOMAIN client
      /\ client'[c] = cl
      /\ \A d \in DOMAIN client : client'[d].server = client[d].server
                                  /\ (d # c => client'[d] = client[d])
  BY <1>1, <1>2, <1>4, OneClientKeeps
<1>8. mrun' \in [Runs -> MRun] /\ \A q \in Runs : mrun'[q] = IF q = r THEN me ELSE rest[q]
  BY <1>1, <1>5, <1>6
<1>9. McpTypeOK'
  BY <1>1, <1>7, <1>8 DEF McpTypeOK
<1>10. Joins(r)'
  <2>1. \A p \in Runs \ {r} : ~Handshakes(p, c)'
    BY <1>1, <1>2, <1>6, <1>8 DEF Handshakes, WaitsOn, Waiting
  <2> QED BY <1>1, <1>2, <1>4, <1>5, <1>7, <1>8, <2>1, ZenonT(30) DEF Joins, Handshakes
<1>11. \A q \in Runs : mrun'[q] = mrun[q] \/ mrun'[q].stage \notin Waiting \/ Joins(q)'
  BY <1>6, <1>8, <1>10 DEF Waiting
<1>12. \A d \in DOMAIN client : client'[d].open = client[d].open
  BY <1>4, <1>7
<1>13. Linked' /\ McpServed'
  BY <1>1, <1>7, <1>9, <1>11, <1>12, Kept
<1> QED BY <1>9, <1>13

-----------------------------------------------------------------------------
(* Timers, exits and the unload.                                           *)

LEMMA TimeoutKeeps ==
    ASSUME McpBounds, McpInv, NEW r \in Runs, Timeout(r)
    PROVE  McpInv'
<1> USE DEF McpInv
<1> DEFINE c  == mrun[r].client
           cl == IF mrun[r].stage = "call" THEN client[c] ELSE Closed(client[c])
<1>1. /\ mrun[r].stage \in Waiting /\ mrun' = [mrun EXCEPT ![r] = Rejected(mrun[r])]
      /\ client' = [client EXCEPT ![c] = cl]
      /\ UNCHANGED <<config, enabled, registry, disposed, edits>>
  BY DEF Timeout
<1>2. c \in DOMAIN client /\ mrun[r] \in MRun
  BY <1>1 DEF Linked, McpTypeOK
<1>3. client[c] \in Client
  BY <1>2, ClientOf
<1>4. cl \in Client /\ cl.server = client[c].server
      /\ (mrun[r].stage = "call" => cl.open = client[c].open)
  BY <1>3, ClientKinds
<1>5. Rejected(mrun[r]) \in MRun /\ Rejected(mrun[r]).stage \in {"ready", "secrets"}
  BY <1>2, OnwardCalm
<1> HIDE DEF cl
<1>6. /\ client' \in Seq(Client) /\ Len(client') = Len(client) /\ DOMAIN client' = DOMAIN client
      /\ client'[c] = cl
      /\ \A d \in DOMAIN client : client'[d].server = client[d].server
                                  /\ (d # c => client'[d] = client[d])
  BY <1>1, <1>2, <1>4, OneClientKeeps
<1>7. mrun' \in [Runs -> MRun]
      /\ \A q \in Runs : mrun'[q] = IF q = r THEN Rejected(mrun[r]) ELSE mrun[q]
  BY <1>1, <1>5 DEF McpTypeOK
<1>8. McpTypeOK'
  BY <1>1, <1>6, <1>7 DEF McpTypeOK
<1>9. \A q \in Runs : mrun'[q] = mrun[q] \/ mrun'[q].stage \notin Waiting
  BY <1>5, <1>7 DEF Waiting
<1>10. ASSUME mrun[r].stage # "call"
       PROVE  /\ \A q \in Runs : ~(mrun'[q].stage \in Waiting /\ mrun'[q].client = c)
              /\ \A s \in Servers : registry'[s] # c
  <2>1. Handshakes(r, c) /\ WaitsOn(r, c)
    BY <1>1, <1>10 DEF Handshakes, WaitsOn, Waiting
  <2>2. \A q \in Runs : WaitsOn(q, c) => q = r
    BY <1>2, <2>1 DEF Linked
  <2>3. c # None
    BY <1>2, ClientOf DEF McpBounds
  <2>4. \A s \in Servers : registry[s] # c
    BY <1>10, <2>1, <2>3 DEF McpServed
  <2>5. ASSUME NEW q \in Runs
        PROVE  ~(mrun'[q].stage \in Waiting /\ mrun'[q].client = c)
    BY <1>5, <1>7, <2>2 DEF WaitsOn, Waiting
  <2> QED BY <1>1, <2>4, <2>5
<1>11. ASSUME NEW d \in DOMAIN client
       PROVE  \/ client'[d].open = client[d].open
              \/ /\ \A q \in Runs : ~WaitsOn(q, d)'
                 /\ \A s \in Servers : registry'[s] # d
  BY <1>4, <1>6, <1>10 DEF WaitsOn
<1>12. Linked' /\ McpServed'
  BY <1>1, <1>6, <1>8, <1>9, <1>11, Kept
<1> QED BY <1>8, <1>12

LEMMA ProcessEndsKeeps ==
    ASSUME McpBounds, McpInv, NEW c \in DOMAIN client, NEW error \in BOOLEAN,
           ProcessEnds(c, error)
    PROVE  McpInv'
<1> USE DEF McpInv
<1> DEFINE shut == error /\ \E r \in Runs : WaitsOn(r, c) /\ mrun[r].stage # "call"
           cl   == IF shut THEN Closed(client[c])
                   ELSE [client[c] EXCEPT !.proc = "gone", !.wire = <<>>,
                                          !.dead = client[c].dead \/ error]
<1>1. /\ client' = [client EXCEPT ![c] = cl]
      /\ mrun' = IF error THEN FailAll(c) ELSE mrun
      /\ UNCHANGED <<config, enabled, registry, disposed, edits>>
  BY DEF ProcessEnds
<1>2. client[c] \in Client /\ c # None
  BY ClientOf DEF McpBounds
<1>3. cl \in Client /\ cl.server = client[c].server /\ (~shut => cl.open = client[c].open)
  <2>1. Closed(client[c]) \in Client /\ Closed(client[c]).server = client[c].server
    BY <1>2, ClientKinds
  <2>2. client[c].dead \in BOOLEAN /\ <<>> \in Seq(Request)
    BY <1>2 DEF Client
  <2>3. (client[c].dead \/ error) \in BOOLEAN
    BY <2>2
  <2> DEFINE dead == client[c].dead \/ error
  <2> HIDE DEF dead
  <2>4. [client[c] EXCEPT !.proc = "gone", !.wire = <<>>, !.dead = dead] \in Client
        /\ [client[c] EXCEPT !.proc = "gone", !.wire = <<>>, !.dead = dead].server
             = client[c].server
        /\ [client[c] EXCEPT !.proc = "gone", !.wire = <<>>, !.dead = dead].open
             = client[c].open
    <3>1. dead \in BOOLEAN
      BY <2>3 DEF dead
    <3> QED BY <1>2, <2>2, <3>1 DEF Client
  <2> QED BY <2>1, <2>4 DEF dead
<1>4. /\ mrun' \in [Runs -> MRun]
      /\ \A q \in Runs : mrun'[q] = mrun[q] \/ mrun'[q].stage \in {"ready", "secrets"}
      /\ error => \A q \in Runs : WaitsOn(q, c) => mrun'[q].stage \in {"ready", "secrets"}
  BY <1>1, FailAllCalm DEF McpTypeOK
<1>5. shut => /\ \A q \in Runs : ~WaitsOn(q, c)'
              /\ \A s \in Servers : registry'[s] # c
  <2> SUFFICES ASSUME shut
               PROVE  /\ \A q \in Runs : ~WaitsOn(q, c)'
                      /\ \A s \in Servers : registry'[s] # c
    OBVIOUS
  <2>1. \A q \in Runs : ~WaitsOn(q, c)'
    BY <1>4 DEF WaitsOn, Waiting
  <2>2. \A s \in Servers : registry[s] # c
    BY <1>2 DEF McpServed
  <2> QED BY <1>1, <2>1, <2>2
<1> HIDE DEF cl, shut
<1>6. /\ client' \in Seq(Client) /\ Len(client') = Len(client) /\ DOMAIN client' = DOMAIN client
      /\ client'[c] = cl
      /\ \A d \in DOMAIN client : client'[d].server = client[d].server
                                  /\ (d # c => client'[d] = client[d])
  BY <1>1, <1>3, OneClientKeeps
<1>7. McpTypeOK'
  BY <1>1, <1>4, <1>6 DEF McpTypeOK
<1>8. \A q \in Runs : mrun'[q] = mrun[q] \/ mrun'[q].stage \notin Waiting
  BY <1>4 DEF Waiting
<1>9. ASSUME NEW d \in DOMAIN client
      PROVE  \/ client'[d].open = client[d].open
             \/ /\ \A q \in Runs : ~WaitsOn(q, d)'
                /\ \A s \in Servers : registry'[s] # d
  BY <1>3, <1>5, <1>6
<1>10. Linked' /\ McpServed'
  BY <1>1, <1>6, <1>7, <1>8, <1>9, Kept
<1> QED BY <1>7, <1>10

LEMMA DisposeKeeps ==
    ASSUME McpBounds, McpInv, Dispose
    PROVE  McpInv'
<1> USE DEF McpInv
<1> DEFINE held == {registry[s] : s \in Servers} \ {None}
<1>1. /\ client' = [c \in DOMAIN client |-> IF c \in held THEN Closed(client[c]) ELSE client[c]]
      /\ mrun' = [r \in Runs |-> IF \E c \in held : WaitsOn(r, c) THEN Rejected(mrun[r])
                                 ELSE mrun[r]]
      /\ registry' = [s \in Servers |-> None] /\ disposed' = TRUE
      /\ UNCHANGED <<config, enabled, edits>>
  BY DEF Dispose
<1>2. \A c \in DOMAIN client : /\ client[c] \in Client /\ c # None
                               /\ Closed(client[c]) \in Client
                               /\ Closed(client[c]).server = client[c].server
  BY ClientOf, ClientKinds DEF McpBounds
<1>3. \A r \in Runs : mrun[r] \in MRun /\ Rejected(mrun[r]) \in MRun
                      /\ Rejected(mrun[r]).stage \in {"ready", "secrets"}
  BY OnwardCalm DEF McpTypeOK
<1> HIDE DEF held
<1>4. DOMAIN client = 1 .. Len(client) /\ Len(client) \in Nat
  BY DEF McpTypeOK
<1>5. /\ client' \in Seq(Client) /\ Len(client') = Len(client) /\ DOMAIN client' = DOMAIN client
      /\ \A c \in DOMAIN client : client'[c].server = client[c].server
      /\ \A c \in DOMAIN client \ held : client'[c] = client[c]
  <2>1. client' \in [1 .. Len(client) -> Client]
    BY <1>1, <1>2, <1>4
  <2>2. client' \in Seq(Client) /\ Len(client') = Len(client) /\ DOMAIN client' = DOMAIN client
    BY <1>4, <2>1
  <2> QED BY <1>1, <1>2, <2>2
<1>6. /\ mrun' \in [Runs -> MRun]
      /\ \A q \in Runs : mrun'[q] = mrun[q] \/ mrun'[q].stage \notin Waiting
      /\ \A q \in Runs, c \in held : WaitsOn(q, c) => mrun'[q].stage \notin Waiting
  BY <1>1, <1>3 DEF Waiting
<1>7. McpTypeOK'
  BY <1>1, <1>5, <1>6 DEF McpTypeOK
<1>8. ASSUME NEW c \in DOMAIN client
      PROVE  \/ client'[c].open = client[c].open
             \/ /\ \A q \in Runs : ~WaitsOn(q, c)'
                /\ \A s \in Servers : registry'[s] # c
  <2>1. \A s \in Servers : registry'[s] # c
    BY <1>1, <1>2
  <2>2. c \in held => \A q \in Runs : ~WaitsOn(q, c)'
    BY <1>6 DEF WaitsOn
  <2> QED BY <1>5, <2>1, <2>2
<1>9. \A s \in Servers : registry'[s] \in {registry[s], None}
  BY <1>1
<1>10. Linked' /\ McpServed'
  BY <1>5, <1>6, <1>7, <1>8, <1>9, Kept
<1> QED BY <1>7, <1>10

-----------------------------------------------------------------------------
(* An answer.                                                              *)

LEMMA AnsweredClient ==
    ASSUME McpBounds, McpTypeOK, NEW c \in DOMAIN client, NEW i \in DOMAIN client[c].wire
    PROVE  /\ client[c].wire[i] \in Request
           /\ [client[c] EXCEPT !.wire = RemoveAt(client[c].wire, i)] \in Client
           /\ [client[c] EXCEPT !.wire = RemoveAt(client[c].wire, i)].server = client[c].server
           /\ [client[c] EXCEPT !.wire = RemoveAt(client[c].wire, i)].open = client[c].open
<1> DEFINE w == client[c].wire
<1>1. client[c] \in Client
  BY ClientOf
<1>2. w \in Seq(Request) /\ i \in 1 .. Len(w) /\ Len(w) \in Nat
  BY <1>1 DEF Client
<1> HIDE DEF w
<1>3. \A j \in 1 .. Len(w) : w[j] \in Request
  BY <1>2, ElementOfSeq
<1>4. SubSeq(w, 1, i - 1) \in Seq(Request)
  BY <1>2, <1>3, SubSeqProperties
<1>5. SubSeq(w, i + 1, Len(w)) \in Seq(Request)
  BY <1>2, <1>3, SubSeqProperties
<1>6. RemoveAt(w, i) \in Seq(Request)
  BY <1>4, <1>5, ConcatProperties DEF RemoveAt
<1>7. w[i] \in Request
  BY <1>2, <1>3
<1> QED BY <1>1, <1>6, <1>7 DEF w, Client

\* The server goes on with the handshake: it is sent the next two lines.
LEMMA InitializedKeeps ==
    ASSUME McpBounds, McpInv, NEW r \in Runs, NEW c \in DOMAIN client, NEW cl \in Client,
           WaitsOn(r, c), mrun[r].stage = "initialize",
           cl.server = client[c].server, cl.open = client[c].open,
           mrun' = [mrun EXCEPT ![r] = [mrun[r] EXCEPT !.stage = "list", !.n = mrun[r].n + 1]],
           client' = [client EXCEPT ![c] = cl],
           UNCHANGED <<config, enabled, registry, disposed, edits>>
    PROVE  McpInv'
<1> USE DEF McpInv
<1> DEFINE m == [mrun[r] EXCEPT !.stage = "list", !.n = mrun[r].n + 1]
<1>1. mrun[r] \in MRun /\ mrun[r].n + 1 \in Nat
  BY DEF McpTypeOK, MRun
<1>2. m \in MRun /\ m.stage = "list" /\ m.client = c /\ m.server = mrun[r].server
  BY <1>1 DEF MRun, Stages, Waiting, WaitsOn
<1> HIDE DEF m
<1>3. mrun' = [mrun EXCEPT ![r] = m]
  BY DEF m
<1>4. /\ client' \in Seq(Client) /\ Len(client') = Len(client) /\ DOMAIN client' = DOMAIN client
      /\ client'[c] = cl
      /\ \A d \in DOMAIN client : client'[d].server = client[d].server
                                  /\ (d # c => client'[d] = client[d])
  BY OneClientKeeps
<1>5. mrun' \in [Runs -> MRun] /\ \A q \in Runs : mrun'[q] = IF q = r THEN m ELSE mrun[q]
  BY <1>2, <1>3 DEF McpTypeOK
<1>6. McpTypeOK'
  BY <1>4, <1>5 DEF McpTypeOK
<1>7. /\ Handshakes(r, c) /\ client[c].open
      /\ client[c].server = mrun[r].server /\ \A q \in Runs : WaitsOn(q, c) => q = r
  BY DEF Handshakes, WaitsOn, Linked, McpServed
<1>8. \A s \in Servers : registry[s] # c
  BY ClientOf DEF McpBounds, McpServed
<1>9. \A q \in Runs \ {r} : mrun'[q].stage \in Waiting => mrun'[q].client # c
  BY <1>5, <1>7 DEF WaitsOn
<1>10. Joins(r)'
  <2>1. mrun'[r].client = c /\ mrun'[r].stage = "list" /\ mrun'[r].server = client[c].server
    BY <1>2, <1>5, <1>7
  <2>2. c \in DOMAIN client' /\ client'[c].open /\ client'[c].server = client[c].server
    BY <1>4, <1>7
  <2>3. \A s \in Servers : registry'[s] # c
    BY <1>8
  <2>4. \A p \in Runs \ {r} : ~WaitsOn(p, c)' /\ ~Handshakes(p, c)'
    BY <1>9 DEF Handshakes, WaitsOn, Waiting
  <2> QED BY <2>1, <2>2, <2>3, <2>4 DEF Joins
<1>11. \A q \in Runs : mrun'[q] = mrun[q] \/ mrun'[q].stage \notin Waiting \/ Joins(q)'
  BY <1>5, <1>10
<1>12. \A d \in DOMAIN client : client'[d].open = client[d].open
  BY <1>4
<1>13. Linked' /\ McpServed'
  BY <1>4, <1>6, <1>11, <1>12, Kept
<1> QED BY <1>6, <1>13

\* A handshake ends well: the server is registered with its client, over
\* another client that a second run registered meanwhile.
LEMMA RegisteredKeeps ==
    ASSUME McpBounds, McpInv, NEW r \in Runs, NEW c \in DOMAIN client, NEW cl \in Client,
           WaitsOn(r, c), mrun[r].stage = "list",
           cl.server = client[c].server, cl.open = client[c].open,
           mrun' = [mrun EXCEPT ![r] = Onward(mrun[r])],
           registry' = [registry EXCEPT ![mrun[r].server] = c],
           client' = [client EXCEPT ![c] = cl],
           UNCHANGED <<config, enabled, disposed, edits>>
    PROVE  McpInv'
<1> USE DEF McpInv
<1>1. mrun[r] \in MRun /\ mrun[r].server \in Servers
  BY DEF McpTypeOK, MRun
<1>2. Onward(mrun[r]) \in MRun /\ Onward(mrun[r]).stage \in {"ready", "secrets"}
  BY <1>1, OnwardCalm
<1>3. /\ client' \in Seq(Client) /\ Len(client') = Len(client) /\ DOMAIN client' = DOMAIN client
      /\ client'[c] = cl
      /\ \A d \in DOMAIN client : client'[d].server = client[d].server
                                  /\ (d # c => client'[d] = client[d])
  BY OneClientKeeps
<1>4. /\ mrun' \in [Runs -> MRun]
      /\ \A q \in Runs : mrun'[q] = IF q = r THEN Onward(mrun[r]) ELSE mrun[q]
  BY <1>2 DEF McpTypeOK
<1>5. c \in Clients
  BY ClientOf
<1>6. /\ registry' \in [Servers -> Clients \cup {None}]
      /\ \A s \in Servers : registry'[s] = IF s = mrun[r].server THEN c ELSE registry[s]
  BY <1>1, <1>5 DEF McpTypeOK
<1>7. McpTypeOK'
  BY <1>3, <1>4, <1>6 DEF McpTypeOK
<1>8. /\ Handshakes(r, c) /\ client[c].open
      /\ client[c].server = mrun[r].server /\ \A q \in Runs : WaitsOn(q, c) => q = r
  BY DEF Handshakes, WaitsOn, Linked, McpServed
<1>9. \A q \in Runs : mrun'[q].stage \in Waiting => mrun'[q].client # c
  BY <1>2, <1>4, <1>8 DEF WaitsOn, Waiting
<1>10. ASSUME NEW s \in Servers, s = mrun[r].server
       PROVE  Enters(s)'
  <2>1. registry'[s] = c
    BY <1>6, <1>10
  <2>2. client'[c].open /\ client'[c].server = s /\ c \in DOMAIN client'
    BY <1>3, <1>8, <1>10
  <2> QED BY <1>9, <2>1, <2>2 DEF Enters, WaitsOn, Waiting
<1>11. \A s \in Servers : registry'[s] \in {registry[s], None} \/ Enters(s)'
  BY <1>6, <1>10
<1>12. \A q \in Runs : mrun'[q] = mrun[q] \/ mrun'[q].stage \notin Waiting
  BY <1>2, <1>4 DEF Waiting
<1>13. \A d \in DOMAIN client : client'[d].open = client[d].open
  BY <1>3
<1>14. Linked' /\ McpServed'
  BY <1>3, <1>7, <1>11, <1>12, <1>13, Kept
<1> QED BY <1>7, <1>14

\* Any other answer ends the wait.  A failed handshake closes its client,
\* which nobody else waits on.
LEMMA RejectedKeeps ==
    ASSUME McpBounds, McpInv, NEW r \in Runs, NEW c \in DOMAIN client, NEW cl \in Client,
           WaitsOn(r, c), cl.server = client[c].server,
           mrun[r].stage = "call" => cl.open = client[c].open,
           mrun' = [mrun EXCEPT ![r] = Rejected(mrun[r])],
           client' = [client EXCEPT ![c] = cl],
           UNCHANGED <<config, enabled, registry, disposed, edits>>
    PROVE  McpInv'
<1> USE DEF McpInv
<1>1. Rejected(mrun[r]) \in MRun /\ Rejected(mrun[r]).stage \in {"ready", "secrets"}
  BY OnwardCalm DEF McpTypeOK
<1>2. /\ client' \in Seq(Client) /\ Len(client') = Len(client) /\ DOMAIN client' = DOMAIN client
      /\ client'[c] = cl
      /\ \A d \in DOMAIN client : client'[d].server = client[d].server
                                  /\ (d # c => client'[d] = client[d])
  BY OneClientKeeps
<1>3. /\ mrun' \in [Runs -> MRun]
      /\ \A q \in Runs : mrun'[q] = IF q = r THEN Rejected(mrun[r]) ELSE mrun[q]
  BY <1>1 DEF McpTypeOK
<1>4. McpTypeOK'
  BY <1>2, <1>3 DEF McpTypeOK
<1>5. ASSUME mrun[r].stage # "call"
      PROVE  (\A q \in Runs : ~WaitsOn(q, c)') /\ \A s \in Servers : registry'[s] # c
  <2>1. Handshakes(r, c)
    BY <1>5 DEF Handshakes, WaitsOn, Waiting
  <2>2. \A q \in Runs : WaitsOn(q, c) => q = r
    BY <2>1 DEF Linked
  <2>3. \A s \in Servers : registry[s] # c
    BY <1>5, ClientOf DEF McpBounds, McpServed
  <2>4. \A q \in Runs : ~WaitsOn(q, c)'
    BY <1>1, <1>3, <2>2 DEF WaitsOn, Waiting
  <2> QED BY <2>3, <2>4
<1>6. ASSUME NEW d \in DOMAIN client
      PROVE  \/ client'[d].open = client[d].open
             \/ /\ \A q \in Runs : ~WaitsOn(q, d)'
                /\ \A s \in Servers : registry'[s] # d
  BY <1>2, <1>5
<1>7. \A q \in Runs : mrun'[q] = mrun[q] \/ mrun'[q].stage \notin Waiting
  BY <1>1, <1>3 DEF Waiting
<1>8. Linked' /\ McpServed'
  BY <1>2, <1>4, <1>6, <1>7, Kept
<1> QED BY <1>4, <1>8

\* An answer to a closed client, or to a request nobody waits for.
LEMMA IgnoredKeeps ==
    ASSUME McpBounds, McpInv, NEW c \in DOMAIN client, NEW cl \in Client,
           cl.server = client[c].server, cl.open = client[c].open,
           client' = [client EXCEPT ![c] = cl],
           UNCHANGED <<config, enabled, registry, mrun, disposed, edits>>
    PROVE  McpInv'
<1> USE DEF McpInv
<1>1. /\ client' \in Seq(Client) /\ Len(client') = Len(client) /\ DOMAIN client' = DOMAIN client
      /\ client'[c] = cl
      /\ \A d \in DOMAIN client : client'[d].server = client[d].server
                                  /\ (d # c => client'[d] = client[d])
  BY OneClientKeeps
<1>2. McpTypeOK'
  BY <1>1 DEF McpTypeOK
<1>3. Linked' /\ McpServed'
  BY <1>1, <1>2, Kept
<1> QED BY <1>2, <1>3

LEMMA AnswerKeeps ==
    ASSUME McpBounds, McpInv, NEW c \in DOMAIN client, NEW i \in DOMAIN client[c].wire,
           NEW ok \in BOOLEAN, Answer(c, i, ok)
    PROVE  McpInv'
<1> DEFINE q  == client[c].wire[i]
           cl == [client[c] EXCEPT !.wire = RemoveAt(client[c].wire, i)]
<1>1. /\ IF client[c].open /\ WaitsOn(q.by, c) /\ mrun[q.by].n = q.n
         THEN Settled(q.by, c, ok) /\ client' = [client EXCEPT ![c] = AfterAnswer(q.by, c, ok, cl)]
         ELSE client' = [client EXCEPT ![c] = cl] /\ UNCHANGED <<mrun, registry>>
      /\ UNCHANGED <<config, enabled, disposed, edits>>
  BY DEF Answer
<1>2. q \in Request /\ cl \in Client /\ cl.server = client[c].server /\ cl.open = client[c].open
  BY AnsweredClient DEF McpInv
<1> HIDE DEF q, cl
<1>3. CASE ~(client[c].open /\ WaitsOn(q.by, c) /\ mrun[q.by].n = q.n)
  BY <1>1, <1>2, <1>3, IgnoredKeeps
<1>4. CASE client[c].open /\ WaitsOn(q.by, c) /\ mrun[q.by].n = q.n
  <2> DEFINE r == q.by
  <2>1. r \in Runs /\ WaitsOn(r, c) /\ Settled(r, c, ok)
        /\ client' = [client EXCEPT ![c] = AfterAnswer(r, c, ok, cl)]
    BY <1>1, <1>2, <1>4 DEF Request
  <2> HIDE DEF r
  <2>2. mrun[r].n + 1 \in Nat
    BY <2>1 DEF McpInv, McpTypeOK, MRun
  <2>3. CASE mrun[r].stage = "initialize" /\ ok
    <3> DEFINE sent == <<[by |-> r, n |-> 0], [by |-> r, n |-> mrun[r].n + 1]>>
    <3>1. sent \in Seq(Request)
      BY <2>1, <2>2 DEF Request
    <3>2. SentTo(cl, sent) \in Client /\ SentTo(cl, sent).server = client[c].server
          /\ SentTo(cl, sent).open = client[c].open
      BY <1>2, <3>1, ClientKinds
    <3>3. client' = [client EXCEPT ![c] = SentTo(cl, sent)]
      BY <2>1, <2>3 DEF AfterAnswer
    <3>4. mrun' = [mrun EXCEPT ![r] = [mrun[r] EXCEPT !.stage = "list", !.n = mrun[r].n + 1]]
          /\ registry' = registry
      BY <2>1, <2>3 DEF Settled
    <3> HIDE DEF sent
    <3> QED BY <1>1, <2>1, <2>3, <3>2, <3>3, <3>4, InitializedKeeps
  <2>4. CASE mrun[r].stage = "list" /\ ok
    <3>1. client' = [client EXCEPT ![c] = cl]
      BY <2>1, <2>4 DEF AfterAnswer
    <3>2. mrun' = [mrun EXCEPT ![r] = Onward(mrun[r])]
          /\ registry' = [registry EXCEPT ![mrun[r].server] = c]
      BY <2>1, <2>4 DEF Settled
    <3> QED BY <1>1, <1>2, <2>1, <2>4, <3>1, <3>2, RegisteredKeeps
  <2>5. CASE ~(mrun[r].stage \in {"initialize", "list"} /\ ok)
    <3>1. mrun' = [mrun EXCEPT ![r] = Rejected(mrun[r])] /\ registry' = registry
      BY <2>1, <2>5 DEF Settled
    <3>2. CASE mrun[r].stage \in {"initialize", "list"}
      <4>1. client' = [client EXCEPT ![c] = Closed(cl)]
        BY <2>1, <2>5, <3>2 DEF AfterAnswer
      <4>2. Closed(cl) \in Client /\ Closed(cl).server = client[c].server
        BY <1>2, ClientKinds
      <4> QED BY <1>1, <2>1, <3>1, <3>2, <4>1, <4>2, RejectedKeeps
    <3>3. CASE mrun[r].stage \notin {"initialize", "list"}
      <4>1. client' = [client EXCEPT ![c] = cl]
        BY <2>1, <3>3 DEF AfterAnswer
      <4> QED BY <1>1, <1>2, <2>1, <3>1, <4>1, RejectedKeeps
    <3> QED BY <3>2, <3>3
  <2> QED BY <2>3, <2>4, <2>5
<1> QED BY <1>3, <1>4

-----------------------------------------------------------------------------
(* The specification.                                                      *)

\* McpInv holds of every reachable state: it is what McpServed needs to be
\* inductive, that a handshake is of one run and its client is connected.
THEOREM McpInvariance ==
    ASSUME McpBounds
    PROVE  McpSpec => []McpInv
<1>1. McpInit => McpInv
  <2> SUFFICES ASSUME McpInit PROVE McpInv
    OBVIOUS
  <2>1. (CHOOSE s \in Servers : TRUE) \in Servers /\ (CHOOSE k \in Keys : TRUE) \in Keys
    BY DEF McpBounds
  <2>2. Fresh \in MRun /\ Fresh.stage = "idle"
    BY <2>1 DEF Fresh, MRun, Stages, McpBounds
  <2>3. client = <<>> /\ client \in Seq(Client) /\ Len(client) <= MaxClients
    BY DEF McpInit, McpBounds
  <2>4. McpTypeOK
    <3>1. config \in [Servers -> Keys] /\ registry \in [Servers -> Clients \cup {None}]
      BY <2>1 DEF McpInit
    <3>2. mrun \in [Runs -> MRun] /\ edits \in 0 .. MaxEdits
      BY <2>2 DEF McpInit, McpBounds
    <3>3. enabled \in BOOLEAN /\ disposed \in BOOLEAN
      BY DEF McpInit
    <3> QED BY <2>3, <3>1, <3>2, <3>3 DEF McpTypeOK
  <2>5. Linked /\ McpServed
    BY <2>2 DEF McpInit, Linked, McpServed, Handshakes, WaitsOn, Waiting
  <2> QED BY <2>4, <2>5 DEF McpInv
<1>2. McpInv /\ [McpNext]_mcpVars => McpInv'
  <2> SUFFICES ASSUME McpInv, [McpNext]_mcpVars PROVE McpInv'
    OBVIOUS
  <2>1. CASE \E r \in Runs : ListTools(r) \/ Ensure(r) \/ Timeout(r) \/ RunEnds(r)
    <3> PICK r \in Runs : ListTools(r) \/ Ensure(r) \/ Timeout(r) \/ RunEnds(r)
      BY <2>1
    <3>1. CASE ListTools(r)
      BY <3>1, ListToolsKeeps
    <3>2. CASE Ensure(r)
      BY <3>2, ReuseKeeps, ConnectKeeps DEF Ensure
    <3>3. CASE Timeout(r)
      BY <3>3, TimeoutKeeps
    <3>4. CASE RunEnds(r)
      BY <3>4, RunEndsKeeps
    <3> QED BY <3>1, <3>2, <3>3, <3>4
  <2>2. CASE \E r \in Runs, s \in Servers, broken \in BOOLEAN : Call(r, s, broken)
    BY <2>2, CallKeeps
  <2>3. CASE \E c \in DOMAIN client : \E i \in DOMAIN client[c].wire, ok \in BOOLEAN :
               Answer(c, i, ok)
    BY <2>3, AnswerKeeps
  <2>4. CASE \E c \in DOMAIN client : \E error \in BOOLEAN : ProcessEnds(c, error)
    BY <2>4, ProcessEndsKeeps
  <2>5. CASE Switch \/ \E s \in Servers, k \in Keys : Edit(s, k)
    BY <2>5, EditKeeps
  <2>6. CASE Dispose
    BY <2>6, DisposeKeeps
  <2>7. CASE UNCHANGED mcpVars
    BY <2>7 DEF mcpVars, McpInv, McpTypeOK, Linked, McpServed, Handshakes, WaitsOn
  <2> QED BY <2>1, <2>2, <2>3, <2>4, <2>5, <2>6, <2>7 DEF McpNext
<1> QED BY <1>1, <1>2, PTL DEF McpSpec

\* The MCP runtime keeps its types: a registered client was connected, every
\* line on the wire is of a run.
THEOREM McpTypes ==
    ASSUME McpBounds
    PROVE  McpSpec => []McpTypeOK
<1>1. McpInv => McpTypeOK
  BY DEF McpInv
<1> QED BY <1>1, McpInvariance, PTL

\* However listings, calls, edits, exits and an unload interleave, a registered
\* server is one whose handshake ended and whose client is open, and no request
\* waits on a closed client.
THEOREM ServersServe ==
    ASSUME McpBounds
    PROVE  McpSpec => []McpServed
<1>1. McpInv => McpServed
  BY DEF McpInv
<1> QED BY <1>1, McpInvariance, PTL

-----------------------------------------------------------------------------
(* MoaEngine, for any reference models and any cadences.                    *)

Advising == [key : {<<t>> : t \in Nat} \cup Nat \X Nat, advice : Moa!Advice]

\* What the preset, and the model's bounds, give the constants.
MoaBounds ==
    /\ Fanouts \subseteq Nat /\ Attempts \in Nat \ {0}
    /\ MaxTurns \in Nat \ {0} /\ MaxSteps \in Nat \ {0} /\ None \notin Advising

EveryN == fanout \notin {Moa!UserTurn, Moa!PerIteration}

\* What the code keeps has a key of its own advice, and the counter of every_n
\* counts the iterations of the turn: it stands at this one, or at the one
\* before when this one is yet to be prepared.
Keyed ==
    /\ cache # None => cache \in Advising /\ cache.key = Moa!Key(cache.advice.turn, cache.advice.step)
    /\ cadence \in [turn : Nat, step : Nat, count : Nat] /\ asked \in Nat
    /\ phase = "fanout" => refs \in [Refs -> Moa!RefState]
    /\ phase = "fanout" /\ ~moaAborted => \A r \in Refs : refs[r].state # "skipped"
    /\ cache # None => \A r \in Refs : cache.advice.out[r] # "skipped"

OnTime(s) == (s - 1) % fanout = 0

Advised ==
    /\ EveryN /\ phase = "prepare" =>
         IF step = 1 THEN cadence.turn < turn
         ELSE /\ cadence = [turn |-> turn, step |-> step - 1, count |-> step - 1]
              /\ cache # None /\ cache.advice.turn = turn
              /\ OnTime(cache.advice.step) /\ step - 1 - cache.advice.step \in 0 .. fanout - 1
    /\ EveryN /\ phase \in {"fanout", "acting"} =>
         cadence = [turn |-> turn, step |-> step, count |-> step]
    /\ EveryN /\ phase = "fanout" => OnTime(step)
    /\ EveryN /\ phase = "acting" =>
         IF cache = None THEN moaAborted
         ELSE /\ cache.advice.turn = turn
              /\ OnTime(cache.advice.step) /\ step - cache.advice.step \in 0 .. fanout - 1

AskedOnce ==
    fanout = Moa!UserTurn /\ ~moaAborted =>
        \/ asked = 0
        \/ asked = 1 /\ (phase = "fanout" \/ (cache # None /\ cache.key = <<turn>>))

MoaInv == Moa!MoaTypeOK /\ Keyed /\ Advised /\ AskedOnce /\ Moa!AdviceCurrent
-----------------------------------------------------------------------------
LEMMA Multiple == ASSUME NEW n \in Nat, n > 1, NEW p \in Int PROVE (n * p) % n = 0
  OBVIOUS

\* A slot of the cadence comes N iterations after the last.
LEMMA NextSlot ==
    ASSUME NEW n \in Nat, n > 1, NEW k \in Nat, k % n = 0
    PROVE  (k + n) % n = 0
<1> DEFINE q == k \div n
<1>1. q \in Int /\ k = n * q
  OBVIOUS
<1> HIDE DEF q
<1>2. k + n = n * (q + 1) /\ q + 1 \in Int
  BY <1>1
<1> DEFINE p == q + 1
<1> HIDE DEF p
<1>3. p \in Int /\ k + n = n * p
  BY <1>2 DEF p
<1>4. (n * p) % n = 0
  BY <1>3, Multiple
<1> QED BY <1>3, <1>4

LEMMA FirstSlot == ASSUME NEW n \in Nat, n > 1 PROVE 0 % n = 0
  OBVIOUS

LEMMA MoaStarts == ASSUME MoaBounds, Moa!MoaInit PROVE MoaInv
<1> USE DEF Moa!MoaInit, MoaBounds
<1>1. Moa!MoaTypeOK
  <2>1. turn \in 1 .. MaxTurns /\ step \in 1 .. MaxSteps
    OBVIOUS
  <2> QED BY <2>1 DEF Moa!MoaTypeOK
<1>2. Keyed /\ Advised /\ AskedOnce /\ Moa!AdviceCurrent
  BY DEF Keyed, Advised, AskedOnce, Moa!AdviceCurrent
<1> QED BY <1>1, <1>2 DEF MoaInv

-----------------------------------------------------------------------------
\* The advice a request is guided by is the advice kept or gathered.
LEMMA GuidedBy ==
    ASSUME NEW a
    PROVE  Moa!Guided(a) # None => Moa!Guided(a).turn = a.turn /\ Moa!Guided(a).step = a.step
  BY DEF Moa!Guided

\* prepareIteration counts the iteration, reuses what is still current or asks.
LEMMA PrepareStep == ASSUME MoaBounds, MoaInv, Moa!Prepare PROVE MoaInv'
<1> DEFINE c == IF fanout = Moa!PerIteration THEN cadence ELSE Moa!Counted(cadence)
<1>0. phase = "prepare" /\ cadence' = c
  BY DEF Moa!Prepare
<1>u. UNCHANGED <<fanout, degraded, turn, step, cache, moaAborted>>
  BY DEF Moa!Prepare
<1>t. /\ turn \in Nat /\ step \in Nat /\ step > 0 /\ turn > 0 /\ fanout \in Nat
      /\ cadence \in [turn : Nat, step : Nat, count : Nat] /\ asked \in Nat
  BY DEF MoaInv, Moa!MoaTypeOK, Keyed, MoaBounds
<1>1. EveryN => c = [turn |-> turn, step |-> step, count |-> step]
  <2> SUFFICES ASSUME EveryN PROVE Moa!Counted(cadence) = [turn |-> turn, step |-> step, count |-> step]
    BY DEF EveryN
  <2>1. CASE step = 1
    BY <2>1, <1>t, <1>0 DEF MoaInv, Advised, Moa!Counted
  <2>2. CASE step # 1
    BY <2>2, <1>t, <1>0 DEF MoaInv, Advised, Moa!Counted
  <2> QED BY <2>1, <2>2
<1>2. c \in [turn : Nat, step : Nat, count : Nat]
  BY <1>t DEF Moa!Counted
<1> HIDE DEF c
<1>3. EveryN => (Moa!OnCadence(c) <=> OnTime(step))
  BY <1>1, <1>t DEF Moa!OnCadence, OnTime, EveryN
<1>k. cache # None => /\ cache \in Advising /\ cache.advice \in Moa!Advice
                      /\ cache.key = Moa!Key(cache.advice.turn, cache.advice.step)
                      /\ cache.advice.turn \in Nat /\ cache.advice.step \in Nat /\ cache.advice.step > 0
  BY DEF MoaInv, Keyed, Advising, Moa!Advice, MoaBounds
<1>4. CASE Moa!Hit(c)
  <2>1. phase' = "acting" /\ guidance' = Moa!Guided(cache.advice) /\ UNCHANGED <<refs, asked>>
    BY <1>4 DEF Moa!Prepare, c
  <2>2. cache # None
    BY <1>4 DEF Moa!Hit
  <2>3. ASSUME EveryN
        PROVE  /\ cache.advice.turn = turn /\ OnTime(cache.advice.step)
               /\ step - cache.advice.step \in 0 .. fanout - 1
    <3>n. fanout \in Nat /\ fanout > 1
      BY <2>3, <1>t DEF EveryN, Moa!UserTurn, Moa!PerIteration
    <3>1. CASE step = 1
      <4>1. OnTime(step)
        BY <3>1, <3>n, FirstSlot DEF OnTime
      <4>2. cache.key = Moa!Key(turn, step)
        BY <4>1, <1>3, <1>4, <2>3 DEF Moa!Hit
      <4>3. cache.advice.turn = turn /\ cache.advice.step = step
        BY <4>2, <1>k, <2>2, <2>3 DEF Moa!Key, EveryN
      <4> QED BY <4>1, <4>3, <1>t, <3>n
    <3>2. CASE step # 1
      <4>1. /\ cache.advice.turn = turn /\ OnTime(cache.advice.step)
            /\ step - 1 - cache.advice.step \in 0 .. fanout - 1
        BY <3>2, <2>3, <1>0 DEF MoaInv, Advised
      <4>2. CASE step - cache.advice.step = fanout
        <5> DEFINE k == cache.advice.step - 1
        <5>a. k \in Nat /\ step - 1 = k + fanout
          BY <4>2, <1>k, <1>t, <2>2, <3>n
        <5>b. k % fanout = 0
          BY <4>1 DEF OnTime
        <5> HIDE DEF k
        <5>1. k \in Nat /\ k % fanout = 0 /\ step - 1 = k + fanout
          BY <5>a, <5>b
        <5>2. OnTime(step)
          BY <5>1, <3>n, NextSlot DEF OnTime
        <5>3. cache.key = Moa!Key(turn, step)
          BY <5>2, <1>3, <1>4, <2>3 DEF Moa!Hit
        <5>4. cache.advice.step = step
          BY <5>3, <1>k, <2>2, <2>3 DEF Moa!Key, EveryN
        <5> QED BY <5>4, <4>2, <3>n, <1>t
      <4>3. CASE step - cache.advice.step # fanout
        BY <4>1, <4>3, <1>k, <1>t, <2>2, <3>n
      <4> QED BY <4>2, <4>3
    <3> QED BY <3>1, <3>2
  <2>4. ASSUME ~EveryN
        PROVE  cache.advice.turn = turn /\ (fanout = Moa!PerIteration => cache.advice.step = step)
    BY <2>4, <1>4, <1>k, <2>2 DEF EveryN, Moa!Hit, Moa!OnCadence, Moa!Key, Moa!UserTurn, Moa!PerIteration
  <2>5. Moa!MoaTypeOK'
    BY <1>u, <2>1 DEF MoaInv, Moa!MoaTypeOK
  <2>6. Keyed'
    BY <1>0, <1>2, <1>u, <2>1 DEF MoaInv, Keyed, Moa!Key
  <2>7. Advised'
    BY <1>0, <1>1, <1>u, <2>1, <2>2, <2>3 DEF Advised, EveryN, OnTime
  <2>8. AskedOnce'
    BY <1>0, <1>u, <2>1 DEF MoaInv, AskedOnce
  <2>9. Moa!AdviceCurrent'
    BY <1>u, <1>t, <1>k, <2>1, <2>2, <2>3, <2>4, GuidedBy
       DEF Moa!AdviceCurrent, EveryN, Moa!UserTurn, Moa!PerIteration
  <2> QED BY <2>5, <2>6, <2>7, <2>8, <2>9 DEF MoaInv
<1>5. CASE ~Moa!Hit(c)
  <2>1. /\ phase' = "fanout" /\ asked' = asked + 1 /\ guidance' = guidance
        /\ refs' = [r \in Refs |-> [state |-> "queued", attempt |-> 0]]
    BY <1>5 DEF Moa!Prepare, c
  <2>2. refs' \in [Refs -> Moa!RefState]
    BY <2>1 DEF Moa!RefState, MoaBounds
  <2>3. Moa!MoaTypeOK'
    BY <1>u, <2>1, <2>2 DEF MoaInv, Moa!MoaTypeOK
  <2>4. Keyed'
    BY <1>0, <1>2, <1>u, <1>t, <2>1, <2>2 DEF MoaInv, Keyed, Moa!Key
  <2>5. EveryN => OnTime(step)
    <3> SUFFICES ASSUME EveryN PROVE OnTime(step)
      OBVIOUS
    <3>n. fanout \in Nat /\ fanout > 1
      BY <1>t DEF EveryN, Moa!UserTurn, Moa!PerIteration
    <3>1. CASE step = 1
      BY <3>1, <3>n, FirstSlot DEF OnTime
    <3>2. CASE step # 1
      BY <3>2, <1>0, <1>3, <1>5 DEF MoaInv, Advised, Moa!Hit
    <3> QED BY <3>1, <3>2
  <2>6. Advised'
    BY <1>0, <1>1, <1>u, <2>1, <2>5 DEF Advised, EveryN, OnTime
  <2>7. AskedOnce'
    <3> SUFFICES ASSUME fanout = Moa!UserTurn, ~moaAborted PROVE asked = 0
      BY <1>u, <1>t, <2>1 DEF AskedOnce
    <3>1. asked # 0 => cache # None /\ cache.key = <<turn>>
      BY <1>0 DEF MoaInv, AskedOnce
    <3>2. ~(cache # None /\ cache.key = <<turn>>)
      BY <1>5 DEF Moa!Hit, Moa!Key
    <3> QED BY <3>1, <3>2
  <2>8. Moa!AdviceCurrent'
    BY <2>1 DEF Moa!AdviceCurrent
  <2> QED BY <2>3, <2>4, <2>6, <2>7, <2>8 DEF MoaInv
<1> QED BY <1>4, <1>5

LEMMA FanOutWorks ==
    ASSUME MoaBounds, MoaInv, phase = "fanout",
           NEW r \in Refs, NEW s \in {"queued", "calling"} \cup Moa!Outcomes, NEW n \in 0 .. Attempts,
           Moa!Ref(r, s, n), Moa!MoaRest, s = "skipped" => moaAborted
    PROVE  MoaInv'
<1>1. UNCHANGED <<fanout, degraded, turn, step, cadence, cache, phase, guidance, moaAborted, asked>>
  BY DEF Moa!MoaRest
<1>2. refs \in [Refs -> Moa!RefState]
  BY DEF MoaInv, Keyed
<1>3. refs' = [refs EXCEPT ![r] = [state |-> s, attempt |-> n]]
  BY DEF Moa!Ref
<1>4. refs' \in [Refs -> Moa!RefState]
  BY <1>2, <1>3 DEF Moa!RefState
<1>5. ~moaAborted => \A q \in Refs : refs'[q].state # "skipped"
  BY <1>2, <1>3 DEF MoaInv, Keyed
<1>6. Moa!MoaTypeOK'
  BY <1>1, <1>4 DEF MoaInv, Moa!MoaTypeOK
<1>7. Keyed'
  BY <1>1, <1>4, <1>5 DEF MoaInv, Keyed, Moa!Key
<1>8. Advised' /\ AskedOnce' /\ Moa!AdviceCurrent'
  BY <1>1 DEF MoaInv, Advised, AskedOnce, Moa!AdviceCurrent, EveryN, OnTime
<1> QED BY <1>6, <1>7, <1>8 DEF MoaInv

\* All advisors are done: the advice of this iteration, kept when it is whole.
LEMMA FannedOutStep == ASSUME MoaBounds, MoaInv, Moa!FannedOut PROVE MoaInv'
<1> DEFINE out == [r \in Refs |-> refs[r].state]
           a == [turn |-> turn, step |-> step, out |-> out]
<1>0. phase = "fanout" /\ \A r \in Refs : refs[r].state \in Moa!Outcomes
  BY DEF Moa!FannedOut
<1>1. /\ cache' = IF \E r \in Refs : refs[r].state = "skipped" THEN None
                  ELSE [key |-> Moa!Key(turn, step), advice |-> a]
      /\ phase' = "acting" /\ guidance' = Moa!Guided(a) /\ refs' = None
      /\ UNCHANGED <<fanout, degraded, turn, step, cadence, moaAborted, asked>>
  BY DEF Moa!FannedOut
<1>t. turn \in Nat /\ step \in Nat /\ step > 0 /\ fanout \in Nat /\ asked \in Nat
  BY DEF MoaInv, Moa!MoaTypeOK, Keyed, MoaBounds
<1>2. out \in [Refs -> Moa!Outcomes]
  BY <1>0
<1>3. a \in Moa!Advice /\ a.turn = turn /\ a.step = step /\ a.out = out
  BY <1>2 DEF Moa!Advice, MoaInv, Moa!MoaTypeOK
<1>4. [key |-> Moa!Key(turn, step), advice |-> a] \in Advising
  BY <1>3, <1>t DEF Advising, Moa!Key
<1>5. \A r \in Refs : out[r] = refs[r].state
  OBVIOUS
<1> HIDE DEF a, out
<1>6. cache' # None =>
         /\ cache' \in Advising /\ cache'.key = Moa!Key(turn, step) /\ cache'.advice = a
         /\ \A r \in Refs : refs[r].state # "skipped"
  BY <1>1, <1>4
<1>7. cache' = None => moaAborted
  BY <1>0, <1>1, <1>4 DEF MoaBounds, MoaInv, Keyed
<1>8. Moa!MoaTypeOK'
  BY <1>1, <1>3, <1>6 DEF MoaInv, Moa!MoaTypeOK
<1>9. Keyed'
  <2>1. cadence' \in [turn : Nat, step : Nat, count : Nat] /\ asked' \in Nat /\ phase' # "fanout"
    BY <1>1 DEF MoaInv, Keyed
  <2>2. (cache # None => cache.key = Moa!Key(cache.advice.turn, cache.advice.step))'
    BY <1>1, <1>3, <1>6 DEF Moa!Key
  <2>3. cache' # None => \A r \in Refs : cache'.advice.out[r] # "skipped"
    BY <1>3, <1>5, <1>6
  <2>4. cache' # None => cache' \in Advising
    BY <1>6
  <2> QED BY <2>1, <2>2, <2>3, <2>4 DEF Keyed
<1>10. Advised'
  <2> SUFFICES ASSUME EveryN
               PROVE  /\ cadence = [turn |-> turn, step |-> step, count |-> step]
                      /\ cache' # None => /\ cache'.advice.turn = turn /\ OnTime(cache'.advice.step)
                                         /\ step - cache'.advice.step \in 0 .. fanout - 1
    BY <1>1, <1>7 DEF Advised, EveryN, OnTime
  <2>1. cadence = [turn |-> turn, step |-> step, count |-> step] /\ OnTime(step)
    BY <1>0 DEF MoaInv, Advised
  <2>2. fanout > 1
    BY <1>t DEF EveryN, Moa!UserTurn, Moa!PerIteration
  <2>3. step - step \in 0 .. fanout - 1
    BY <2>2, <1>t
  <2> QED BY <2>1, <2>3, <1>3, <1>6
<1>11. AskedOnce'
  BY <1>0, <1>1, <1>6, <1>7 DEF MoaInv, AskedOnce, Moa!Key
<1>12. Moa!AdviceCurrent'
  <2>1. guidance' # None => guidance'.turn = turn /\ guidance'.step = step
    BY <1>1, <1>3, GuidedBy
  <2> QED BY <2>1, <1>1, <1>t DEF Moa!AdviceCurrent, Moa!UserTurn, Moa!PerIteration
<1> QED BY <1>8, <1>9, <1>10, <1>11, <1>12 DEF MoaInv

\* The aggregator acts, and the run goes on with tools or a new message, or ends.
LEMMA ActStep == ASSUME MoaBounds, MoaInv, NEW n \in {"tools", "user", "end"}, Moa!Act(n) PROVE MoaInv'
<1>0. phase = "acting" /\ guidance' = None
  BY DEF Moa!Act
<1>1. UNCHANGED <<fanout, degraded, cadence, cache, refs, moaAborted>>
  BY DEF Moa!Act
<1>t. /\ turn \in 1 .. MaxTurns /\ step \in 1 .. MaxSteps /\ MaxTurns \in Nat /\ MaxSteps \in Nat
      /\ fanout \in Nat /\ asked \in Nat
  BY DEF MoaInv, Moa!MoaTypeOK, Keyed, MoaBounds
<1>2. \/ phase' = "ended" /\ UNCHANGED <<turn, step, asked>>
      \/ ~moaAborted /\ step < MaxSteps /\ step' = step + 1 /\ phase' = "prepare" /\ UNCHANGED <<turn, asked>>
      \/ ~moaAborted /\ turn < MaxTurns /\ turn' = turn + 1 /\ step' = 1 /\ phase' = "prepare" /\ asked' = 0
  BY DEF Moa!Act
<1>3. turn' \in 1 .. MaxTurns /\ step' \in 1 .. MaxSteps /\ asked' \in Nat /\ phase' \in {"prepare", "ended"}
  BY <1>2, <1>t
<1>4. Moa!MoaTypeOK'
  BY <1>1, <1>3 DEF MoaInv, Moa!MoaTypeOK
<1>5. Keyed'
  BY <1>1, <1>3 DEF MoaInv, Keyed, Moa!Key
<1>6. Advised'
  <2> SUFFICES ASSUME EveryN, phase' = "prepare"
               PROVE  IF step' = 1 THEN cadence.turn < turn'
                      ELSE /\ cadence = [turn |-> turn', step |-> step' - 1, count |-> step' - 1]
                           /\ cache # None /\ cache.advice.turn = turn'
                           /\ OnTime(cache.advice.step) /\ step' - 1 - cache.advice.step \in 0 .. fanout - 1
    BY <1>1, <1>3 DEF Advised, EveryN, OnTime
  <2>1. cadence = [turn |-> turn, step |-> step, count |-> step]
    BY <1>0 DEF MoaInv, Advised
  <2>2. ~moaAborted => /\ cache # None /\ cache.advice.turn = turn
                       /\ OnTime(cache.advice.step) /\ step - cache.advice.step \in 0 .. fanout - 1
    BY <1>0 DEF MoaInv, Advised
  <2>3. CASE ~moaAborted /\ step' = step + 1 /\ turn' = turn
    <3>1. step' - 1 = step /\ step' # 1
      BY <2>3, <1>t
    <3> QED BY <2>1, <2>2, <2>3, <3>1
  <2>4. CASE turn' = turn + 1 /\ step' = 1
    BY <2>1, <2>4, <1>t
  <2> QED BY <1>2, <2>3, <2>4
<1>7. AskedOnce'
  BY <1>0, <1>1, <1>2 DEF MoaInv, AskedOnce
<1>8. Moa!AdviceCurrent'
  BY <1>0 DEF Moa!AdviceCurrent
<1> QED BY <1>4, <1>5, <1>6, <1>7, <1>8 DEF MoaInv

LEMMA MoaAbortStep == ASSUME MoaBounds, MoaInv, Moa!MoaAbort PROVE MoaInv'
<1>1. moaAborted' = TRUE
      /\ UNCHANGED <<fanout, degraded, turn, step, cadence, cache, refs, phase, guidance, asked>>
  BY DEF Moa!MoaAbort
<1>2. Moa!MoaTypeOK' /\ Moa!AdviceCurrent'
  BY <1>1 DEF MoaInv, Moa!MoaTypeOK, Moa!AdviceCurrent
<1>3. Keyed' /\ Advised' /\ AskedOnce'
  BY <1>1 DEF MoaInv, Keyed, Advised, AskedOnce, EveryN, OnTime, Moa!Key
<1> QED BY <1>2, <1>3 DEF MoaInv

LEMMA FanOutSteps == ASSUME MoaBounds, MoaInv, Moa!FanOutStep PROVE MoaInv'
<1>1. ASSUME NEW r \in Refs, Moa!Pump(r) PROVE MoaInv'
  <2>1. phase = "fanout" /\ Moa!MoaRest
    BY <1>1 DEF Moa!Pump
  <2>2. IF moaAborted THEN Moa!Ref(r, "skipped", 0) ELSE Moa!Ref(r, "calling", 1)
    BY <1>1 DEF Moa!Pump
  <2>3. 0 \in 0 .. Attempts /\ 1 \in 0 .. Attempts
    BY DEF MoaBounds
  <2> QED BY <2>1, <2>2, <2>3, FanOutWorks DEF Moa!Outcomes
<1>2. ASSUME NEW r \in Refs, Moa!Refused(r) \/ \E ok \in BOOLEAN : Moa!Advised(r, ok) PROVE MoaInv'
  <2> DEFINE n == refs[r].attempt
  <2>1. phase = "fanout" /\ Moa!MoaRest
    BY <1>2 DEF Moa!Refused, Moa!Advised
  <2>2. n \in 0 .. Attempts /\ Attempts \in Nat
    BY <2>1 DEF MoaInv, Keyed, Moa!RefState, MoaBounds
  <2> HIDE DEF n
  <2>3. \/ Moa!Ref(r, "ok", n) \/ Moa!Ref(r, "failed", n)
        \/ moaAborted /\ Moa!Ref(r, "skipped", n)
        \/ n < Attempts /\ Moa!Ref(r, "calling", n + 1)
    BY <1>2 DEF Moa!Refused, Moa!Advised, n
  <2>4. n < Attempts => n + 1 \in 0 .. Attempts
    BY <2>2
  <2> QED BY <2>1, <2>2, <2>3, <2>4, FanOutWorks DEF Moa!Outcomes
<1>3. CASE Moa!FannedOut
  BY <1>3, FannedOutStep
<1> QED BY <1>1, <1>2, <1>3 DEF Moa!FanOutStep

LEMMA MoaStutters == ASSUME MoaInv, UNCHANGED Moa!moaVars PROVE MoaInv'
<1>1. Moa!MoaTypeOK' /\ Moa!AdviceCurrent'
  BY DEF MoaInv, Moa!MoaTypeOK, Moa!AdviceCurrent, Moa!moaVars
<1>2. Keyed' /\ Advised' /\ AskedOnce'
  BY DEF MoaInv, Keyed, Advised, AskedOnce, EveryN, OnTime, Moa!Key, Moa!moaVars
<1> QED BY <1>1, <1>2 DEF MoaInv

\* What holds of every state of a mixture: the invariant behind the two promises, in
\* which the counter of every_n tells how old the kept advice is.
THEOREM MoaInvariance == ASSUME MoaBounds PROVE Moa!MoaSpec => []MoaInv
<1>1. ASSUME MoaInv, [Moa!MoaNext]_Moa!moaVars PROVE MoaInv'
  BY <1>1, PrepareStep, FanOutSteps, MoaAbortStep, ActStep, MoaStutters DEF Moa!MoaNext
<1> QED BY <1>1, MoaStarts, PTL DEF Moa!MoaSpec

\* The engine keeps its types for any reference models, cadences and bounds.
THEOREM MoaTypes == ASSUME MoaBounds PROVE Moa!MoaSpec => []Moa!MoaTypeOK
<1>1. MoaInv => Moa!MoaTypeOK
  BY DEF MoaInv
<1> QED BY <1>1, MoaInvariance, PTL

\* For any N the aggregator never acts on advice for an earlier message of the user, with
\* per_iteration never on advice for an earlier iteration, and with every_n on none that
\* is N or more iterations old (MoaTurnEngine.prepareIteration and cadenceStep).
THEOREM AdviceIsCurrent == ASSUME MoaBounds PROVE Moa!MoaSpec => []Moa!AdviceCurrent
<1>1. MoaInv => Moa!AdviceCurrent
  BY DEF MoaInv
<1> QED BY <1>1, MoaInvariance, PTL

\* What is kept for reuse has the answer or the failure of every advisor, and a turn under
\* user_turn asks them once, however many iterations and aborts there are.
THEOREM AdviceIsWhole == ASSUME MoaBounds PROVE Moa!MoaSpec => []Moa!AdviceWhole
<1>1. MoaInv => Moa!AdviceWhole
  BY DEF MoaInv, Keyed, AskedOnce, Moa!AdviceWhole
<1> QED BY <1>1, MoaInvariance, PTL

-----------------------------------------------------------------------------
(* Delegation, for any runs, folders and any pool with a lane.              *)

DelegBounds == Pool \in Nat \ {0} /\ MaxTasks \in Nat /\ MaxRebinds \in Nat

\* The instance counts as this module does.
LEMMA DelCard == ASSUME NEW S PROVE Del!Cardinality(S) = Cardinality(S)
  BY DEF Del!Cardinality, Cardinality

Over(b) == {i \in DOMAIN b : b[i] \in {"completed", "error"}}
Busy(b) == {i \in DOMAIN b : b[i] = "running"}

\* What the lanes promise of one batch b with the counters next and done: they are
\* at most Pool, they took the tasks before next, each task that ended is counted,
\* and while there is a task to take, a lane is there to take it.
Worked(b, next, done, joining) ==
    /\ Cardinality(Busy(b)) <= Pool
    /\ \A i \in DOMAIN b : b[i] = "queued" <=> i >= next
    /\ joining => done = Cardinality(Over(b))
    /\ next > 0
    /\ next \in DOMAIN b => Busy(b) # {}

BatchesWorked ==
    /\ batch = [p \in Parents |-> batch[p]]
    /\ \A p \in Parents : Worked(batch[p], parent[p].next, parent[p].done, parent[p].stage = "joining")

DelegInv == Del!DelegTypeOK /\ BatchesWorked /\ Del!StoresPinned

-----------------------------------------------------------------------------
LEMMA BatchFinite ==
    ASSUME NEW n \in Nat, NEW b \in [1 .. n -> Del!TaskState]
    PROVE  /\ IsFiniteSet(Busy(b)) /\ IsFiniteSet(Over(b)) /\ Cardinality(DOMAIN b) = n
           /\ Cardinality(Busy(b)) \in Nat /\ Cardinality(Over(b)) \in Nat
<1>1. IsFiniteSet(1 .. n) /\ Cardinality(1 .. n) = n
  BY FS_Interval
<1>2. Busy(b) \subseteq 1 .. n /\ Over(b) \subseteq 1 .. n
  BY DEF Busy, Over
<1>3. IsFiniteSet(Busy(b)) /\ IsFiniteSet(Over(b))
  BY <1>1, <1>2, FS_Subset
<1> QED BY <1>1, <1>3, FS_CardinalityType

\* A batch with nobody running has an entry for each of its tasks.
LEMMA AllDone ==
    ASSUME NEW n \in Nat, NEW b \in [1 .. n -> Del!TaskState], NEW next \in Nat, NEW done,
           Worked(b, next, done, TRUE), Busy(b) = {}
    PROVE  done = n
<1>1. next \notin 1 .. n
  BY DEF Worked
<1>2. \A i \in 1 .. n : i < next
  BY <1>1 DEF Worked
<1>3. \A i \in 1 .. n : b[i] # "queued" /\ b[i] # "running"
  BY <1>2 DEF Worked, Busy
<1>4. Over(b) = DOMAIN b
  BY <1>3 DEF Over, Del!TaskState
<1> QED BY <1>4, BatchFinite DEF Worked

\* PoolKept, batch by batch.
LEMMA PoolByBatch ==
    ASSUME Del!DelegTypeOK, BatchesWorked
    PROVE  Del!PoolKept
<1>1. ASSUME NEW p \in Parents
      PROVE  /\ Cardinality(Del!Running(p)) <= Pool
             /\ \A i \in DOMAIN batch[p] : batch[p][i] = "queued" <=> i >= parent[p].next
             /\ parent[p].stage = "joining" => parent[p].done =
                  Cardinality({i \in DOMAIN batch[p] : batch[p][i] \in {"completed", "error"}})
             /\ parent[p].stage = "joining" /\ Del!Running(p) = {} =>
                  parent[p].done = Cardinality(DOMAIN batch[p])
  <2>1. /\ Del!Running(p) = Busy(batch[p])
        /\ {i \in DOMAIN batch[p] : batch[p][i] \in {"completed", "error"}} = Over(batch[p])
        /\ parent[p].next \in Nat
    BY DEF Del!Running, Busy, Over, Del!DelegTypeOK, Del!Parent
  <2>2. PICK n \in Nat : batch[p] \in [1 .. n -> Del!TaskState]
    BY DEF Del!DelegTypeOK
  <2>3. Worked(batch[p], parent[p].next, parent[p].done, parent[p].stage = "joining")
    BY DEF BatchesWorked
  <2>4. ASSUME parent[p].stage = "joining", Busy(batch[p]) = {}
        PROVE  parent[p].done = Cardinality(DOMAIN batch[p])
    <3>1. Worked(batch[p], parent[p].next, parent[p].done, TRUE)
      BY <2>3, <2>4 DEF Worked
    <3> QED BY <2>1, <2>2, <2>4, <3>1, AllDone, BatchFinite
  <2> QED BY <2>1, <2>3, <2>4 DEF Worked
<1> QED BY <1>1, DelCard DEF Del!PoolKept

\* runBatch fills the lanes, and a child that ends gives its lane the next task.
LEMMA Filled ==
    ASSUME DelegBounds, NEW n \in Nat
    PROVE  LET b == [i \in 1 .. n |-> IF i <= Del!Lanes(n) THEN "running" ELSE "queued"]
           IN  b \in [1 .. n -> Del!TaskState] /\ Worked(b, Del!Lanes(n) + 1, 0, TRUE)
<1> DEFINE l == Del!Lanes(n)
           b == [i \in 1 .. n |-> IF i <= l THEN "running" ELSE "queued"]
<1>1. l \in Nat /\ l <= n /\ l <= Pool /\ (l < n => l > 0)
  BY DEF Del!Lanes, DelegBounds
<1> HIDE DEF l
<1>2. b \in [1 .. n -> Del!TaskState] /\ \A i \in 1 .. n : b[i] = IF i <= l THEN "running" ELSE "queued"
  BY DEF Del!TaskState
<1>d. DOMAIN b = 1 .. n
  OBVIOUS
<1> HIDE DEF b
<1>3. Busy(b) = 1 .. l
  BY <1>1, <1>2, <1>d DEF Busy
<1>4. Cardinality(1 .. l) = l
  BY <1>1, FS_Interval
<1>5. Over(b) = {} /\ Cardinality({}) = 0
  BY <1>2, <1>d, FS_EmptySet DEF Over
<1>6. \A i \in DOMAIN b : b[i] = "queued" <=> i >= l + 1
  BY <1>1, <1>2, <1>d
<1>7. l + 1 \in DOMAIN b => Busy(b) # {}
  BY <1>1, <1>3, <1>d
<1>8. Cardinality(Busy(b)) <= Pool /\ l + 1 > 0
  BY <1>1, <1>3, <1>4
<1>9. Worked(b, l + 1, 0, TRUE)
  BY <1>5, <1>6, <1>7, <1>8 DEF Worked
<1> QED BY <1>2, <1>9 DEF b, l

LEMMA Ended ==
    ASSUME DelegBounds, NEW n \in Nat, NEW b \in [1 .. n -> Del!TaskState],
           NEW next \in Nat, NEW done \in Nat, Worked(b, next, done, TRUE),
           NEW i \in 1 .. n, b[i] = "running", NEW status \in {"completed", "error"}
    PROVE  /\ next \in 1 .. n =>
                Worked([b EXCEPT ![i] = status, ![next] = "running"], next + 1, done + 1, TRUE)
           /\ next \notin 1 .. n => Worked([b EXCEPT ![i] = status], next, done + 1, TRUE)
<1>f. /\ IsFiniteSet(Busy(b)) /\ IsFiniteSet(Over(b))
      /\ Cardinality(Busy(b)) \in Nat /\ Cardinality(Over(b)) \in Nat
  BY BatchFinite
<1>w. Cardinality(Busy(b)) <= Pool /\ done = Cardinality(Over(b)) /\ next > 0 /\ Pool \in Nat
  BY DEF Worked, DelegBounds
<1>1. i \in Busy(b) /\ i \notin Over(b) /\ i < next
  BY DEF Busy, Over, Worked
<1>2. /\ IsFiniteSet(Busy(b) \ {i}) /\ Cardinality(Busy(b) \ {i}) = Cardinality(Busy(b)) - 1
      /\ Cardinality(Over(b) \cup {i}) = Cardinality(Over(b)) + 1
  BY <1>1, <1>f, FS_RemoveElement, FS_AddElement
<1>3. ASSUME next \in 1 .. n
      PROVE  Worked([b EXCEPT ![i] = status, ![next] = "running"], next + 1, done + 1, TRUE)
  <2> DEFINE c == [b EXCEPT ![i] = status, ![next] = "running"]
  <2>1. /\ DOMAIN c = 1 .. n /\ c[next] = "running" /\ c[i] = status
        /\ \A k \in 1 .. n : k # i /\ k # next => c[k] = b[k]
    BY <1>1, <1>3
  <2>2. b[next] = "queued" /\ next # i
    BY <1>1, <1>3 DEF Worked
  <2> HIDE DEF c
  <2>3. Busy(c) = (Busy(b) \ {i}) \cup {next} /\ next \notin Busy(b) \ {i}
    BY <2>1, <2>2, <1>3 DEF Busy
  <2>4. Over(c) = Over(b) \cup {i}
    BY <2>1, <2>2 DEF Over
  <2>5. Cardinality(Busy(c)) = Cardinality(Busy(b))
    <3> DEFINE rest == Busy(b) \ {i}
    <3>1. IsFiniteSet(rest) /\ Cardinality(rest) = Cardinality(Busy(b)) - 1 /\ next \notin rest
      BY <1>2, <2>3
    <3> HIDE DEF rest
    <3>2. Cardinality(rest \cup {next}) = Cardinality(rest) + 1
      BY <3>1, FS_AddElement
    <3> QED BY <3>1, <3>2, <2>3, <1>f DEF rest
  <2>6. \A k \in DOMAIN c : c[k] = "queued" <=> k >= next + 1
    BY <2>1, <2>2, <1>1 DEF Worked
  <2>7. Busy(c) # {}
    BY <2>3
  <2>8. Cardinality(Over(c)) = done + 1 /\ Cardinality(Busy(c)) <= Pool /\ next + 1 > 0
    BY <2>4, <2>5, <1>2, <1>w
  <2> QED BY <2>6, <2>7, <2>8 DEF Worked, c
<1>4. ASSUME next \notin 1 .. n
      PROVE  Worked([b EXCEPT ![i] = status], next, done + 1, TRUE)
  <2> DEFINE c == [b EXCEPT ![i] = status]
  <2>1. DOMAIN c = 1 .. n /\ c[i] = status /\ \A k \in 1 .. n : k # i => c[k] = b[k]
    OBVIOUS
  <2> HIDE DEF c
  <2>2. Busy(c) = Busy(b) \ {i} /\ Over(c) = Over(b) \cup {i}
    BY <2>1 DEF Busy, Over
  <2>3. \A k \in DOMAIN c : c[k] = "queued" <=> k >= next
    BY <2>1, <1>1 DEF Worked
  <2>4. Cardinality(Busy(c)) <= Pool /\ Cardinality(Over(c)) = done + 1
    BY <2>2, <1>2, <1>f, <1>w
  <2> QED BY <2>1, <2>3, <2>4, <1>4, <1>w DEF Worked, c
<1> QED BY <1>3, <1>4

-----------------------------------------------------------------------------
\* What a step may do to a run: keep its batch, or start one, or end a child.
Goes(p) ==
    LET q == parent[p]
        r == parent'[p] IN
    /\ r \in Del!Parent
    /\ \E n \in 0 .. MaxTasks : batch'[p] \in [1 .. n -> Del!TaskState]
    /\ Worked(batch'[p], r.next, r.done, r.stage = "joining")
    /\ r.stage # "idle" => r.memory = r.home

LEMMA RunsGo ==
    ASSUME folder' \in Folders, rebinds' \in 0 .. MaxRebinds,
           parent' \in [Parents -> Del!Parent],
           batch' = [o \in Parents |-> batch'[o]], \A p \in Parents : Goes(p)
    PROVE  DelegInv'
<1>1. Del!DelegTypeOK'
  BY DEF Del!DelegTypeOK, Goes
<1>2. BatchesWorked'
  BY DEF Goes, Worked, Busy, Over, BatchesWorked
<1>4. Del!StoresPinned'
  BY DEF Goes, Del!StoresPinned
<1> QED BY <1>1, <1>2, <1>4 DEF DelegInv

LEMMA RunNow ==
    ASSUME DelegInv, NEW p \in Parents
    PROVE  /\ parent[p] \in Del!Parent /\ parent[p].next \in Nat /\ parent[p].done \in Nat
           /\ \E n \in 0 .. MaxTasks : batch[p] \in [1 .. n -> Del!TaskState]
           /\ Worked(batch[p], parent[p].next, parent[p].done, parent[p].stage = "joining")
           /\ parent[p].stage # "idle" => parent[p].memory = parent[p].home
  BY DEF DelegInv, BatchesWorked, Del!DelegTypeOK, Del!Parent, Del!StoresPinned

\* A step of one run leaves the others as they are.
LEMMA OneRunGoes ==
    ASSUME DelegInv, NEW p \in Parents, NEW q \in Del!Parent, NEW b,
           parent' = [parent EXCEPT ![p] = q], batch' = [batch EXCEPT ![p] = b],
           \E n \in 0 .. MaxTasks : b \in [1 .. n -> Del!TaskState],
           Worked(b, q.next, q.done, q.stage = "joining"), q.stage # "idle" => q.memory = q.home,
           UNCHANGED <<folder, rebinds>>
    PROVE  DelegInv'
<1>1. parent \in [Parents -> Del!Parent] /\ batch = [o \in Parents |-> batch[o]]
  BY DEF DelegInv, Del!DelegTypeOK, BatchesWorked
<1>2. \A o \in Parents \ {p} : parent'[o] = parent[o] /\ batch'[o] = batch[o]
  BY <1>1
<1>3. parent'[p] = q /\ batch'[p] = b
  BY <1>1
<1>4. \A o \in Parents : Goes(o)
  BY <1>2, <1>3, RunNow DEF Goes
<1>5. parent' \in [Parents -> Del!Parent] /\ batch' = [o \in Parents |-> batch'[o]] /\ folder' \in Folders /\ rebinds' \in 0 .. MaxRebinds
  BY <1>1 DEF DelegInv, Del!DelegTypeOK
<1> QED BY <1>4, <1>5, RunsGo
-----------------------------------------------------------------------------
LEMMA DelegStarts == ASSUME DelegBounds, Del!DelegInit PROVE DelegInv
<1> DEFINE idle == [stage |-> "idle", home |-> folder, memory |-> folder, engine |-> folder,
                    aborted |-> FALSE, next |-> 1, done |-> 0, batches |-> 0]
<1>1. /\ folder \in Folders /\ rebinds = 0
      /\ parent = [p \in Parents |-> idle] /\ batch = [p \in Parents |-> <<>>]
  BY DEF Del!DelegInit
<1>2. idle \in Del!Parent
  BY <1>1 DEF Del!Parent
<1>3. <<>> \in [1 .. 0 -> Del!TaskState]
  OBVIOUS
<1>4. Worked(<<>>, 1, 0, FALSE)
  <2>1. DOMAIN <<>> = {} /\ Busy(<<>>) = {}
    BY DEF Busy
  <2> QED BY <2>1, FS_EmptySet DEF Worked, DelegBounds
<1>5. idle.next = 1 /\ idle.done = 0 /\ idle.stage = "idle" /\ idle.memory = idle.home
  OBVIOUS
<1> HIDE DEF idle
<1>6. Del!DelegTypeOK
  <2>1. 0 \in 0 .. MaxRebinds /\ 0 \in 0 .. MaxTasks
    BY DEF DelegBounds
  <2> QED BY <1>1, <1>2, <1>3, <2>1 DEF Del!DelegTypeOK
<1>7. BatchesWorked
  BY <1>1, <1>4, <1>5 DEF BatchesWorked
<1>8. Del!StoresPinned
  BY <1>1, <1>5 DEF Del!StoresPinned
<1> QED BY <1>6, <1>7, <1>8 DEF DelegInv

\* A run starts, ends, is aborted or has its lanes joined: its batch stays.
LEMMA RunSteps ==
    ASSUME DelegBounds, DelegInv, NEW p \in Parents,
           Del!StartRun(p) \/ Del!Abort(p) \/ Del!ParentEnds(p) \/ Del!Joined(p)
    PROVE  DelegInv'
<1>1. /\ parent[p] \in Del!Parent /\ parent \in [Parents -> Del!Parent] /\ folder \in Folders
      /\ batch = [o \in Parents |-> batch[o]]
  BY DEF DelegInv, Del!DelegTypeOK, BatchesWorked
<1>2. PICK q \in Del!Parent :
        /\ parent' = [parent EXCEPT ![p] = q]
        /\ q.next = parent[p].next /\ q.done = parent[p].done
        /\ q.stage = "joining" => parent[p].stage = "joining"
        /\ \/ q.memory = q.home
           \/ parent[p].stage # "idle" /\ q.memory = parent[p].memory /\ q.home = parent[p].home
           \/ q.stage = "idle"
  <2>1. CASE Del!StartRun(p)
    <3> DEFINE q == [parent[p] EXCEPT !.stage = "running", !.home = folder, !.memory = folder, !.engine = folder]
    <3>1. q \in Del!Parent /\ q.next = parent[p].next /\ q.done = parent[p].done /\ q.stage = "running"
          /\ q.memory = q.home
      BY <1>1 DEF Del!Parent
    <3>2. parent' = [parent EXCEPT ![p] = q]
      BY <2>1 DEF Del!StartRun
    <3> QED BY <3>1, <3>2
  <2>2. CASE Del!Abort(p)
    <3> DEFINE q == [parent[p] EXCEPT !.aborted = TRUE]
    <3>1. q \in Del!Parent /\ q.next = parent[p].next /\ q.done = parent[p].done /\ q.stage = parent[p].stage
          /\ q.memory = parent[p].memory /\ q.home = parent[p].home
      BY <1>1 DEF Del!Parent
    <3>2. parent' = [parent EXCEPT ![p] = q] /\ parent[p].stage # "idle"
      BY <2>2 DEF Del!Abort
    <3> QED BY <3>1, <3>2
  <2>3. CASE Del!ParentEnds(p)
    <3> DEFINE q == [parent[p] EXCEPT !.stage = "idle"]
    <3>1. q \in Del!Parent /\ q.next = parent[p].next /\ q.done = parent[p].done /\ q.stage = "idle"
      BY <1>1 DEF Del!Parent
    <3>2. parent' = [parent EXCEPT ![p] = q]
      BY <2>3 DEF Del!ParentEnds
    <3> QED BY <3>1, <3>2
  <2>4. CASE Del!Joined(p)
    <3> DEFINE q == [parent[p] EXCEPT !.stage = "running"]
    <3>1. q \in Del!Parent /\ q.next = parent[p].next /\ q.done = parent[p].done /\ q.stage = "running"
          /\ q.memory = parent[p].memory /\ q.home = parent[p].home
      BY <1>1 DEF Del!Parent
    <3>2. parent' = [parent EXCEPT ![p] = q] /\ parent[p].stage # "idle"
      BY <2>4 DEF Del!Joined
    <3> QED BY <3>1, <3>2
  <2> QED BY <2>1, <2>2, <2>3, <2>4
<1>3. UNCHANGED <<folder, batch, rebinds>>
  BY DEF Del!StartRun, Del!Abort, Del!ParentEnds, Del!Joined
<1>4. batch' = [batch EXCEPT ![p] = batch[p]]
  BY <1>1, <1>3
<1>5. Worked(batch[p], q.next, q.done, q.stage = "joining")
  BY <1>2, RunNow DEF Worked
<1>6. q.stage # "idle" => q.memory = q.home
  BY <1>2, RunNow
<1> QED BY <1>2, <1>3, <1>4, <1>5, <1>6, RunNow, OneRunGoes

\* runBatch: the stores of a run that was pinned are asked for again.
LEMMA DelegateStep ==
    ASSUME DelegBounds, DelegInv, NEW p \in Parents, NEW n \in 1 .. MaxTasks, Del!Delegate(p, n)
    PROVE  DelegInv'
<1> DEFINE b == [i \in 1 .. n |-> IF i <= Del!Lanes(n) THEN "running" ELSE "queued"]
           m == Del!StoresFor(parent[p])
           q == [m EXCEPT !.stage = "joining", !.next = Del!Lanes(n) + 1, !.done = 0,
                         !.batches = parent[p].batches + 1]
<1>1. parent[p] \in Del!Parent /\ folder \in Folders /\ parent[p].memory = parent[p].home
  BY RunNow DEF DelegInv, Del!DelegTypeOK, Del!Delegate
<1>2. n \in Nat /\ n \in 0 .. MaxTasks /\ Del!Lanes(n) \in Nat
  BY DEF DelegBounds, Del!Lanes
<1>3. m \in Del!Parent /\ m.memory = parent[p].memory /\ m.home = parent[p].home
  BY <1>1 DEF Del!StoresFor, Del!Parent
<1>5. parent' = [parent EXCEPT ![p] = q] /\ batch' = [batch EXCEPT ![p] = b] /\ UNCHANGED <<folder, rebinds>>
  BY DEF Del!Delegate
<1> HIDE DEF b, m
<1>4. q \in Del!Parent /\ q.next = Del!Lanes(n) + 1 /\ q.done = 0 /\ q.stage = "joining" /\ q.memory = q.home
  <2>1. ASSUME NEW next \in Nat, NEW batches \in Nat
        PROVE  LET r == [m EXCEPT !.stage = "joining", !.next = next, !.done = 0, !.batches = batches]
               IN  /\ r \in Del!Parent /\ r.next = next /\ r.done = 0 /\ r.stage = "joining"
                   /\ r.memory = m.memory /\ r.home = m.home
    BY <1>3 DEF Del!Parent
  <2>2. Del!Lanes(n) + 1 \in Nat /\ parent[p].batches + 1 \in Nat
    BY <1>1, <1>2 DEF Del!Parent
  <2> QED BY <1>1, <1>3, <2>1, <2>2
<1>6. b \in [1 .. n -> Del!TaskState] /\ Worked(b, Del!Lanes(n) + 1, 0, TRUE)
  BY <1>2, Filled DEF b
<1> HIDE DEF q
<1>7. Worked(b, q.next, q.done, q.stage = "joining")
  BY <1>4, <1>6
<1> QED BY <1>2, <1>4, <1>5, <1>6, <1>7, OneRunGoes

\* A child ends: its lane takes the next task, and the stores are asked for again.
LEMMA ChildEndsStep ==
    ASSUME DelegBounds, DelegInv, NEW p \in Parents, NEW i \in DOMAIN batch[p],
           NEW status \in {"completed", "error"}, Del!ChildEnds(p, i, status)
    PROVE  DelegInv'
<1> DEFINE old == batch[p]
           next == parent[p].next
           done == parent[p].done
<1>1. /\ parent[p] \in Del!Parent /\ folder \in Folders /\ parent[p].memory = parent[p].home
      /\ parent[p].stage = "joining" /\ old[i] = "running"
  BY RunNow DEF DelegInv, Del!DelegTypeOK, Del!ChildEnds
<1>2. PICK n \in 0 .. MaxTasks : old \in [1 .. n -> Del!TaskState]
  BY RunNow
<1>3. n \in Nat /\ next \in Nat /\ done \in Nat /\ i \in 1 .. n /\ status \in Del!TaskState
      /\ "running" \in Del!TaskState /\ next + 1 \in Nat /\ done + 1 \in Nat
  BY <1>1, <1>2, RunNow DEF DelegBounds, Del!Parent, Del!TaskState
<1>4. Worked(old, next, done, TRUE)
  BY <1>1, RunNow DEF Worked
<1>5. /\ next \in 1 .. n =>
             Worked([old EXCEPT ![i] = status, ![next] = "running"], next + 1, done + 1, TRUE)
      /\ next \notin 1 .. n => Worked([old EXCEPT ![i] = status], next, done + 1, TRUE)
  BY <1>1, <1>2, <1>3, <1>4, Ended
<1>6. UNCHANGED <<folder, rebinds>>
  BY DEF Del!ChildEnds
<1>7. CASE next \in 1 .. n
  <2> DEFINE b == [old EXCEPT ![i] = status, ![next] = "running"]
             m == Del!StoresFor(parent[p])
             q == [m EXCEPT !.next = next + 1, !.done = done + 1]
  <2>1. b \in [1 .. n -> Del!TaskState]
    BY <1>2, <1>3
  <2>2. m \in Del!Parent /\ m.memory = parent[p].memory /\ m.home = parent[p].home /\ m.stage = "joining"
    BY <1>1 DEF Del!StoresFor, Del!Parent
  <2>3. parent' = [parent EXCEPT ![p] = q] /\ batch' = [batch EXCEPT ![p] = b]
    BY <1>2, <1>7 DEF Del!ChildEnds
  <2> HIDE DEF b, m
  <2>4. q \in Del!Parent /\ q.next = next + 1 /\ q.done = done + 1 /\ q.stage = "joining" /\ q.memory = q.home
    BY <1>1, <1>3, <2>2 DEF Del!Parent
  <2> HIDE DEF q
  <2>5. Worked(b, q.next, q.done, q.stage = "joining")
    BY <1>5, <1>7, <2>4 DEF b
  <2> QED BY <1>6, <2>1, <2>3, <2>4, <2>5, OneRunGoes
<1>8. CASE next \notin 1 .. n
  <2> DEFINE b == [old EXCEPT ![i] = status]
             q == [parent[p] EXCEPT !.done = done + 1]
  <2>1. b \in [1 .. n -> Del!TaskState]
    BY <1>2, <1>3
  <2>3. parent' = [parent EXCEPT ![p] = q] /\ batch' = [batch EXCEPT ![p] = b]
    BY <1>2, <1>8 DEF Del!ChildEnds
  <2> HIDE DEF b
  <2>4. q \in Del!Parent /\ q.next = next /\ q.done = done + 1 /\ q.stage = "joining" /\ q.memory = q.home
    BY <1>1, <1>3 DEF Del!Parent
  <2> HIDE DEF q
  <2>5. Worked(b, q.next, q.done, q.stage = "joining")
    BY <1>5, <1>8, <2>4 DEF b
  <2> QED BY <1>6, <2>1, <2>3, <2>4, <2>5, OneRunGoes
<1> QED BY <1>7, <1>8

LEMMA DelegStutters ==
    ASSUME DelegBounds, DelegInv,
           UNCHANGED Del!delegVars \/ \E f \in Folders : Del!Rebind(f)
    PROVE  DelegInv'
<1>1. UNCHANGED <<parent, batch>> /\ folder' \in Folders /\ rebinds' \in 0 .. MaxRebinds
  BY DEF DelegInv, Del!DelegTypeOK, Del!delegVars, Del!Rebind, DelegBounds
<1> QED BY <1>1 DEF DelegInv, Del!DelegTypeOK, BatchesWorked, Worked, Busy, Over, Del!StoresPinned

\* What holds of every state of delegating runs: the invariant behind the two promises.
THEOREM DelegInvariance == ASSUME DelegBounds PROVE Del!DelegSpec => []DelegInv
<1>1. ASSUME DelegInv, [Del!DelegNext]_Del!delegVars PROVE DelegInv'
  BY <1>1, RunSteps, DelegateStep, ChildEndsStep, DelegStutters DEF Del!DelegNext, Del!Children
<1> QED BY <1>1, DelegStarts, PTL DEF Del!DelegSpec

\* Busy and their batches keep their types for any runs, pool and folders.
THEOREM DelegTypes == ASSUME DelegBounds PROVE Del!DelegSpec => []Del!DelegTypeOK
<1>1. DelegInv => Del!DelegTypeOK
  BY DEF DelegInv
<1> QED BY <1>1, DelegInvariance, PTL

\* For any batch and any pool: never more children than lanes, each task taken once and in
\* order, and a joined batch has counted an entry for each (runPooled).
THEOREM PoolIsKept == ASSUME DelegBounds PROVE Del!DelegSpec => []Del!PoolKept
<1>1. DelegInv => Del!PoolKept
  BY PoolByBatch DEF DelegInv
<1> QED BY <1>1, DelegInvariance, PTL

\* However often settings and profiles switch, a run writes its memory and skills where it
\* began (AgentRunner.storesFor).
THEOREM StoresStayPinned == ASSUME DelegBounds PROVE Del!DelegSpec => []Del!StoresPinned
<1>1. DelegInv => Del!StoresPinned
  BY DEF DelegInv
<1> QED BY <1>1, DelegInvariance, PTL

-----------------------------------------------------------------------------
(* WebTools, for any calls, pages, budgets and questions of the model.     *)

\* What the instance of a run, or the code, gives the constants: a call of a
\* tool names at least one URL, and None is no number, question or page.
WebBounds ==
    /\ Limit \in Nat /\ MaxBytes \in Nat /\ None \notin Nat
    /\ None \notin [size : Web!Sizes, saved : BOOLEAN]
    /\ \A c \in Calls : /\ None \notin AsksOf[c]
                        /\ AsksOf[c] \subseteq [tool : {"extract", "search", "picture", "file"},
                                                urls : Seq(Urls) \ {<<>>}, summarize : BOOLEAN]

Entries == [as : {"empty", "whole", "window", "summary", "results", "pixels"}, saved : BOOLEAN]

\* The note of a page is there, unless the user deleted it.
Findable(u) == notes[u] # None \/ u \in deleted

\* A call works on the first URL without an entry until it is over; it holds a
\* page only once one was fetched, and one that says it is saved has a note.
Reading(c) ==
    /\ progress[c] = "idle" => request[c] = None
    /\ progress[c] # "idle" => request[c] # None
    /\ request[c] = None => outs[c] = <<>> /\ page[c] = None
    /\ request[c] # None => Len(outs[c]) <= Len(request[c].urls)
    /\ progress[c] \notin {"idle"} \cup Web!Over => Len(outs[c]) < Len(request[c].urls)
    /\ progress[c] \in {"digest", "modify", "create", "condense"} => page[c] # None
    /\ page[c] # None => /\ request[c] # None /\ Len(outs[c]) < Len(request[c].urls)
                         /\ page[c].saved => Findable(request[c].urls[Len(outs[c]) + 1])

NamesNotes(c) == \A i \in DOMAIN outs[c] : outs[c][i].saved => Findable(request[c].urls[i])

WebInv ==
    /\ Web!WebTypeOK /\ DOMAIN request = Calls /\ DOMAIN outs = Calls
    /\ \A c \in Calls : Reading(c) /\ NamesNotes(c)
    /\ Web!StopEndsWaits

\* What a step keeps for the notes: one that was findable stays so.
NotesKept == notes' \in [Urls -> Web!Sizes \cup {None}] /\ deleted' \subseteq Urls
             /\ \A u \in Urls : Findable(u) => Findable(u)'

LEMMA AskHas ==
    ASSUME WebBounds, WebInv, NEW c \in Calls, request[c] # None
    PROVE  /\ request[c].urls \in Seq(Urls) /\ request[c].urls # <<>> /\ request[c].summarize \in BOOLEAN
           /\ Len(request[c].urls) \in Nat \ {0} /\ Len(outs[c]) \in Nat
           /\ outs[c] \in Seq(Entries)
           /\ \A i \in 1 .. Len(request[c].urls) : request[c].urls[i] \in Urls
<1>1. request[c] \in AsksOf[c]
  BY DEF WebInv, Web!WebTypeOK
<1>2. request[c].urls \in Seq(Urls) /\ request[c].urls # <<>> /\ request[c].summarize \in BOOLEAN
  BY <1>1 DEF WebBounds
<1>3. outs[c] \in Seq(Entries)
  BY DEF WebInv, Web!WebTypeOK, Entries
<1>4. PICK q : q = request[c].urls
  OBVIOUS
<1>5. q \in Seq(Urls) /\ q # <<>>
  BY <1>2, <1>4
<1>6. Len(q) \in Nat \ {0} /\ \A i \in 1 .. Len(q) : q[i] \in Urls
  BY <1>5, EmptySeq
<1> QED BY <1>2, <1>3, <1>4, <1>6

\* A call that a step does not touch keeps what is said of it.
LEMMA WebOthers ==
    ASSUME WebBounds, WebInv, NotesKept, NEW d \in Calls,
           request'[d] = request[d], progress'[d] = progress[d], stopped'[d] = stopped[d],
           page'[d] = page[d], outs'[d] = outs[d]
    PROVE  /\ Reading(d)' /\ NamesNotes(d)'
           /\ stopped'[d] => ~Web!Bounded(d)'
<1>1. Reading(d) /\ NamesNotes(d) /\ (stopped[d] => ~Web!Bounded(d))
  BY DEF WebInv, Web!StopEndsWaits
<1>2. CASE request[d] = None
  BY <1>1, <1>2 DEF Reading, NamesNotes, Web!Bounded
<1>3. CASE request[d] # None
  <2>1. /\ Len(request[d].urls) \in Nat /\ Len(outs[d]) \in Nat /\ outs[d] \in Seq(Entries)
        /\ \A i \in 1 .. Len(request[d].urls) : request[d].urls[i] \in Urls
    BY <1>3, AskHas
  <2>2. DOMAIN outs[d] = 1 .. Len(outs[d]) /\ Len(outs[d]) <= Len(request[d].urls)
    BY <1>1, <1>3, <2>1 DEF Reading
  <2>3. NamesNotes(d)'
    <3> SUFFICES ASSUME NEW i \in DOMAIN outs[d], outs[d][i].saved
                 PROVE  Findable(request[d].urls[i])'
      BY DEF NamesNotes
    <3>1. Findable(request[d].urls[i])
      BY <1>1 DEF NamesNotes
    <3>2. i \in 1 .. Len(request[d].urls)
      BY <2>1, <2>2
    <3> QED BY <3>1, <3>2, <2>1 DEF NotesKept, Findable
  <2>4. ASSUME page[d] # None, page[d].saved
        PROVE  Findable(request[d].urls[Len(outs[d]) + 1])'
    <3>1. /\ Len(outs[d]) < Len(request[d].urls) /\ Findable(request[d].urls[Len(outs[d]) + 1])
      BY <1>1, <2>4 DEF Reading
    <3>2. Len(outs[d]) + 1 \in 1 .. Len(request[d].urls)
      BY <3>1, <2>1
    <3> QED BY <3>1, <3>2, <2>1 DEF NotesKept, Findable
  <2>5. Reading(d)'
    BY <1>1, <2>4 DEF Reading, Findable
  <2> QED BY <2>3, <2>5, <1>1 DEF Web!Bounded
<1> QED BY <1>2, <1>3

\* A call that moves on in its work, nothing given yet.
LEMMA WebMoves ==
    ASSUME WebBounds, WebInv, NotesKept, NEW c \in Calls, NEW s \in Web!Stages,
           progress[c] \notin {"idle"} \cup Web!Over,
           Web!GoTo(c, s), UNCHANGED <<request, outs>>,
           stopped' \in [Calls -> BOOLEAN], \A d \in Calls \ {c} : stopped'[d] = stopped[d],
           page' \in [Calls -> [size : Web!Sizes, saved : BOOLEAN] \cup {None}],
           \A d \in Calls \ {c} : page'[d] = page[d],
           s # "idle",
           s \in {"digest", "modify", "create", "condense"} => page'[c] # None,
           page'[c] # None /\ page'[c].saved => Findable(Web!Url(c))',
           s = "fetch" /\ request[c].tool # "search" => ~stopped'[c]
    PROVE  WebInv'
<1>1. progress' \in [Calls -> Web!Stages] /\ progress'[c] = s /\ \A d \in Calls \ {c} : progress'[d] = progress[d]
  BY DEF WebInv, Web!WebTypeOK, Web!GoTo
<1>2. Web!WebTypeOK' /\ DOMAIN request' = Calls /\ DOMAIN outs' = Calls
  BY <1>1 DEF WebInv, Web!WebTypeOK, NotesKept
<1>3. \A d \in Calls \ {c} : Reading(d)' /\ NamesNotes(d)' /\ (stopped'[d] => ~Web!Bounded(d)')
  BY <1>1, WebOthers
<1>4. Reading(c) /\ NamesNotes(c) /\ request[c] # None /\ Len(outs[c]) < Len(request[c].urls)
  BY DEF WebInv, Reading
<1>5. /\ Len(request[c].urls) \in Nat /\ Len(outs[c]) \in Nat /\ outs[c] \in Seq(Entries)
      /\ \A i \in 1 .. Len(request[c].urls) : request[c].urls[i] \in Urls
  BY <1>4, AskHas
<1>6. NamesNotes(c)'
  <2> SUFFICES ASSUME NEW i \in DOMAIN outs[c], outs[c][i].saved
               PROVE  Findable(request[c].urls[i])'
    BY DEF NamesNotes
  <2>1. Findable(request[c].urls[i]) /\ i \in 1 .. Len(request[c].urls)
    BY <1>4, <1>5 DEF NamesNotes
  <2> QED BY <2>1, <1>5 DEF NotesKept, Findable
<1>7. Reading(c)'
  BY <1>1, <1>4, <1>5 DEF Reading, Findable, Web!Url, Web!Current
<1>8. stopped'[c] => ~Web!Bounded(c)'
  BY <1>1 DEF Web!Bounded
<1> QED BY <1>2, <1>3, <1>6, <1>7, <1>8 DEF WebInv, Web!StopEndsWaits

\* A call that gives an entry and goes on to the next URL.
LEMMA WebPushes ==
    ASSUME WebBounds, WebInv, NotesKept, NEW c \in Calls, NEW e \in Entries,
           NEW u \in Urls, u = Web!Url(c), e.saved => Findable(u)',
           progress[c] \notin {"idle"} \cup Web!Over,
           Web!Push(c, e), UNCHANGED <<request, stopped>>
    PROVE  WebInv'
<1>1. Reading(c) /\ NamesNotes(c) /\ request[c] # None /\ Len(outs[c]) < Len(request[c].urls)
  BY DEF WebInv, Reading
<1>2. /\ Len(request[c].urls) \in Nat /\ Len(outs[c]) \in Nat /\ outs[c] \in Seq(Entries)
      /\ \A i \in 1 .. Len(request[c].urls) : request[c].urls[i] \in Urls
  BY <1>1, AskHas
<1>3. PICK s \in {"done", "fetch", "failed"} :
        /\ progress' = [progress EXCEPT ![c] = s]
        /\ s = "fetch" => ~stopped[c] /\ Len(outs[c]) + 1 # Len(request[c].urls)
  BY DEF Web!Push, Web!Request, Web!GoTo, Web!Current
<1>4. /\ progress' \in [Calls -> Web!Stages] /\ progress'[c] = s
      /\ \A d \in Calls \ {c} : progress'[d] = progress[d]
  BY <1>3 DEF WebInv, Web!WebTypeOK, Web!Stages, Web!Over
<1>5. /\ page' \in [Calls -> [size : Web!Sizes, saved : BOOLEAN] \cup {None}] /\ page'[c] = None
      /\ \A d \in Calls \ {c} : page'[d] = page[d]
  BY DEF WebInv, Web!WebTypeOK, Web!Push
<1>6. /\ DOMAIN outs' = Calls /\ outs'[c] = Append(outs[c], e)
      /\ \A d \in Calls \ {c} : outs'[d] = outs[d]
  BY DEF WebInv, Web!Push
<1>7. outs'[c] \in Seq(Entries) /\ Len(outs'[c]) = Len(outs[c]) + 1
      /\ \A i \in 1 .. Len(outs[c]) : outs'[c][i] = outs[c][i]
  BY <1>2, <1>6
<1>8. outs'[c][Len(outs[c]) + 1] = e
  BY <1>2, <1>6
<1>9. Web!WebTypeOK' /\ DOMAIN request' = Calls
  BY <1>4, <1>5, <1>6, <1>7 DEF WebInv, Web!WebTypeOK, NotesKept, Entries
<1>10. \A d \in Calls \ {c} : Reading(d)' /\ NamesNotes(d)' /\ (stopped'[d] => ~Web!Bounded(d)')
  BY <1>4, <1>5, <1>6, WebOthers
<1>11. NamesNotes(c)'
  <2> SUFFICES ASSUME NEW i \in DOMAIN outs'[c], outs'[c][i].saved
               PROVE  Findable(request[c].urls[i])'
    BY DEF NamesNotes
  <2>1. i \in 1 .. Len(outs[c]) + 1
    BY <1>2, <1>7
  <2>2. CASE i \in 1 .. Len(outs[c])
    <3>1. Findable(request[c].urls[i]) /\ i \in 1 .. Len(request[c].urls)
      BY <1>1, <1>2, <1>7, <2>2 DEF NamesNotes
    <3> QED BY <3>1, <1>2 DEF NotesKept, Findable
  <2>3. CASE i = Len(outs[c]) + 1
    <3> DEFINE n == Len(outs[c]) + 1
    <3>1. u = request[c].urls[n]
      BY DEF Web!Url, Web!Current
    <3>2. outs'[c][n] = e
      BY <1>8 DEF n
    <3> HIDE DEF n
    <3>3. i = n
      BY <2>3 DEF n
    <3>4. request'[c].urls[i] = u /\ outs'[c][i] = e
      BY <3>1, <3>2, <3>3
    <3>5. Findable(u)'
      BY <3>4
    <3> QED BY <3>4, <3>5 DEF Findable
  <2> QED BY <2>1, <2>2, <2>3, <1>2
<1>12. Reading(c)'
  BY <1>1, <1>2, <1>3, <1>4, <1>5, <1>7 DEF Reading, Web!Over
<1>13. stopped'[c] => ~Web!Bounded(c)'
  BY <1>3, <1>4 DEF Web!Bounded
<1> QED BY <1>6, <1>9, <1>10, <1>11, <1>12, <1>13 DEF WebInv, Web!StopEndsWaits

\* A step that leaves the notes alone.
LEMMA NotesAlone ==
    ASSUME WebInv, UNCHANGED <<notes, deleted>>
    PROVE  NotesKept
BY DEF WebInv, Web!WebTypeOK, NotesKept, Findable

\* The URL in hand.
LEMMA InHand ==
    ASSUME WebBounds, WebInv, NEW c \in Calls, progress[c] \notin {"idle"} \cup Web!Over
    PROVE  request[c] # None /\ Web!Url(c) \in Urls /\ Len(outs[c]) \in Nat
<1>1. Reading(c) /\ request[c] # None
  BY DEF WebInv, Reading
<1>2. Len(outs[c]) + 1 \in 1 .. Len(request[c].urls) /\ Len(outs[c]) \in Nat
  BY <1>1, AskHas DEF Reading
<1> QED BY <1>1, <1>2, AskHas DEF Web!Url, Web!Current

-----------------------------------------------------------------------------
(* The steps.                                                              *)

LEMMA WebStarts == ASSUME WebBounds PROVE Web!WebInit => WebInv
BY EmptySeq DEF Web!WebInit, WebInv, Web!WebTypeOK, Web!StopEndsWaits, Web!Bounded, Reading, NamesNotes,
   Web!Stages, Web!Sizes, WebBounds, Web!Over

LEMMA WebExecutes ==
    ASSUME WebBounds, WebInv, NEW c \in Calls, Web!Execute(c)
    PROVE  WebInv'
<1>1. PICK a \in AsksOf[c] :
        /\ request' = [request EXCEPT ![c] = a]
        /\ CASE a.tool = "search" -> Web!GoTo(c, "fetch")
             [] a.tool = "file" -> Web!GoTo(c, "read")
             [] OTHER -> Web!Request(c, a.urls[1])
  BY DEF Web!Execute
<1>2. a # None /\ a.urls \in Seq(Urls) /\ a.urls # <<>>
  BY DEF WebBounds
<1>3. Len(a.urls) \in Nat \ {0}
  BY <1>2, EmptySeq
<1>4. PICK s \in {"fetch", "read", "failed"} :
        progress' = [progress EXCEPT ![c] = s] /\ (s = "fetch" => a.tool = "search" \/ ~stopped[c])
  BY <1>1 DEF Web!GoTo, Web!Request
<1>5. /\ progress' \in [Calls -> Web!Stages] /\ progress'[c] = s
      /\ \A d \in Calls \ {c} : progress'[d] = progress[d]
  BY <1>4 DEF WebInv, Web!WebTypeOK, Web!Stages, Web!Over
<1>6. /\ DOMAIN request' = Calls /\ request'[c] = a /\ \A d \in Calls \ {c} : request'[d] = request[d]
      /\ UNCHANGED <<stopped, page, outs, notes, deleted>>
  BY <1>1 DEF WebInv, Web!Execute
<1>7. Web!WebTypeOK' /\ DOMAIN outs' = Calls
  BY <1>5, <1>6 DEF WebInv, Web!WebTypeOK
<1>8. \A d \in Calls \ {c} : Reading(d)' /\ NamesNotes(d)' /\ (stopped'[d] => ~Web!Bounded(d)')
  BY <1>5, <1>6, WebOthers, NotesAlone
<1>9. outs'[c] = <<>> /\ page'[c] = None
  BY <1>6 DEF WebInv, Reading, Web!Execute
<1>10. Reading(c)' /\ NamesNotes(c)'
  BY <1>2, <1>3, <1>5, <1>6, <1>9 DEF Reading, NamesNotes, Web!Over
<1>11. stopped'[c] => ~Web!Bounded(c)'
  BY <1>4, <1>5, <1>6 DEF Web!Bounded
<1> QED BY <1>6, <1>7, <1>8, <1>10, <1>11 DEF WebInv, Web!StopEndsWaits

\* A call that fails while it holds no page that could be lost.
LEMMA WebFails ==
    ASSUME WebBounds, WebInv, NEW c \in Calls, progress[c] \notin {"idle"} \cup Web!Over,
           Web!Fail(c), UNCHANGED <<request, stopped, notes, deleted>>
    PROVE  WebInv'
<1>1. page[c] # None /\ page[c].saved => Findable(Web!Url(c))'
  BY DEF WebInv, Reading, Findable, Web!Url, Web!Current, Web!Fail
<1> QED BY <1>1, WebMoves, NotesAlone DEF Web!Fail, WebInv, Web!WebTypeOK, Web!Stages, Web!Over

LEMMA WebAnswers ==
    ASSUME WebBounds, WebInv, NEW c \in Calls, Web!Response(c)
    PROVE  WebInv'
<1>1. /\ progress[c] = "fetch" /\ UNCHANGED <<request, stopped, notes, deleted>>
      /\ progress[c] \notin {"idle"} \cup Web!Over
  BY DEF Web!Response, Web!Over
<1>2. NotesKept
  BY <1>1, NotesAlone
<1>3. PICK u : u = Web!Url(c)
  OBVIOUS
<1>4. u \in Urls
  BY <1>1, <1>3, InHand
<1>5. ASSUME NEW as \in {"empty", "whole", "results"}, Web!Push(c, Web!Entry(as, FALSE))
      PROVE  WebInv'
  <2>1. Web!Entry(as, FALSE) \in Entries /\ ~Web!Entry(as, FALSE).saved
    BY DEF Web!Entry, Entries
  <2> QED BY <1>1, <1>2, <1>3, <1>4, <1>5, <2>1, WebPushes
<1>6. ASSUME Web!Fail(c) PROVE WebInv'
  BY <1>1, <1>6, WebFails
<1>7. PICK r \in Web!Responses :
        \/ \E as \in {"empty", "whole", "results"} : Web!Push(c, Web!Entry(as, FALSE))
        \/ Web!Fail(c)
        \/ Web!GoTo(c, "probe") /\ UNCHANGED <<page, outs>>
        \/ /\ Web!GoTo(c, "digest") /\ UNCHANGED outs
           /\ page' = [page EXCEPT ![c] = [size |-> r.size, saved |-> FALSE]]
  BY DEF Web!Response, Web!ExtractPage
<1>8. CASE Web!GoTo(c, "probe") /\ UNCHANGED <<page, outs>>
  <2>1. page[c] # None /\ page[c].saved => Findable(Web!Url(c))'
    BY <1>1, <1>8 DEF WebInv, Reading, Findable, Web!Url, Web!Current
  <2> QED BY <1>1, <1>2, <1>8, <2>1, WebMoves DEF WebInv, Web!WebTypeOK, Web!Stages
<1>9. CASE /\ Web!GoTo(c, "digest") /\ UNCHANGED outs
           /\ page' = [page EXCEPT ![c] = [size |-> r.size, saved |-> FALSE]]
  <2>1. [size |-> r.size, saved |-> FALSE] \in [size : Web!Sizes, saved : BOOLEAN]
    BY DEF Web!Responses
  <2>2. /\ page' \in [Calls -> [size : Web!Sizes, saved : BOOLEAN] \cup {None}]
        /\ \A d \in Calls \ {c} : page'[d] = page[d]
        /\ page'[c] # None /\ ~page'[c].saved
    BY <1>9, <2>1 DEF WebInv, Web!WebTypeOK, WebBounds
  <2> QED BY <1>1, <1>2, <1>9, <2>2, WebMoves DEF WebInv, Web!WebTypeOK, Web!Stages
<1> QED BY <1>5, <1>6, <1>7, <1>8, <1>9

LEMMA WebStops ==
    ASSUME WebBounds, WebInv, NEW c \in Calls, Web!Interrupt(c)
    PROVE  WebInv'
<1>1. /\ progress[c] \notin {"idle"} \cup Web!Over /\ stopped' = [stopped EXCEPT ![c] = TRUE]
      /\ UNCHANGED <<request, page, outs, notes, deleted>>
  BY DEF Web!Interrupt
<1>2. /\ NotesKept /\ stopped' \in [Calls -> BOOLEAN]
      /\ \A d \in Calls \ {c} : stopped'[d] = stopped[d] /\ page'[d] = page[d]
      /\ page' \in [Calls -> [size : Web!Sizes, saved : BOOLEAN] \cup {None}]
  BY <1>1, NotesAlone DEF WebInv, Web!WebTypeOK
<1>3. page[c] # None /\ page[c].saved => Findable(Web!Url(c))'
  BY <1>1 DEF WebInv, Reading, Findable, Web!Url, Web!Current
<1>4. CASE Web!Bounded(c)
  <2>1. Web!GoTo(c, "failed")
    BY <1>4 DEF Web!Interrupt
  <2> QED BY <1>1, <1>2, <1>3, <2>1, WebMoves DEF Web!Stages, Web!Over
<1>5. CASE ~Web!Bounded(c)
  <2>1. UNCHANGED progress
    BY <1>5 DEF Web!Interrupt
  <2>2. PICK s \in Web!Stages : s = progress[c]
    BY DEF WebInv, Web!WebTypeOK
  <2>3. Web!GoTo(c, s)
    BY <2>1, <2>2 DEF Web!GoTo, WebInv, Web!WebTypeOK
  <2>4. s \in {"digest", "modify", "create", "condense"} => page'[c] # None
    BY <1>1, <2>2 DEF WebInv, Reading
  <2>5. s # "idle" /\ (s = "fetch" => request[c].tool = "search")
    BY <1>1, <1>5, <2>2 DEF Web!Bounded
  <2> QED BY <1>1, <1>2, <1>3, <2>3, <2>4, <2>5, WebMoves
<1> QED BY <1>4, <1>5

\* A deadline, the lookup of a note, and what reads or describes a picture.
LEMMA WebWaits ==
    ASSUME WebBounds, WebInv, NEW c \in Calls,
           Web!Deadline(c) \/ Web!Look(c) \/ Web!ReadImage(c) \/ Web!Probe(c) \/ Web!Describe(c)
    PROVE  WebInv'
<1>1. /\ progress[c] \in {"fetch", "digest", "read", "probe", "describe"}
      /\ UNCHANGED <<request, stopped, notes, deleted>>
      /\ progress[c] \notin {"idle"} \cup Web!Over
  BY DEF Web!Deadline, Web!Bounded, Web!Look, Web!ReadImage, Web!Probe, Web!Describe, Web!Over
<1>2. NotesKept
  BY <1>1, NotesAlone
<1>3. ASSUME NEW as \in {"pixels", "results"}, Web!Push(c, Web!Entry(as, FALSE))
      PROVE  WebInv'
  <2>1. Web!Entry(as, FALSE) \in Entries /\ ~Web!Entry(as, FALSE).saved
    BY DEF Web!Entry, Entries
  <2>2. PICK u : u = Web!Url(c)
    OBVIOUS
  <2>3. u \in Urls
    BY <1>1, <2>2, InHand
  <2> QED BY <1>1, <1>2, <1>3, <2>1, <2>2, <2>3, WebPushes
<1>4. ASSUME NEW s \in {"create", "modify", "probe", "describe", "failed"},
             Web!GoTo(c, s), UNCHANGED <<page, outs>>,
             s \in {"create", "modify"} => progress[c] = "digest"
      PROVE  WebInv'
  <2>1. page[c] # None /\ page[c].saved => Findable(Web!Url(c))'
    BY <1>1, <1>4 DEF WebInv, Reading, Findable, Web!Url, Web!Current
  <2>2. s \in {"create", "modify"} => page[c] # None
    BY <1>4 DEF WebInv, Reading
  <2> QED BY <1>1, <1>2, <1>4, <2>1, <2>2, WebMoves DEF WebInv, Web!WebTypeOK, Web!Stages, Web!Over
<1>5. \/ \E as \in {"pixels", "results"} : Web!Push(c, Web!Entry(as, FALSE))
      \/ \E s \in {"create", "modify", "probe", "describe", "failed"} :
           /\ Web!GoTo(c, s) /\ UNCHANGED <<page, outs>>
           /\ s \in {"create", "modify"} => progress[c] = "digest"
  BY DEF Web!Deadline, Web!Look, Web!ReadImage, Web!Probe, Web!Describe, Web!Fail
<1> QED BY <1>3, <1>4, <1>5

LEMMA RawEntries ==
    ASSUME NEW c \in Calls, NEW saved \in BOOLEAN
    PROVE  Web!Raw(c, saved) \in Entries /\ (Web!Raw(c, saved).saved => saved)
BY DEF Web!Raw, Web!Entry, Entries

LEMMA WebWrites ==
    ASSUME WebBounds, WebInv, NEW c \in Calls, Web!Write(c)
    PROVE  WebInv'
<1>1. PICK saved \in BOOLEAN :
        /\ notes' = (IF saved THEN [notes EXCEPT ![Web!Url(c)] = page[c].size] ELSE notes)
        /\ IF request[c].summarize
           THEN /\ Web!GoTo(c, "condense")
                /\ page' = [page EXCEPT ![c].saved = saved]
                /\ UNCHANGED outs
           ELSE Web!Push(c, Web!Raw(c, saved))
  BY DEF Web!Write
<1>2. /\ progress[c] \in {"modify", "create"} /\ UNCHANGED <<request, stopped, deleted>>
      /\ progress[c] \notin {"idle"} \cup Web!Over
  BY DEF Web!Write, Web!Over
<1>3. PICK u : u = Web!Url(c)
  OBVIOUS
<1>4. u \in Urls
  BY <1>2, <1>3, InHand
<1>5. page[c] \in [size : Web!Sizes, saved : BOOLEAN] /\ page[c].size # None
  BY <1>2 DEF WebInv, Reading, Web!WebTypeOK, WebBounds, Web!Sizes
<1>6. NotesKept /\ (saved => Findable(u)')
  BY <1>1, <1>2, <1>3, <1>4, <1>5 DEF NotesKept, Findable, WebInv, Web!WebTypeOK
<1>7. CASE request[c].summarize
  <2>1. /\ page' \in [Calls -> [size : Web!Sizes, saved : BOOLEAN] \cup {None}]
        /\ \A d \in Calls \ {c} : page'[d] = page[d]
        /\ page'[c] # None /\ page'[c].saved = saved
    <3> DEFINE p == [page[c] EXCEPT !.saved = saved]
    <3>1. p \in [size : Web!Sizes, saved : BOOLEAN] /\ p.saved = saved
      BY <1>5
    <3>2. page' = [page EXCEPT ![c] = p]
      BY <1>1, <1>7
    <3> HIDE DEF p
    <3> QED BY <3>1, <3>2 DEF WebInv, Web!WebTypeOK, WebBounds
  <2>2. page'[c].saved => Findable(Web!Url(c))'
    BY <1>1, <1>2, <1>3, <1>6, <1>7, <2>1 DEF Findable, Web!Url, Web!Current
  <2> QED BY <1>1, <1>2, <1>6, <1>7, <2>1, <2>2, WebMoves DEF WebInv, Web!WebTypeOK, Web!Stages
<1>8. CASE ~request[c].summarize
  BY <1>1, <1>2, <1>3, <1>4, <1>6, <1>8, RawEntries, WebPushes
<1> QED BY <1>7, <1>8

LEMMA WebCondenses ==
    ASSUME WebBounds, WebInv, NEW c \in Calls, Web!Condense(c)
    PROVE  WebInv'
<1>1. /\ progress[c] = "condense" /\ UNCHANGED <<request, stopped, notes, deleted>>
      /\ progress[c] \notin {"idle"} \cup Web!Over
      /\ \/ Web!Push(c, Web!Entry("summary", page[c].saved))
         \/ Web!Push(c, Web!Raw(c, page[c].saved))
  BY DEF Web!Condense, Web!Over
<1>2. NotesKept
  BY <1>1, NotesAlone
<1>3. PICK u : u = Web!Url(c)
  OBVIOUS
<1>4. u \in Urls
  BY <1>1, <1>3, InHand
<1>5. page[c].saved \in BOOLEAN /\ (page[c].saved => Findable(u)')
  BY <1>1, <1>3 DEF WebInv, Reading, Web!WebTypeOK, Findable, Web!Url, Web!Current
<1>6. Web!Entry("summary", page[c].saved) \in Entries /\ Web!Entry("summary", page[c].saved).saved = page[c].saved
  BY <1>5 DEF Web!Entry, Entries
<1> QED BY <1>1, <1>2, <1>3, <1>4, <1>5, <1>6, RawEntries, WebPushes

LEMMA WebDeletes ==
    ASSUME WebBounds, WebInv, NEW u \in Urls, Web!Delete(u)
    PROVE  WebInv'
<1>1. NotesKept
  BY DEF Web!Delete, NotesKept, Findable, WebInv, Web!WebTypeOK
<1>2. \A d \in Calls : Reading(d)' /\ NamesNotes(d)' /\ (stopped'[d] => ~Web!Bounded(d)')
  BY <1>1, WebOthers DEF Web!Delete
<1> QED BY <1>1, <1>2 DEF WebInv, Web!WebTypeOK, Web!StopEndsWaits, NotesKept, Web!Delete

LEMMA WebKeeps == ASSUME WebBounds, WebInv, [Web!WebNext]_Web!webVars PROVE WebInv'
<1>1. ASSUME NEW c \in Calls, Web!Execute(c) PROVE WebInv'
  BY <1>1, WebExecutes
<1>2. ASSUME NEW c \in Calls, Web!Interrupt(c) PROVE WebInv'
  BY <1>2, WebStops
<1>3. ASSUME NEW c \in Calls, Web!Response(c) PROVE WebInv'
  BY <1>3, WebAnswers
<1>4. ASSUME NEW c \in Calls, Web!ToolStep(c) PROVE WebInv'
  BY <1>4, WebWaits, WebWrites, WebCondenses DEF Web!ToolStep
<1>5. ASSUME NEW u \in Urls, Web!Delete(u) PROVE WebInv'
  BY <1>5, WebDeletes
<1>6. CASE UNCHANGED Web!webVars
  <2>1. NotesKept /\ \A d \in Calls : Reading(d)' /\ NamesNotes(d)' /\ (stopped'[d] => ~Web!Bounded(d)')
    BY <1>6, NotesAlone, WebOthers DEF Web!webVars
  <2> QED BY <1>6, <2>1 DEF WebInv, Web!WebTypeOK, Web!StopEndsWaits, Web!webVars
<1> QED BY <1>1, <1>2, <1>3, <1>4, <1>5, <1>6 DEF Web!WebNext

-----------------------------------------------------------------------------
(* The invariant of web_extract, web_search and vision_analyze: a call     *)
(* works on the first URL it has no entry for, and holds a fetched page    *)
(* with the note that was written for it.                                  *)
THEOREM WebInvariance == ASSUME WebBounds PROVE Web!WebSpec => []WebInv
<1>1. ASSUME WebInv, [Web!WebNext]_Web!webVars PROVE WebInv'
  BY <1>1, WebKeeps
<1> QED BY <1>1, WebStarts, PTL DEF Web!WebSpec

(* The calls, the pages in hand and the notes have their types.            *)
THEOREM WebTypes == ASSUME WebBounds PROVE Web!WebSpec => []Web!WebTypeOK
<1>1. WebInv => Web!WebTypeOK
  BY DEF WebInv
<1> QED BY <1>1, WebInvariance, PTL

(* A note that web_extract sends the model to is there, or was there and   *)
(* the user deleted it: whatever calls write and delete it in between.     *)
THEOREM NamedNotesAreThere == ASSUME WebBounds PROVE Web!WebSpec => []Web!NamedIsThere
<1>1. WebInv => Web!NamedIsThere
  BY DEF WebInv, NamesNotes, Findable, Web!NamedIsThere
<1> QED BY <1>1, WebInvariance, PTL

(* Once Stop has fired, a call is not waiting for a page or a picture: not *)
(* for the one in flight, nor for any of a list that comes after it.       *)
THEOREM StopEndsEveryWait == ASSUME WebBounds PROVE Web!WebSpec => []Web!StopEndsWaits
<1>1. WebInv => Web!StopEndsWaits
  BY DEF WebInv
<1> QED BY <1>1, WebInvariance, PTL

-----------------------------------------------------------------------------
(* PdfUpload, for any number of extractions and of drops.                  *)

\* None is no number and no answer.
PdfBounds == MaxPdfs \in Nat /\ MaxDrops \in Nat /\ None \notin Nat \cup {"text", "error"}

Extraction ==
    [stage : Pdf!Stages, answer : {None, "text", "error"}, result : {None, "text", "error"},
     init : Pdf!Ids \cup {None}, worker : Pdf!Ids \cup {None}]
WorkerInit == [op : Pdf!Ids, state : {"read", "ready", "failed"}]

Begun(o) == ops[o].stage # "queued"

\* Extractions take turns: one begins when those before it are answered.
TakeTurns == \A o \in DOMAIN ops : \A p \in 1 .. o - 1 : Begun(o) => Pdf!Expired(p)

\* A start of a worker belongs to an extraction that asked for it, each to a
\* later one; as long as that one has its turn, the start is the one shared.
Starts ==
    \A i \in DOMAIN inits :
        /\ inits[i].op \in DOMAIN ops /\ i <= inits[i].op
        /\ ops[inits[i].op].stage \notin {"queued", "import"}
        /\ inits[i].state = "read" /\ ~Pdf!Expired(inits[i].op) => workerReady = i

\* The worker shared is the one whose start is shared, and that start is over.
SharedReady ==
    /\ workerReady # None => workerReady \in DOMAIN inits
    /\ sharedWorker # None => sharedWorker = workerReady /\ inits[sharedWorker].state = "ready"

\* What an extraction awaits exists; the one that holds the hook has a worker.
Awaits(o) ==
    /\ ops[o].stage = "init" => ops[o].init \in DOMAIN inits
    /\ ops[o].worker # None => /\ ops[o].worker \in DOMAIN inits
                               /\ inits[ops[o].worker].state = "ready"
    /\ ops[o].stage \in {"load", "page", "cleanup"} => ops[o].worker # None

Hooked == active # None => active \in DOMAIN ops /\ ops[active].worker # None

AtMost == Len(ops) <= MaxPdfs

PdfInv ==
    /\ Pdf!PdfTypeOK /\ AtMost /\ TakeTurns /\ Starts /\ SharedReady
    /\ \A o \in DOMAIN ops : Awaits(o)
    /\ Hooked /\ Pdf!OneWorker /\ Pdf!AbandonedIsCut

LEMMA PdfHas ==
    ASSUME PdfBounds, PdfInv
    PROVE  /\ Len(ops) \in Nat /\ DOMAIN ops = 1 .. Len(ops) /\ ops \in Seq(Extraction)
           /\ Len(inits) \in Nat /\ DOMAIN inits = 1 .. Len(inits) /\ inits \in Seq(WorkerInit)
           /\ \A o \in DOMAIN ops : ops[o] \in Extraction
           /\ \A i \in DOMAIN inits : inits[i] \in WorkerInit
           /\ None \notin live /\ None \notin DOMAIN inits /\ None \notin DOMAIN ops
           /\ \A i \in DOMAIN inits : i \in DOMAIN ops
<1>1. ops \in Seq(Extraction) /\ inits \in Seq(WorkerInit) /\ None \notin live
  <2>1. Pdf!PdfTypeOK
    BY DEF PdfInv
  <2>2. ops \in Seq(Extraction) /\ inits \in Seq(WorkerInit)
    BY <2>1 DEF Pdf!PdfTypeOK, Extraction, WorkerInit
  <2>3. live \subseteq Pdf!Ids
    BY <2>1 DEF Pdf!PdfTypeOK
  <2>4. None \notin Pdf!Ids
    BY DEF PdfBounds, Pdf!Ids
  <2> QED BY <2>2, <2>3, <2>4
<1>2. /\ Len(ops) \in Nat /\ DOMAIN ops = 1 .. Len(ops) /\ Len(inits) \in Nat
      /\ DOMAIN inits = 1 .. Len(inits)
      /\ \A o \in DOMAIN ops : ops[o] \in Extraction
      /\ \A i \in DOMAIN inits : inits[i] \in WorkerInit
  BY <1>1
<1>3. None \notin DOMAIN inits /\ None \notin DOMAIN ops
  BY <1>2 DEF PdfBounds
<1>4. \A i \in DOMAIN inits : i \in DOMAIN ops
  BY <1>2 DEF PdfInv, Starts
<1> QED BY <1>1, <1>2, <1>3, <1>4

\* An extraction becomes r.
LEMMA PdfBecomes ==
    ASSUME PdfBounds, PdfInv, NEW o \in DOMAIN ops, NEW r \in Extraction,
           ops' = [ops EXCEPT ![o] = r]
    PROVE  /\ ops' \in Seq(Extraction) /\ Len(ops') = Len(ops) /\ DOMAIN ops' = DOMAIN ops
           /\ ops'[o] = r /\ \A p \in DOMAIN ops \ {o} : ops'[p] = ops[p]
BY PdfHas

\* What is said of the starts holds on while extractions go forward only.
Forward ==
    /\ DOMAIN ops' = DOMAIN ops /\ ops' \in Seq(Extraction) /\ Len(ops') = Len(ops)
    /\ \A p \in DOMAIN ops :
         /\ Pdf!Expired(p) => Pdf!Expired(p)'
         /\ Begun(p)' => Begun(p) \/ \A q \in 1 .. p - 1 : Pdf!Expired(q)
         /\ ops[p].stage \notin {"queued", "import"} => ops'[p].stage \notin {"queued", "import"}

LEMMA TurnsKept ==
    ASSUME PdfBounds, PdfInv, Forward
    PROVE  TakeTurns' /\ AtMost'
<1>1. ASSUME NEW o \in DOMAIN ops, NEW p \in 1 .. o - 1, Begun(o)'
      PROVE  Pdf!Expired(p)'
  <2>1. p \in DOMAIN ops
    BY PdfHas
  <2>2. Pdf!Expired(p)
    BY <1>1 DEF Forward, PdfInv, TakeTurns
  <2> QED BY <2>1, <2>2 DEF Forward
<1>2. TakeTurns'
  BY <1>1 DEF TakeTurns, Forward
<1> QED BY <1>2 DEF PdfInv, Forward, AtMost

\* The worker is given up, if there is one, and its start with it.
GivenUp == sharedWorker' = None /\ workerReady' = None /\ live' = {}

\* A step of an extraction that makes no worker: it may be answered, but only
\* when it is over or holds no running worker, and it loses the hook then.
LEMMA PdfGoesOn ==
    ASSUME PdfBounds, PdfInv, NEW o \in DOMAIN ops, NEW r \in Extraction,
           ops' = [ops EXCEPT ![o] = r],
           UNCHANGED <<inits, drops>>,
           UNCHANGED <<live, workerReady, sharedWorker>>
             \/ /\ GivenUp /\ active' = None
                /\ sharedWorker # None \/ (Begun(o) /\ ~Pdf!Expired(o) /\ r.answer # None),
           active' \in {None, active},
           \/ r.answer = ops[o].answer
           \/ /\ ops[o].answer = None /\ active' = None
              /\ r.stage = "over" \/ ops[o].worker \notin live',
           r.init = ops[o].init, r.worker = ops[o].worker,
           r.stage = "queued" => ops[o].stage = "queued",
           r.stage = "import" => ops[o].stage \in {"import", "queued"},
           ops[o].stage = "queued" => r.stage = "queued" \/ \A p \in 1 .. o - 1 : Pdf!Expired(p),
           r.stage = "init" => ops[o].stage = "init",
           r.stage \in {"load", "page", "cleanup"} => ops[o].stage \in {"load", "page", "cleanup"},
           ops[o].stage = "over" => r.stage = "over"
    PROVE  PdfInv'
<1>1. /\ ops' \in Seq(Extraction) /\ DOMAIN ops' = DOMAIN ops /\ Len(ops') = Len(ops)
      /\ ops'[o] = r /\ \A p \in DOMAIN ops \ {o} : ops'[p] = ops[p]
  BY PdfBecomes
<1>2. Pdf!PdfTypeOK'
  BY <1>1 DEF PdfInv, Pdf!PdfTypeOK, Extraction, GivenUp
<1>3. Forward
  BY <1>1 DEF Forward, Pdf!Expired, Begun
<1>4. TakeTurns' /\ AtMost'
  BY <1>3, TurnsKept
<1>5. Starts'
  <2>1. CASE UNCHANGED <<live, workerReady, sharedWorker>>
    BY <1>1, <2>1 DEF PdfInv, Starts, Pdf!Expired
  <2>2. CASE GivenUp
    <3> SUFFICES ASSUME NEW i \in DOMAIN inits
                 PROVE  /\ inits[i].op \in DOMAIN ops /\ i <= inits[i].op
                        /\ ops'[inits[i].op].stage \notin {"queued", "import"}
                        /\ ~(inits[i].state = "read" /\ ~Pdf!Expired(inits[i].op)')
      BY <1>1 DEF Starts
    <3>1. /\ inits[i].op \in DOMAIN ops /\ i <= inits[i].op
          /\ ops[inits[i].op].stage \notin {"queued", "import"}
          /\ inits[i].state = "read" /\ ~Pdf!Expired(inits[i].op) => workerReady = i
      BY DEF PdfInv, Starts
    <3>2. ops'[inits[i].op].stage \notin {"queued", "import"}
      BY <1>1, <3>1
    <3>3. PICK q \in DOMAIN ops : q = inits[i].op
      BY <3>1
    <3>4. ASSUME inits[i].state = "read", ~Pdf!Expired(q)'
          PROVE  FALSE
      <4>1. ~Pdf!Expired(q)
        BY <1>3, <3>3, <3>4 DEF Forward
      <4>2. workerReady = i /\ sharedWorker = None
        BY <3>1, <3>3, <3>4, <4>1 DEF PdfInv, SharedReady
      <4>3. Begun(o) /\ ~Pdf!Expired(o) /\ r.answer # None
        <5>1. CASE UNCHANGED <<live, workerReady, sharedWorker>>
          BY <5>1, <4>2, <2>2, PdfHas DEF GivenUp
        <5> QED BY <4>2, <5>1
      <4>4. Begun(q) /\ q # o
        BY <1>1, <3>1, <3>3, <3>4, <4>3 DEF Begun, Pdf!Expired
      <4>5. q \in Int /\ o \in Int /\ q >= 1 /\ o >= 1
        BY PdfHas
      <4>6. o \in 1 .. q - 1 \/ q \in 1 .. o - 1
        BY <4>4, <4>5
      <4> QED BY <4>1, <4>3, <4>4, <4>6 DEF PdfInv, TakeTurns
    <3> QED BY <3>1, <3>2, <3>3, <3>4
  <2> QED BY <2>1, <2>2
<1>6. SharedReady' /\ Hooked'
  BY <1>1 DEF PdfInv, SharedReady, Hooked, GivenUp
<1>7. \A p \in DOMAIN ops' : Awaits(p)'
  BY <1>1 DEF PdfInv, Awaits
<1>8. Pdf!OneWorker'
  BY DEF PdfInv, Pdf!OneWorker, GivenUp
<1>9. live' \subseteq live
  BY DEF GivenUp
<1>10. Pdf!AbandonedIsCut'
  <2>1. \A p \in DOMAIN ops : Pdf!Expired(p)' /\ ops'[p].stage # "over" => ops'[p].worker \notin live'
    BY <1>1, <1>9 DEF PdfInv, Pdf!AbandonedIsCut, Pdf!Expired
  <2>2. active' # None => ~Pdf!Expired(active)' /\ ops'[active'].worker = sharedWorker'
    BY <1>1 DEF PdfInv, Pdf!AbandonedIsCut, Hooked, Pdf!Expired
  <2> QED BY <1>1, <2>1, <2>2 DEF Pdf!AbandonedIsCut
<1> QED BY <1>2, <1>4, <1>5, <1>6, <1>7, <1>8, <1>10 DEF PdfInv

-----------------------------------------------------------------------------
(* The steps.                                                              *)

LEMMA PdfStarts == ASSUME PdfBounds PROVE Pdf!PdfInit => PdfInv
BY EmptySeq DEF Pdf!PdfInit, PdfInv, Pdf!PdfTypeOK, PdfBounds, AtMost, TakeTurns, Starts, SharedReady, Awaits, Hooked,
   Pdf!OneWorker, Pdf!AbandonedIsCut

LEMMA PdfDropped ==
    ASSUME PdfBounds, PdfInv, NEW n \in 0 .. MaxPdfs, Pdf!HandleFiles(n)
    PROVE  PdfInv'
<1> DEFINE more == [i \in 1 .. n |-> Pdf!Waiting]
<1>1. n \in Nat /\ more \in Seq(Extraction) /\ Len(more) = n
  <2>1. Pdf!Waiting \in Extraction
    BY DEF Pdf!Waiting, Extraction, Pdf!Stages
  <2> QED BY <2>1 DEF PdfBounds
<1>2. /\ ops' = ops \o more /\ Len(ops) + n <= MaxPdfs
      /\ drops' = Append(drops, [from |-> Len(ops) + 1, to |-> Len(ops) + n, attached |-> FALSE])
      /\ UNCHANGED <<inits, live, workerReady, sharedWorker, active>>
  BY DEF Pdf!HandleFiles
<1>3. \A i \in 1 .. n : more[i] = Pdf!Waiting
  OBVIOUS
<1> HIDE DEF more
<1>4. /\ ops' \in Seq(Extraction) /\ Len(ops') = Len(ops) + n /\ DOMAIN ops' = 1 .. Len(ops) + n
      /\ \A o \in DOMAIN ops : ops'[o] = ops[o]
      /\ \A o \in DOMAIN ops' \ DOMAIN ops : ops'[o] = Pdf!Waiting
      /\ DOMAIN ops \subseteq DOMAIN ops'
  <2>1. Len(ops) \in Nat /\ DOMAIN ops = 1 .. Len(ops) /\ ops \in Seq(Extraction)
    BY PdfHas
  <2>2. /\ ops' \in Seq(Extraction) /\ Len(ops') = Len(ops) + n /\ DOMAIN ops' = 1 .. Len(ops) + n
        /\ \A o \in DOMAIN ops : ops'[o] = ops[o]
    <3>1. PICK m : m = more
      OBVIOUS
    <3>2. ops \o m \in Seq(Extraction) /\ Len(ops \o m) = Len(ops) + n
      BY <1>1, <2>1, <3>1
    <3>3. DOMAIN (ops \o m) = 1 .. Len(ops) + n
      BY <1>1, <2>1, <3>2
    <3>4. \A o \in DOMAIN ops : (ops \o m)[o] = ops[o]
      BY <1>1, <2>1, <3>1
    <3> QED BY <1>2, <3>1, <3>2, <3>3, <3>4
  <2>3. ASSUME NEW o \in DOMAIN ops' \ DOMAIN ops PROVE ops'[o] = Pdf!Waiting
    <3>1. o - Len(ops) \in 1 .. n /\ ops'[o] = more[o - Len(ops)]
      BY <1>1, <1>2, <2>1, <2>2
    <3> QED BY <1>3, <3>1
  <2> QED BY <2>1, <2>2, <2>3, <1>1
<1>5. Pdf!PdfTypeOK'
  <2>1. [from |-> Len(ops) + 1, to |-> Len(ops) + n, attached |-> FALSE]
          \in [from : 1 .. MaxPdfs + 1, to : 0 .. MaxPdfs, attached : BOOLEAN]
    BY <1>1, <1>2, PdfHas DEF PdfBounds
  <2> QED BY <1>2, <1>4, <2>1 DEF PdfInv, Pdf!PdfTypeOK, Extraction
<1>6. TakeTurns'
  <2> SUFFICES ASSUME NEW o \in DOMAIN ops', NEW p \in 1 .. o - 1, Begun(o)'
               PROVE  Pdf!Expired(p)'
    BY DEF TakeTurns
  <2>1. o \in DOMAIN ops
    BY <1>4 DEF Begun, Pdf!Waiting
  <2>2. p \in DOMAIN ops
    BY <2>1, PdfHas
  <2> QED BY <1>4, <2>1, <2>2 DEF PdfInv, TakeTurns, Begun, Pdf!Expired
<1>7. AtMost'
  BY <1>2, <1>4 DEF AtMost
<1>8. Starts' /\ SharedReady'
  BY <1>2, <1>4 DEF PdfInv, Starts, SharedReady, Pdf!Expired
<1>9. \A o \in DOMAIN ops' : Awaits(o)'
  BY <1>2, <1>4 DEF PdfInv, Awaits, Pdf!Waiting
<1>10. Hooked' /\ Pdf!OneWorker'
  BY <1>2, <1>4 DEF PdfInv, Hooked, Pdf!OneWorker
<1>11. Pdf!AbandonedIsCut'
  BY <1>2, <1>4 DEF PdfInv, Hooked, Pdf!AbandonedIsCut, Pdf!Expired, Pdf!Waiting
<1> QED BY <1>5, <1>6, <1>8, <1>9, <1>10, <1>11, <1>7 DEF PdfInv

LEMMA PdfAttaches ==
    ASSUME PdfBounds, PdfInv, NEW d \in DOMAIN drops, Pdf!FilesAdded(d)
    PROVE  PdfInv'
<1>1. Pdf!PdfTypeOK'
  <2> DEFINE D == [from : 1 .. MaxPdfs + 1, to : 0 .. MaxPdfs, attached : BOOLEAN]
  <2>1. drops \in Seq(D)
    BY DEF PdfInv, Pdf!PdfTypeOK
  <2> HIDE DEF D
  <2>2. drops[d] \in D
    BY <2>1
  <2> DEFINE e == [drops[d] EXCEPT !.attached = TRUE]
  <2>3. e \in D
    BY <2>2 DEF D
  <2>4. drops' = [drops EXCEPT ![d] = e]
    BY DEF Pdf!FilesAdded
  <2> HIDE DEF e
  <2>5. drops' \in Seq(D)
    BY <2>1, <2>3, <2>4
  <2> QED BY <2>5 DEF PdfInv, Pdf!PdfTypeOK, Pdf!FilesAdded, D
<1> QED BY <1>1 DEF Pdf!FilesAdded, PdfInv, AtMost, TakeTurns, Starts, SharedReady, Awaits, Hooked,
      Pdf!OneWorker, Pdf!AbandonedIsCut, Pdf!Expired, Begun

\* The waits of an extraction: for its turn, for a worker that is not there,
\* for a page, for the end of a document.
LEMMA PdfWaits ==
    ASSUME PdfBounds, PdfInv, NEW o \in DOMAIN ops, Pdf!Begin(o) \/ Pdf!Parses(o) \/ Pdf!Destroyed(o)
    PROVE  PdfInv'
<1>1. ops[o] \in Extraction
  BY PdfHas
<1>2. /\ UNCHANGED <<inits, drops>> /\ UNCHANGED <<live, workerReady, sharedWorker>>
      /\ active' = active
  BY DEF Pdf!Begin, Pdf!Parses, Pdf!Destroyed
<1>3. CASE Pdf!Begin(o)
  <2> DEFINE r == [ops[o] EXCEPT !.stage = "import"]
  <2>1. r \in Extraction /\ r.answer = ops[o].answer /\ r.stage = "import" /\ r.init = ops[o].init
        /\ r.worker = ops[o].worker
    BY <1>1 DEF Extraction, Pdf!Stages
  <2>2. ops' = [ops EXCEPT ![o] = r] /\ ops[o].stage = "queued" /\ \A p \in 1 .. o - 1 : Pdf!Expired(p)
    BY <1>3 DEF Pdf!Begin, Pdf!Expired
  <2> HIDE DEF r
  <2> QED BY <1>2, <2>1, <2>2, PdfGoesOn
<1>4. CASE Pdf!Parses(o) \/ Pdf!Destroyed(o)
  <2>1. PICK r \in Extraction :
          /\ ops' = [ops EXCEPT ![o] = r] /\ r.stage \in {"page", "cleanup"}
          /\ r.answer = ops[o].answer /\ r.init = ops[o].init /\ r.worker = ops[o].worker
    <3>1. CASE ops' = [ops EXCEPT ![o].stage = "page"]
      <4> DEFINE r == [ops[o] EXCEPT !.stage = "page"]
      <4>1. r \in Extraction /\ r.answer = ops[o].answer /\ r.stage = "page" /\ r.init = ops[o].init
            /\ r.worker = ops[o].worker
        BY <1>1 DEF Extraction, Pdf!Stages
      <4>2. ops' = [ops EXCEPT ![o] = r]
        BY <3>1
      <4> HIDE DEF r
      <4> QED BY <4>1, <4>2
    <3>2. ASSUME NEW a \in {"text", "error"},
                 ops' = [ops EXCEPT ![o].stage = "cleanup", ![o].result = a]
          PROVE  \E r \in Extraction :
                   /\ ops' = [ops EXCEPT ![o] = r] /\ r.stage \in {"page", "cleanup"}
                   /\ r.answer = ops[o].answer /\ r.init = ops[o].init /\ r.worker = ops[o].worker
      <4> DEFINE r == [ops[o] EXCEPT !.stage = "cleanup", !.result = a]
      <4>1. r \in Extraction /\ r.answer = ops[o].answer /\ r.stage = "cleanup" /\ r.init = ops[o].init
            /\ r.worker = ops[o].worker
        BY <1>1 DEF Extraction, Pdf!Stages
      <4>2. ops' = [ops EXCEPT ![o] = r]
        BY <3>2
      <4> HIDE DEF r
      <4> QED BY <4>1, <4>2
    <3> QED BY <1>4, <3>1, <3>2 DEF Pdf!Parses, Pdf!Destroyed
  <2>2. ops[o].stage \in {"load", "page"}
    BY <1>4 DEF Pdf!Parses, Pdf!Destroyed
  <2> QED BY <1>2, <2>1, <2>2, PdfGoesOn
<1> QED BY <1>3, <1>4

\* The answer an extraction gives, and the end of its code.
LEMMA PdfAnswers ==
    ASSUME PdfBounds, PdfInv, NEW o \in DOMAIN ops, NEW a \in {None, "text", "error"}
    PROVE  \E r, q \in Extraction :
             /\ r = Pdf!Answered(o, a) /\ q = [r EXCEPT !.stage = "over"]
             /\ r.stage = ops[o].stage /\ r.init = ops[o].init /\ r.worker = ops[o].worker
             /\ q.stage = "over" /\ q.init = ops[o].init /\ q.worker = ops[o].worker
             /\ r.answer = (IF Pdf!Expired(o) THEN ops[o].answer ELSE a)
             /\ q.answer = (IF Pdf!Expired(o) THEN ops[o].answer ELSE a)
<1>1. ops[o] \in Extraction
  BY PdfHas
<1> DEFINE b == IF ops[o].answer = None THEN a ELSE ops[o].answer
           r == [ops[o] EXCEPT !.answer = b]
           q == [r EXCEPT !.stage = "over"]
<1>2. b \in {None, "text", "error"}
  BY <1>1 DEF Extraction
<1>3. r = Pdf!Answered(o, a)
  BY DEF Pdf!Answered
<1>4. b = IF Pdf!Expired(o) THEN ops[o].answer ELSE a
  BY DEF Pdf!Expired
<1> HIDE DEF b
<1>5. r \in Extraction /\ r.stage = ops[o].stage /\ r.init = ops[o].init /\ r.worker = ops[o].worker
      /\ r.answer = b
  BY <1>1, <1>2 DEF Extraction
<1> HIDE DEF r
<1>6. q \in Extraction /\ q.stage = "over" /\ q.init = r.init /\ q.worker = r.worker /\ q.answer = b
  BY <1>5 DEF Extraction, Pdf!Stages
<1> QED BY <1>3, <1>4, <1>5, <1>6

LEMMA PdfThrows ==
    ASSUME PdfBounds, PdfInv, NEW o \in DOMAIN ops, ops[o].stage \notin {"queued", "over"},
           Pdf!Throws(o), UNCHANGED <<inits, live, workerReady, sharedWorker, drops>>
    PROVE  PdfInv'
<1>1. PICK r \in Extraction, q \in Extraction :
             /\ r = Pdf!Answered(o, "error") /\ q = [r EXCEPT !.stage = "over"]
             /\ r.stage = ops[o].stage /\ r.init = ops[o].init /\ r.worker = ops[o].worker
             /\ q.stage = "over" /\ q.init = ops[o].init /\ q.worker = ops[o].worker
             /\ r.answer = (IF Pdf!Expired(o) THEN ops[o].answer ELSE "error")
             /\ q.answer = (IF Pdf!Expired(o) THEN ops[o].answer ELSE "error")
  BY PdfAnswers
<1>2. ops' = [ops EXCEPT ![o] = q]
  BY <1>1 DEF Pdf!Throws
<1>3. active' = (IF Pdf!Expired(o) THEN active ELSE None)
  BY DEF Pdf!Throws, Pdf!Unhooked
<1>4. \/ q.answer = ops[o].answer
      \/ ops[o].answer = None /\ active' = None
  BY <1>1, <1>3 DEF Pdf!Expired
<1> QED BY <1>1, <1>2, <1>3, <1>4, PdfGoesOn

\* disposeSharedWorker, for a worker there is: it changes nothing, or no worker is left.
LEMMA PdfDisposes ==
    ASSUME PdfBounds, PdfInv, NEW w, w # None, Pdf!Dispose(w)
    PROVE  /\ UNCHANGED <<live, workerReady, sharedWorker>> \/ (GivenUp /\ sharedWorker = w)
           /\ w \notin live'
BY PdfHas DEF Pdf!Dispose, GivenUp, PdfInv, Pdf!OneWorker

LEMMA PdfCleans ==
    ASSUME PdfBounds, PdfInv, NEW o \in DOMAIN ops, NEW late \in BOOLEAN, Pdf!CleanedUp(o, late)
    PROVE  PdfInv'
<1>1. ops[o] \in Extraction /\ ops[o].stage = "cleanup" /\ ops[o].worker # None
      /\ UNCHANGED <<inits, drops>>
  BY PdfHas DEF Pdf!CleanedUp, PdfInv, Awaits
<1>2. PICK a \in {None, "text", "error"} : a = ops[o].result
  BY <1>1 DEF Extraction
<1>3. PICK r \in Extraction, q \in Extraction :
             /\ r = Pdf!Answered(o, a) /\ q = [r EXCEPT !.stage = "over"]
             /\ r.stage = ops[o].stage /\ r.init = ops[o].init /\ r.worker = ops[o].worker
             /\ q.stage = "over" /\ q.init = ops[o].init /\ q.worker = ops[o].worker
             /\ r.answer = (IF Pdf!Expired(o) THEN ops[o].answer ELSE a)
             /\ q.answer = (IF Pdf!Expired(o) THEN ops[o].answer ELSE a)
  BY PdfAnswers
<1>4. ops' = [ops EXCEPT ![o] = q]
  BY <1>2, <1>3 DEF Pdf!CleanedUp
<1>5. active' = (IF Pdf!Expired(o) THEN active ELSE None)
  BY DEF Pdf!CleanedUp, Pdf!Unhooked
<1>6. \/ q.answer = ops[o].answer
      \/ ops[o].answer = None /\ active' = None
  BY <1>3, <1>5 DEF Pdf!Expired
<1>7. UNCHANGED <<live, workerReady, sharedWorker>> \/ (GivenUp /\ sharedWorker = ops[o].worker)
  BY <1>1, PdfDisposes DEF Pdf!CleanedUp
<1>8. \/ UNCHANGED <<live, workerReady, sharedWorker>>
      \/ GivenUp /\ active' = None /\ sharedWorker # None
  <2> SUFFICES ASSUME GivenUp, sharedWorker = ops[o].worker
               PROVE  active' = None
    BY <1>1, <1>7
  <2>1. ~Pdf!Expired(o)
    BY <1>1 DEF PdfInv, Pdf!OneWorker, Pdf!AbandonedIsCut
  <2> QED BY <1>5, <2>1
<1> QED BY <1>1, <1>3, <1>4, <1>5, <1>6, <1>8, PdfGoesOn

LEMMA PdfExpires ==
    ASSUME PdfBounds, PdfInv, NEW o \in DOMAIN ops, Pdf!Deadline(o)
    PROVE  PdfInv'
<1>1. ops[o] \in Extraction /\ ops[o].stage # "queued" /\ ~Pdf!Expired(o) /\ active' = None
      /\ UNCHANGED <<inits, drops>>
  BY PdfHas DEF Pdf!Deadline
<1>2. PICK r \in Extraction, q \in Extraction :
             /\ r = Pdf!Answered(o, "error") /\ q = [r EXCEPT !.stage = "over"]
             /\ r.stage = ops[o].stage /\ r.init = ops[o].init /\ r.worker = ops[o].worker
             /\ q.stage = "over" /\ q.init = ops[o].init /\ q.worker = ops[o].worker
             /\ r.answer = (IF Pdf!Expired(o) THEN ops[o].answer ELSE "error")
             /\ q.answer = (IF Pdf!Expired(o) THEN ops[o].answer ELSE "error")
  BY PdfAnswers
<1>3. ops' = [ops EXCEPT ![o] = r] /\ r.answer = "error"
  BY <1>1, <1>2 DEF Pdf!Deadline
<1>4. PICK w : w = IF ops[o].worker # None THEN ops[o].worker ELSE sharedWorker
  OBVIOUS
<1>5. IF w # None THEN Pdf!Dispose(w) ELSE workerReady' = None /\ UNCHANGED <<sharedWorker, live>>
  BY <1>4 DEF Pdf!Deadline
<1>6. /\ UNCHANGED <<live, workerReady, sharedWorker>> \/ GivenUp
      /\ ops[o].worker \notin live'
  <2>1. CASE w # None
    <3>1. (UNCHANGED <<live, workerReady, sharedWorker>> \/ GivenUp) /\ w \notin live'
      BY <1>5, <2>1, PdfDisposes
    <3>2. None \notin live'
      BY <3>1, PdfHas DEF GivenUp
    <3> QED BY <1>4, <3>1, <3>2
  <2>2. CASE w = None
    <3>1. sharedWorker = None /\ live = {}
      BY <1>4, <2>2, PdfHas DEF PdfInv, Pdf!OneWorker
    <3> QED BY <1>5, <2>2, <3>1 DEF GivenUp
  <2> QED BY <2>1, <2>2
<1>7. Begun(o) /\ r.answer # None /\ ops[o].answer = None
  BY <1>1, <1>3 DEF Begun, Pdf!Expired, PdfBounds
<1> QED BY <1>1, <1>2, <1>3, <1>6, <1>7, PdfGoesOn

LEMMA PdfFails ==
    ASSUME PdfBounds, PdfInv, NEW w \in live, Pdf!WorkerFails(w)
    PROVE  PdfInv'
<1>1. w # None /\ sharedWorker = w /\ live = {w}
  BY PdfHas DEF PdfInv, Pdf!OneWorker
<1>2. GivenUp /\ active' = None /\ UNCHANGED <<inits, drops>>
  BY <1>1 DEF Pdf!WorkerFails, Pdf!Dispose, GivenUp
<1>3. CASE active = None
  <2>1. UNCHANGED ops
    BY <1>3 DEF Pdf!WorkerFails
  <2>2. Pdf!PdfTypeOK'
    BY <1>2, <2>1 DEF PdfInv, Pdf!PdfTypeOK, GivenUp
  <2>3. TakeTurns' /\ AtMost'
    BY <2>1 DEF PdfInv, AtMost, TakeTurns, Begun, Pdf!Expired
  <2>4. Starts'
    BY <1>1, <1>2, <2>1 DEF PdfInv, Starts, SharedReady, GivenUp, Pdf!Expired
  <2> QED BY <1>2, <2>1, <2>2, <2>3, <2>4 DEF PdfInv, SharedReady, Awaits, Hooked, GivenUp,
        Pdf!OneWorker, Pdf!AbandonedIsCut, Pdf!Expired
<1>4. CASE active # None
  <2>1. PICK o \in DOMAIN ops : o = active
    BY <1>4 DEF PdfInv, Hooked
  <2>2. PICK r \in Extraction, q \in Extraction :
             /\ r = Pdf!Answered(o, "error") /\ q = [r EXCEPT !.stage = "over"]
             /\ r.stage = ops[o].stage /\ r.init = ops[o].init /\ r.worker = ops[o].worker
             /\ q.stage = "over" /\ q.init = ops[o].init /\ q.worker = ops[o].worker
             /\ r.answer = (IF Pdf!Expired(o) THEN ops[o].answer ELSE "error")
             /\ q.answer = (IF Pdf!Expired(o) THEN ops[o].answer ELSE "error")
    BY PdfAnswers
  <2>3. ops' = [ops EXCEPT ![o] = r]
    BY <1>4, <2>1, <2>2 DEF Pdf!WorkerFails
  <2>4. ~Pdf!Expired(o)
    BY <1>4, <2>1 DEF PdfInv, Pdf!AbandonedIsCut
  <2>5. ops[o].answer = None /\ ops[o].worker \notin live'
    BY <1>2, <2>4 DEF Pdf!Expired, GivenUp
  <2> QED BY <1>1, <1>2, <2>2, <2>3, <2>5, PdfGoesOn
<1> QED BY <1>3, <1>4

LEMMA PdfImports ==
    ASSUME PdfBounds, PdfInv, NEW o \in DOMAIN ops, Pdf!Imported(o)
    PROVE  PdfInv'
<1>1. ops[o].stage = "import" /\ UNCHANGED <<live, sharedWorker, drops>> /\ ops[o] \in Extraction
  BY PdfHas DEF Pdf!Imported
<1>2. CASE Pdf!Expired(o)
  BY <1>1, <1>2, PdfThrows DEF Pdf!Imported
<1>3. CASE ~Pdf!Expired(o)
  <2>1. PICK k : k = IF workerReady # None THEN workerReady ELSE Len(inits) + 1
    OBVIOUS
  <2>2. /\ ops' = [ops EXCEPT ![o].stage = "init", ![o].init = k]
        /\ inits' = (IF workerReady # None THEN inits ELSE Append(inits, [op |-> o, state |-> "read"]))
        /\ workerReady' = ops'[o].init /\ active' = active
    BY <1>3, <2>1 DEF Pdf!Imported
  <2>3. o \in Pdf!Ids /\ Len(ops) <= MaxPdfs
    BY PdfHas DEF PdfInv, AtMost, PdfBounds, Pdf!Ids
  <2>4. \A i \in DOMAIN inits : inits[i].op < o
    <3> SUFFICES ASSUME NEW i \in DOMAIN inits PROVE inits[i].op < o
      OBVIOUS
    <3>1. PICK p \in DOMAIN ops : p = inits[i].op
      BY DEF PdfInv, Starts
    <3>2. ops[p].stage \notin {"queued", "import"}
      BY <3>1 DEF PdfInv, Starts
    <3>3. p \in Nat /\ o \in Nat /\ o >= 1 /\ p # o
      BY <1>1, <3>2, PdfHas
    <3>4. o \notin 1 .. p - 1
      BY <1>3, <3>2 DEF PdfInv, TakeTurns, Begun
    <3> QED BY <3>1, <3>3, <3>4
  <2>5. k \in Pdf!Ids
    <3>1. CASE workerReady # None
      BY <2>1, <3>1 DEF PdfInv, Pdf!PdfTypeOK
    <3>2. CASE workerReady = None
      <4>1. CASE Len(inits) = 0
        BY <2>1, <2>3, <3>2, <4>1 DEF Pdf!Ids, PdfBounds
      <4>2. CASE Len(inits) # 0
        <5>1. Len(inits) \in DOMAIN inits /\ Len(inits) \in Nat
          BY <4>2, PdfHas
        <5>2. inits[Len(inits)].op < o /\ Len(inits) <= inits[Len(inits)].op
              /\ inits[Len(inits)].op \in DOMAIN ops
          BY <2>4, <5>1 DEF PdfInv, Starts
        <5>3. inits[Len(inits)].op \in Nat
          BY <5>2, PdfHas
        <5> QED BY <2>1, <2>3, <3>2, <5>1, <5>2, <5>3 DEF Pdf!Ids, PdfBounds
      <4> QED BY <4>1, <4>2
    <3> QED BY <3>1, <3>2
  <2> DEFINE r == [ops[o] EXCEPT !.stage = "init", !.init = k]
  <2>6. r \in Extraction /\ r.stage = "init" /\ r.init = k /\ r.answer = ops[o].answer
        /\ r.worker = ops[o].worker
    BY <1>1, <2>5 DEF Extraction, Pdf!Stages
  <2>7. ops' = [ops EXCEPT ![o] = r]
    BY <2>2
  <2> HIDE DEF r
  <2>8. /\ ops' \in Seq(Extraction) /\ DOMAIN ops' = DOMAIN ops /\ Len(ops') = Len(ops)
        /\ ops'[o] = r /\ \A p \in DOMAIN ops \ {o} : ops'[p] = ops[p]
    BY <2>6, <2>7, PdfBecomes
  <2>9. workerReady' = k /\ k # None
    BY <2>2, <2>5, <2>6, <2>8 DEF Pdf!Ids, PdfBounds
  <2>10. Forward /\ TakeTurns' /\ AtMost'
    <3>1. Forward
      BY <1>1, <2>6, <2>8 DEF Forward, Pdf!Expired, Begun
    <3> QED BY <3>1, TurnsKept
  <2>11. /\ inits' \in Seq(WorkerInit) /\ k \in DOMAIN inits' /\ DOMAIN inits \subseteq DOMAIN inits'
         /\ \A i \in DOMAIN inits : inits'[i] = inits[i]
         /\ \A i \in DOMAIN inits' \ DOMAIN inits :
              workerReady = None /\ i = k /\ i <= o /\ inits'[i] = [op |-> o, state |-> "read"]
    <3>1. CASE workerReady # None
      BY <2>1, <2>2, <3>1, PdfHas DEF PdfInv, SharedReady
    <3>2. CASE workerReady = None
      <4>1. [op |-> o, state |-> "read"] \in WorkerInit
        BY <2>3 DEF WorkerInit
      <4>2. inits' = Append(inits, [op |-> o, state |-> "read"]) /\ k = Len(inits) + 1
        BY <2>1, <2>2, <3>2
      <4>3. k <= o
        <5>1. CASE Len(inits) = 0
          BY <4>2, <5>1, PdfHas
        <5>2. CASE Len(inits) # 0
          <6>1. Len(inits) \in DOMAIN inits /\ Len(inits) \in Nat
            BY <5>2, PdfHas
          <6>2. inits[Len(inits)].op < o /\ Len(inits) <= inits[Len(inits)].op
                /\ inits[Len(inits)].op \in DOMAIN ops
            BY <2>4, <6>1 DEF PdfInv, Starts
          <6>3. inits[Len(inits)].op \in Nat /\ o \in Nat
            BY <6>2, PdfHas
          <6> QED BY <4>2, <6>1, <6>2, <6>3
        <5> QED BY <5>1, <5>2
      <4>4. inits \in Seq(WorkerInit) /\ Len(inits) \in Nat /\ DOMAIN inits = 1 .. Len(inits)
        BY PdfHas
      <4>5. inits' \in Seq(WorkerInit) /\ DOMAIN inits' = 1 .. Len(inits) + 1
            /\ inits'[Len(inits) + 1] = [op |-> o, state |-> "read"]
            /\ \A i \in 1 .. Len(inits) : inits'[i] = inits[i]
        BY <4>1, <4>2, <4>4
      <4> QED BY <3>2, <4>2, <4>3, <4>4, <4>5
    <3> QED BY <3>1, <3>2
  <2>12. Pdf!PdfTypeOK'
    BY <1>1, <2>2, <2>5, <2>8, <2>9, <2>11 DEF PdfInv, Pdf!PdfTypeOK, Extraction, WorkerInit
  <2>13. Starts'
    <3>1. ASSUME NEW i \in DOMAIN inits
          PROVE  /\ inits'[i].op \in DOMAIN ops' /\ i <= inits'[i].op
                 /\ ops'[inits'[i].op].stage \notin {"queued", "import"}
                 /\ inits'[i].state = "read" /\ ~Pdf!Expired(inits[i].op)' => workerReady' = i
      <4>1. /\ inits[i].op \in DOMAIN ops /\ i <= inits[i].op /\ inits'[i] = inits[i]
            /\ ops[inits[i].op].stage \notin {"queued", "import"}
            /\ inits[i].state = "read" /\ ~Pdf!Expired(inits[i].op) => workerReady = i
        BY <2>11 DEF PdfInv, Starts
      <4>2. inits[i].op # o /\ ops'[inits[i].op] = ops[inits[i].op]
        BY <1>1, <2>8, <4>1
      <4>3. Pdf!Expired(inits[i].op)' <=> Pdf!Expired(inits[i].op)
        BY <2>11, <4>2 DEF Pdf!Expired
      <4>4. workerReady = i => workerReady' = i
        BY <2>1, <2>9, PdfHas
      <4> QED BY <2>8, <4>1, <4>2, <4>3, <4>4
    <3>2. ASSUME NEW i \in DOMAIN inits' \ DOMAIN inits
          PROVE  /\ inits'[i].op \in DOMAIN ops' /\ i <= inits'[i].op
                 /\ ops'[inits'[i].op].stage \notin {"queued", "import"}
                 /\ workerReady' = i
      BY <2>6, <2>8, <2>9, <2>11
    <3>3. \A i \in DOMAIN inits : inits'[i] = inits[i]
      BY <2>11
    <3> QED BY <3>1, <3>2, <3>3 DEF Starts, Pdf!Expired
  <2>14. SharedReady'
    <3>1. sharedWorker # None => workerReady # None /\ k = workerReady
      BY <2>1 DEF PdfInv, SharedReady
    <3> QED BY <1>1, <2>9, <2>11, <3>1 DEF PdfInv, SharedReady
  <2>15. \A p \in DOMAIN ops' : Awaits(p)'
    BY <2>6, <2>8, <2>11 DEF PdfInv, Awaits
  <2>16. Hooked' /\ Pdf!OneWorker'
    BY <1>1, <2>2, <2>6, <2>8 DEF PdfInv, Hooked, Pdf!OneWorker
  <2>17. Pdf!AbandonedIsCut'
    BY <1>1, <1>3, <2>2, <2>6, <2>8 DEF PdfInv, Hooked, Pdf!AbandonedIsCut, Pdf!Expired
  <2> QED BY <2>10, <2>12, <2>13, <2>14, <2>15, <2>16, <2>17 DEF PdfInv
<1> QED BY <1>2, <1>3

LEMMA PdfAwaited ==
    ASSUME PdfBounds, PdfInv, NEW o \in DOMAIN ops, Pdf!WorkerAwaited(o)
    PROVE  PdfInv'
<1>1. ops[o].stage = "init" /\ ops[o] \in Extraction
      /\ UNCHANGED <<inits, live, workerReady, sharedWorker, drops>>
  BY PdfHas DEF Pdf!WorkerAwaited
<1>2. CASE Pdf!Throws(o)
  BY <1>1, <1>2, PdfThrows
<1>3. CASE ~Pdf!Throws(o)
  <2>1. /\ ~Pdf!Expired(o) /\ sharedWorker # None /\ active' = o
        /\ ops' = [ops EXCEPT ![o].stage = "load", ![o].worker = sharedWorker]
    BY <1>3 DEF Pdf!WorkerAwaited
  <2> DEFINE r == [ops[o] EXCEPT !.stage = "load", !.worker = sharedWorker]
  <2>2. r \in Extraction /\ r.stage = "load" /\ r.init = ops[o].init /\ r.answer = ops[o].answer
        /\ r.worker = sharedWorker
    BY <1>1 DEF Extraction, Pdf!Stages, PdfInv, Pdf!PdfTypeOK
  <2>3. ops' = [ops EXCEPT ![o] = r]
    BY <2>1
  <2> HIDE DEF r
  <2>4. /\ ops' \in Seq(Extraction) /\ DOMAIN ops' = DOMAIN ops /\ Len(ops') = Len(ops)
        /\ ops'[o] = r /\ \A p \in DOMAIN ops \ {o} : ops'[p] = ops[p]
    BY <2>2, <2>3, PdfBecomes
  <2>5. Forward /\ TakeTurns' /\ AtMost'
    <3>1. Forward
      BY <1>1, <2>2, <2>4 DEF Forward, Pdf!Expired, Begun
    <3> QED BY <3>1, TurnsKept
  <2>6. o \in Pdf!Ids
    BY PdfHas DEF PdfInv, AtMost, PdfBounds, Pdf!Ids
  <2>7. Pdf!PdfTypeOK'
    BY <1>1, <2>1, <2>4, <2>6 DEF PdfInv, Pdf!PdfTypeOK, Extraction
  <2>8. Starts' /\ SharedReady'
    BY <1>1, <2>2, <2>4 DEF PdfInv, Starts, SharedReady, Pdf!Expired
  <2>9. \A p \in DOMAIN ops' : Awaits(p)'
    BY <1>1, <2>1, <2>2, <2>4 DEF PdfInv, Awaits, SharedReady
  <2>10. Hooked' /\ Pdf!OneWorker'
    BY <1>1, <2>1, <2>2, <2>4 DEF PdfInv, Hooked, Pdf!OneWorker
  <2>11. Pdf!AbandonedIsCut'
    BY <1>1, <2>1, <2>2, <2>4 DEF PdfInv, Pdf!AbandonedIsCut, Pdf!Expired
  <2> QED BY <2>5, <2>7, <2>8, <2>9, <2>10, <2>11 DEF PdfInv
<1> QED BY <1>2, <1>3

LEMMA PdfReads ==
    ASSUME PdfBounds, PdfInv, NEW i \in DOMAIN inits, NEW good \in BOOLEAN, Pdf!WorkerRead(i, good)
    PROVE  PdfInv'
<1>1. /\ inits[i].state = "read" /\ inits[i] \in WorkerInit /\ inits \in Seq(WorkerInit) /\ i # None
      /\ UNCHANGED <<ops, active, drops>>
  BY PdfHas DEF Pdf!WorkerRead
<1>2. PICK s \in {"ready", "failed"} :
        /\ inits' = [inits EXCEPT ![i].state = s]
        /\ IF s = "ready"
           THEN /\ ~Pdf!Expired(inits[i].op) /\ live' = live \cup {i} /\ sharedWorker' = i
                /\ UNCHANGED workerReady
           ELSE /\ workerReady' = (IF workerReady = i THEN None ELSE workerReady)
                /\ UNCHANGED <<live, sharedWorker>>
  BY DEF Pdf!WorkerRead
<1> DEFINE m == [inits[i] EXCEPT !.state = s]
<1>3. m \in WorkerInit /\ m.state = s /\ m.op = inits[i].op
  BY <1>1 DEF WorkerInit
<1>4. inits' = [inits EXCEPT ![i] = m]
  BY <1>2
<1> HIDE DEF m
<1>5. /\ inits' \in Seq(WorkerInit) /\ DOMAIN inits' = DOMAIN inits /\ inits'[i] = m
      /\ \A j \in DOMAIN inits \ {i} : inits'[j] = inits[j]
  BY <1>1, <1>3, <1>4
<1>6. \A o \in DOMAIN ops : ops[o].worker # i
  BY <1>1 DEF PdfInv, Awaits
<1>7. sharedWorker # i
  BY <1>1 DEF PdfInv, SharedReady
<1>8. s = "ready" => sharedWorker = None /\ live = {} /\ workerReady = i /\ active = None
  <2> SUFFICES ASSUME s = "ready"
               PROVE  sharedWorker = None /\ live = {} /\ workerReady = i /\ active = None
    OBVIOUS
  <2>1. workerReady = i
    BY <1>1, <1>2 DEF PdfInv, Starts
  <2>2. sharedWorker = None
    BY <1>7, <2>1 DEF PdfInv, SharedReady
  <2>3. live = {}
    BY <2>2, PdfHas DEF PdfInv, Pdf!OneWorker
  <2>4. active = None
    BY <2>2 DEF PdfInv, Hooked, Pdf!AbandonedIsCut
  <2> QED BY <2>1, <2>2, <2>3, <2>4
<1>9. i \in Pdf!Ids
  BY PdfHas DEF PdfInv, AtMost, PdfBounds, Pdf!Ids
<1>10. Pdf!PdfTypeOK' /\ AtMost'
  <2>1. live' \subseteq Pdf!Ids /\ {workerReady', sharedWorker', active'} \subseteq Pdf!Ids \cup {None}
    BY <1>1, <1>2, <1>9 DEF PdfInv, Pdf!PdfTypeOK
  <2> QED BY <1>1, <1>5, <2>1 DEF PdfInv, Pdf!PdfTypeOK, WorkerInit, AtMost
<1>11. TakeTurns'
  BY <1>1 DEF PdfInv, TakeTurns, Begun, Pdf!Expired
<1>12. Starts'
  <2> SUFFICES ASSUME NEW j \in DOMAIN inits
               PROVE  /\ inits'[j].op \in DOMAIN ops /\ j <= inits'[j].op
                      /\ ops[inits'[j].op].stage \notin {"queued", "import"}
                      /\ inits'[j].state = "read" /\ ~Pdf!Expired(inits'[j].op) => workerReady' = j
    BY <1>1, <1>5 DEF Starts, Pdf!Expired
  <2>1. /\ inits[j].op \in DOMAIN ops /\ j <= inits[j].op
        /\ ops[inits[j].op].stage \notin {"queued", "import"}
        /\ inits[j].state = "read" /\ ~Pdf!Expired(inits[j].op) => workerReady = j
    BY DEF PdfInv, Starts
  <2>2. CASE j = i
    BY <1>2, <1>3, <1>5, <2>1, <2>2
  <2>3. CASE j # i
    <3>1. workerReady = j => workerReady' = j
      BY <1>2, <2>3
    <3> QED BY <1>5, <2>1, <2>3, <3>1
  <2> QED BY <2>2, <2>3
<1>13. SharedReady'
  <2>1. CASE s = "ready"
    BY <1>1, <1>2, <1>3, <1>5, <1>8, <2>1 DEF SharedReady
  <2>2. CASE s = "failed"
    BY <1>2, <1>5, <1>7, <2>2 DEF PdfInv, SharedReady
  <2> QED BY <2>1, <2>2
<1>14. \A o \in DOMAIN ops' : Awaits(o)'
  BY <1>1, <1>5, <1>6 DEF PdfInv, Awaits
<1>15. Hooked' /\ Pdf!OneWorker'
  BY <1>1, <1>2, <1>8 DEF PdfInv, Hooked, Pdf!OneWorker
<1>16. Pdf!AbandonedIsCut'
  BY <1>1, <1>2, <1>6, <1>8 DEF PdfInv, Pdf!AbandonedIsCut, Pdf!Expired
<1> QED BY <1>10, <1>11, <1>12, <1>13, <1>14, <1>15, <1>16 DEF PdfInv

LEMMA PdfKeeps == ASSUME PdfBounds, PdfInv, [Pdf!PdfNext]_Pdf!pdfVars PROVE PdfInv'
<1>1. ASSUME NEW n \in 0 .. MaxPdfs, Pdf!HandleFiles(n) PROVE PdfInv'
  BY <1>1, PdfDropped
<1>2. ASSUME NEW d \in DOMAIN drops, Pdf!FilesAdded(d) PROVE PdfInv'
  BY <1>2, PdfAttaches
<1>3. ASSUME NEW o \in DOMAIN ops,
             \/ Pdf!Begin(o) \/ Pdf!Imported(o) \/ Pdf!WorkerAwaited(o) \/ Pdf!Parses(o)
             \/ Pdf!Destroyed(o) \/ Pdf!Deadline(o) \/ \E late \in BOOLEAN : Pdf!CleanedUp(o, late)
      PROVE  PdfInv'
  BY <1>3, PdfWaits, PdfImports, PdfAwaited, PdfExpires, PdfCleans
<1>4. ASSUME NEW i \in DOMAIN inits, NEW good \in BOOLEAN, Pdf!WorkerRead(i, good) PROVE PdfInv'
  BY <1>4, PdfReads
<1>5. ASSUME NEW w \in live, Pdf!WorkerFails(w) PROVE PdfInv'
  BY <1>5, PdfFails
<1>6. CASE UNCHANGED Pdf!pdfVars
  BY <1>6 DEF Pdf!pdfVars, PdfInv, Pdf!PdfTypeOK, AtMost, TakeTurns, Starts, SharedReady, Awaits, Hooked,
     Pdf!OneWorker, Pdf!AbandonedIsCut, Pdf!Expired, Begun
<1> QED BY <1>1, <1>2, <1>3, <1>4, <1>5, <1>6 DEF Pdf!PdfNext

-----------------------------------------------------------------------------
(* The invariant of the uploads: extractions take turns, the one that has  *)
(* its turn is the one whose start of a worker is shared, and the worker   *)
(* shared is the one that start made.                                      *)
THEOREM PdfInvariance == ASSUME PdfBounds PROVE Pdf!PdfInit /\ [][Pdf!PdfNext]_Pdf!pdfVars => []PdfInv
<1>1. ASSUME PdfInv, [Pdf!PdfNext]_Pdf!pdfVars PROVE PdfInv'
  BY <1>1, PdfKeeps
<1> QED BY <1>1, PdfStarts, PTL

(* The extractions, the starts of a worker and the drops have their types. *)
THEOREM PdfTypes == ASSUME PdfBounds PROVE Pdf!PdfInit /\ [][Pdf!PdfNext]_Pdf!pdfVars => []Pdf!PdfTypeOK
<1>1. PdfInv => Pdf!PdfTypeOK
  BY DEF PdfInv
<1> QED BY <1>1, PdfInvariance, PTL

(* There is never a second browser worker, nor one that nobody terminates: *)
(* whatever deadlines fire while a worker is being read or a document is   *)
(* being destroyed.                                                        *)
THEOREM NeverTwoWorkers == ASSUME PdfBounds PROVE Pdf!PdfInit /\ [][Pdf!PdfNext]_Pdf!pdfVars => []Pdf!OneWorker
<1>1. PdfInv => Pdf!OneWorker
  BY DEF PdfInv
<1> QED BY <1>1, PdfInvariance, PTL

(* An extraction that was abandoned holds no running worker, so what is    *)
(* left of it cannot end the document of its successor; and an error of    *)
(* the worker is given to the extraction whose turn it is, or to none.     *)
THEOREM AbandonedHoldNone ==
    ASSUME PdfBounds PROVE Pdf!PdfInit /\ [][Pdf!PdfNext]_Pdf!pdfVars => []Pdf!AbandonedIsCut
<1>1. PdfInv => Pdf!AbandonedIsCut
  BY DEF PdfInv
<1> QED BY <1>1, PdfInvariance, PTL

-----------------------------------------------------------------------------
(* Completions, for any number of lines, of completions and of lookups.    *)

\* While a stream is read the caller was shown what came; a buffered request
\* starts with nothing shown, and only a callback shows something.
ShownSoFar ==
    /\ came = "stream" => shown = got /\ (~emitted => shown = Compl!Nothing)
    /\ came = "buffered" => shown = Compl!Nothing

ComplInv == Compl!ComplTypeOK /\ ShownSoFar /\ Compl!ShownIsAnswer

LEMMA AmountsMade ==
    ASSUME NEW a \in Nat, NEW b \in Nat, NEW c \in Nat
    PROVE  [text |-> a, thought |-> b, tool |-> c] \in Compl!Amounts
<1> DEFINE r == [text |-> a, thought |-> b, tool |-> c]
<1>1. DOMAIN r = Compl!Deltas
  BY DEF Compl!Deltas
<1>2. r["text"] = a /\ r["thought"] = b /\ r["tool"] = c
  OBVIOUS
<1>3. r = [x \in DOMAIN r |-> r[x]]
  OBVIOUS
<1> HIDE DEF r
<1> QED BY <1>1, <1>2, <1>3 DEF Compl!Amounts, Compl!Deltas, r

LEMMA ComplStarts == Compl!ComplInit => ComplInv
<1> SUFFICES ASSUME Compl!ComplInit PROVE ComplInv
  OBVIOUS
<1>1. Compl!Nothing \in Compl!Amounts /\ <<>> \in Seq(Compl!Lines)
  BY AmountsMade, EmptySeq DEF Compl!Nothing
<1>2. got \in Compl!Amounts /\ shown \in Compl!Amounts /\ pending \in Seq(Compl!Lines)
  BY <1>1 DEF Compl!ComplInit
<1>3. flags \in [malformed : BOOLEAN, done : BOOLEAN] /\ {streaming, half, emitted, halted} \subseteq BOOLEAN
  BY DEF Compl!ComplInit, Compl!Clear
<1>4. Compl!ComplTypeOK
  BY <1>2, <1>3 DEF Compl!ComplInit, Compl!ComplTypeOK
<1> QED BY <1>4 DEF Compl!ComplInit, ComplInv, ShownSoFar, Compl!ShownIsAnswer

\* The end of a stream that failed, whatever was shown of it.
LEMMA ComplFallsBack ==
    ASSUME ComplInv, came = "stream", Compl!FallBack
    PROVE  /\ came' \in {"aborted", "buffered"} /\ shown' \in Compl!Amounts
           /\ came' = "buffered" => shown' = Compl!Nothing
<1>1. shown \in Compl!Amounts /\ Compl!Nothing \in Compl!Amounts
  BY DEF ComplInv, Compl!ComplTypeOK, Compl!Amounts, Compl!Nothing, Compl!Deltas
<1> QED BY <1>1 DEF ComplInv, ShownSoFar, Compl!FallBack

\* The answer a stream that was read to its end gives, or what replaces it.
LEMMA ComplEnds ==
    ASSUME ComplInv, came = "stream", NEW f, Compl!Complete(f)
    PROVE  /\ came' \in {"aborted", "buffered", "answer"}
           /\ got' \in Compl!Amounts /\ shown' \in Compl!Amounts /\ emitted' \in BOOLEAN
           /\ came' = "buffered" => shown' = Compl!Nothing
           /\ Compl!ShownIsAnswer'
<1>1. got \in Compl!Amounts /\ shown = got /\ emitted \in BOOLEAN
  BY DEF ComplInv, Compl!ComplTypeOK, ShownSoFar
<1>2. CASE Compl!FallBack /\ UNCHANGED <<got, emitted>>
  BY <1>1, <1>2, ComplFallsBack DEF Compl!ShownIsAnswer
<1>3. CASE /\ came' = "answer" /\ got.text = 0
           /\ got' = [got EXCEPT !.text = got.thought]
           /\ shown' = [shown EXCEPT !.text = @ + got.thought] /\ emitted' = TRUE
  <2>1. got.thought \in Nat /\ got.text + got.thought = got.thought
    BY <1>1, <1>3 DEF Compl!Amounts, Compl!Deltas
  <2>2. shown' = got'
    BY <1>1, <1>3, <2>1
  <2>3. got' \in Compl!Amounts
    BY <1>1, <1>3, <2>1 DEF Compl!Amounts, Compl!Deltas
  <2> QED BY <1>3, <2>2, <2>3 DEF Compl!ShownIsAnswer
<1>4. CASE came' = "answer" /\ UNCHANGED <<got, shown, emitted>>
  BY <1>1, <1>4 DEF Compl!ShownIsAnswer
<1> QED BY <1>2, <1>3, <1>4 DEF Compl!Complete

LEMMA ComplLines ==
    ASSUME ComplInv, Compl!HandleLine
    PROVE  ComplInv'
<1>1. /\ came = "stream" /\ pending \in Seq(Compl!Lines) /\ pending # <<>> /\ half \in BOOLEAN
      /\ UNCHANGED <<streaming, halted, seen, completions, vision, window, lookup>>
  BY DEF Compl!HandleLine, Compl!Readable, ComplInv, Compl!ComplTypeOK, Compl!cacheVars
<1>2. PICK l : l = Head(pending)
  OBVIOUS
<1>3. l \in Compl!Lines /\ Tail(pending) \in Seq(Compl!Lines) /\ <<>> \in Seq(Compl!Lines)
  BY <1>1, <1>2
<1>4. pending' \in Seq(Compl!Lines) /\ half' \in BOOLEAN
  BY <1>1, <1>3 DEF Compl!HandleLine
<1>5. /\ got \in Compl!Amounts /\ shown = got /\ emitted \in BOOLEAN
      /\ flags \in [malformed : BOOLEAN, done : BOOLEAN]
  BY <1>1 DEF ComplInv, Compl!ComplTypeOK, ShownSoFar
<1>6. /\ flags' \in [malformed : BOOLEAN, done : BOOLEAN]
      /\ came' \in {"stream", "http", "aborted", "buffered", "answer"}
      /\ got' \in Compl!Amounts /\ shown' \in Compl!Amounts /\ emitted' \in BOOLEAN
      /\ ShownSoFar' /\ Compl!ShownIsAnswer'
  <2>1. CASE l \in Compl!Deltas
    <3>1. Compl!Emit(l)
      BY <1>2, <2>1 DEF Compl!HandleLine, Compl!Deltas
    <3>2. got[l] \in Nat
      BY <1>5, <2>1 DEF Compl!Amounts
    <3>3. got' \in Compl!Amounts /\ shown' = got' /\ emitted' = TRUE /\ came' = "stream" /\ flags' = flags
      BY <1>1, <1>5, <2>1, <3>1, <3>2 DEF Compl!Emit, Compl!Amounts
    <3> QED BY <1>5, <3>3 DEF ShownSoFar, Compl!ShownIsAnswer
  <2>2. CASE l = "done"
    <3>1. flags' = [flags EXCEPT !.done = TRUE] /\ Compl!Complete(flags)
      BY <1>2, <2>2 DEF Compl!HandleLine, Compl!Deltas
    <3>2. flags' \in [malformed : BOOLEAN, done : BOOLEAN]
      BY <1>5, <3>1
    <3>3. /\ came' \in {"aborted", "buffered", "answer"}
          /\ got' \in Compl!Amounts /\ shown' \in Compl!Amounts /\ emitted' \in BOOLEAN
          /\ came' = "buffered" => shown' = Compl!Nothing
          /\ Compl!ShownIsAnswer'
      BY <1>1, <3>1, ComplEnds
    <3> QED BY <3>2, <3>3 DEF ShownSoFar
  <2>3. CASE l = "error"
    <3>1. came' = "http" /\ UNCHANGED <<got, flags, shown, emitted>>
      BY <1>2, <2>3 DEF Compl!HandleLine, Compl!Deltas
    <3> QED BY <1>5, <3>1 DEF ShownSoFar, Compl!ShownIsAnswer
  <2>4. CASE l \notin Compl!Deltas \cup {"done", "error"}
    <3>1. UNCHANGED <<came, got, shown, emitted>>
          /\ flags' \in {flags, [flags EXCEPT !.malformed = TRUE]}
      BY <1>2, <2>4 DEF Compl!HandleLine
    <3>2. flags' \in [malformed : BOOLEAN, done : BOOLEAN]
      BY <1>5, <3>1
    <3> QED BY <1>1, <1>5, <3>1, <3>2 DEF ComplInv, ShownSoFar, Compl!ShownIsAnswer
  <2> QED BY <2>1, <2>2, <2>3, <2>4
<1> QED BY <1>1, <1>4, <1>6 DEF ComplInv, Compl!ComplTypeOK, Compl!Ends

LEMMA ComplBodyEnds ==
    ASSUME ComplInv, Compl!EndOfBody
    PROVE  ComplInv'
<1>1. /\ came = "stream" /\ pending' = <<>> /\ half' = FALSE
      /\ UNCHANGED <<streaming, halted, seen, completions, vision, window, lookup>>
  BY DEF Compl!EndOfBody, Compl!cacheVars
<1>2. flags \in [malformed : BOOLEAN, done : BOOLEAN] /\ half \in BOOLEAN
  BY DEF ComplInv, Compl!ComplTypeOK
<1>3. PICK f : f = [flags EXCEPT !.malformed = @ \/ half]
  OBVIOUS
<1>4. flags' = f /\ Compl!Complete(f)
  BY <1>3 DEF Compl!EndOfBody
<1>5. f \in [malformed : BOOLEAN, done : BOOLEAN]
  <2>1. (flags.malformed \/ half) \in BOOLEAN
    OBVIOUS
  <2> QED BY <1>2, <1>3, <2>1
<1>6. /\ came' \in {"aborted", "buffered", "answer"}
      /\ got' \in Compl!Amounts /\ shown' \in Compl!Amounts /\ emitted' \in BOOLEAN
      /\ came' = "buffered" => shown' = Compl!Nothing
      /\ Compl!ShownIsAnswer'
  BY <1>1, <1>4, ComplEnds
<1>7. <<>> \in Seq(Compl!Lines)
  BY EmptySeq
<1> QED BY <1>1, <1>4, <1>5, <1>6, <1>7 DEF ComplInv, Compl!ComplTypeOK, ShownSoFar, Compl!Ends

LEMMA ComplBuffers ==
    ASSUME ComplInv, NEW e \in {"answer", "http", "timeout", "transport"},
           NEW text \in 0 .. 1, NEW thought \in 0 .. 1, NEW tool \in 0 .. 1,
           Compl!Buffered(e, text, thought, tool)
    PROVE  ComplInv'
<1>1. /\ came = "buffered" /\ came' = e /\ shown = Compl!Nothing /\ emitted \in BOOLEAN
      /\ UNCHANGED <<streaming, pending, half, flags, halted, seen, completions, vision, window, lookup>>
  BY DEF Compl!Buffered, ComplInv, ShownSoFar, Compl!ComplTypeOK, Compl!cacheVars
<1>2. CASE e = "answer"
  <2>1. PICK t \in Nat : t = IF text = 0 THEN thought ELSE text
    OBVIOUS
  <2>2. /\ got' = [text |-> t, thought |-> thought, tool |-> tool]
        /\ shown' = [shown EXCEPT !.text = @ + t, !.thought = @ + thought]
        /\ emitted' = (emitted \/ t + thought > 0)
    BY <1>2, <2>1 DEF Compl!Buffered
  <2>3. shown' = [text |-> t, thought |-> thought, tool |-> 0]
    <3>1. shown = [text |-> 0, thought |-> 0, tool |-> 0]
      BY <1>1 DEF Compl!Nothing
    <3>2. 0 + t = t /\ 0 + thought = thought
      BY <2>1
    <3>3. shown' = [shown EXCEPT !.text = 0 + t, !.thought = 0 + thought]
      BY <2>2, <3>1
    <3> QED BY <3>1, <3>2, <3>3
  <2>4. got' \in Compl!Amounts /\ shown' \in Compl!Amounts
    <3>1. t \in Nat /\ thought \in Nat /\ tool \in Nat /\ 0 \in Nat
      BY <2>1
    <3>2. got' = [text |-> t, thought |-> thought, tool |-> tool]
      BY <2>2
    <3>3. [text |-> t, thought |-> thought, tool |-> tool] \in Compl!Amounts
      BY <3>1, AmountsMade
    <3>4. [text |-> t, thought |-> thought, tool |-> 0] \in Compl!Amounts
      BY <3>1, AmountsMade
    <3> QED BY <2>3, <3>2, <3>3, <3>4
  <2>5. emitted' \in BOOLEAN
    BY <2>2
  <2>6. Compl!ShownIsAnswer'
    <3>1. got'.text = t /\ got'.thought = thought /\ shown'.text = t /\ shown'.thought = thought /\ shown'.tool = 0
      <4>1. got' = [text |-> t, thought |-> thought, tool |-> tool]
        BY <2>2
      <4> QED BY <2>3, <4>1
    <3> QED BY <3>1 DEF Compl!ShownIsAnswer
  <2> QED BY <1>1, <1>2, <2>4, <2>5, <2>6 DEF ComplInv, Compl!ComplTypeOK, ShownSoFar, Compl!Ends
<1>3. CASE e # "answer"
  <2>1. UNCHANGED <<got, shown, emitted>>
    BY <1>3 DEF Compl!Buffered
  <2> QED BY <1>1, <1>3, <2>1 DEF ComplInv, Compl!ComplTypeOK, ShownSoFar, Compl!Ends, Compl!ShownIsAnswer
<1> QED BY <1>2, <1>3

LEMMA ComplFails ==
    ASSUME ComplInv, NEW e \in {"http", "timeout", "transport"}, Compl!StreamFails(e)
    PROVE  ComplInv'
<1>1. /\ came = "stream" /\ pending' = <<>> /\ half' = FALSE
      /\ UNCHANGED <<streaming, got, flags, emitted, halted, seen, completions, vision, window, lookup>>
  BY DEF Compl!StreamFails, Compl!cacheVars
<1>2. /\ came' \in {"aborted", "buffered", "http", "timeout"} /\ shown' \in Compl!Amounts
      /\ came' = "buffered" => shown' = Compl!Nothing
  <2>1. CASE e = "transport"
    BY <1>1, <2>1, ComplFallsBack DEF Compl!StreamFails
  <2>2. CASE e # "transport"
    BY <2>2 DEF Compl!StreamFails, ComplInv, Compl!ComplTypeOK
  <2> QED BY <2>1, <2>2
<1>3. <<>> \in Seq(Compl!Lines)
  BY EmptySeq
<1> QED BY <1>1, <1>2, <1>3 DEF ComplInv, Compl!ComplTypeOK, ShownSoFar, Compl!Ends, Compl!ShownIsAnswer

LEMMA ComplRests ==
    ASSUME ComplInv,
           Compl!Begin \/ Compl!Stop \/ Compl!Rest
             \/ \E l \in Compl!Lines, split \in BOOLEAN : Compl!Chunk(l, split)
    PROVE  ComplInv'
<1>1. CASE Compl!Begin
  <2>1. <<>> \in Seq(Compl!Lines) /\ Compl!Nothing \in Compl!Amounts
    BY EmptySeq DEF Compl!Nothing, Compl!Amounts, Compl!Deltas
  <2> QED BY <1>1, <2>1 DEF Compl!Begin, Compl!cacheVars, ComplInv, Compl!ComplTypeOK, ShownSoFar,
        Compl!ShownIsAnswer, Compl!Clear
<1>2. CASE Compl!Stop
  BY <1>2 DEF Compl!Stop, Compl!cacheVars, ComplInv, Compl!ComplTypeOK, ShownSoFar,
        Compl!ShownIsAnswer, Compl!Ends
<1>3. CASE Compl!Rest
  BY <1>3 DEF Compl!Rest, Compl!cacheVars, ComplInv, Compl!ComplTypeOK, ShownSoFar,
        Compl!ShownIsAnswer
<1>4. ASSUME NEW l \in Compl!Lines, NEW split \in BOOLEAN, Compl!Chunk(l, split)
      PROVE  ComplInv'
  <2>1. pending' \in Seq(Compl!Lines)
    BY <1>4 DEF Compl!Chunk, ComplInv, Compl!ComplTypeOK
  <2> QED BY <1>4, <2>1 DEF Compl!Chunk, Compl!cacheVars, ComplInv, Compl!ComplTypeOK, ShownSoFar,
        Compl!ShownIsAnswer
<1> QED BY <1>1, <1>2, <1>3, <1>4

LEMMA ComplLooks ==
    ASSUME ComplInv, Compl!CacheNext
    PROVE  ComplInv'
<1>1. UNCHANGED Compl!streamVars
  BY DEF Compl!CacheNext, Compl!Reject, Compl!LookUp, Compl!AskWindow, Compl!Asks, Compl!Answered,
     Compl!Known, Compl!Unadvertised, Compl!Sized
<1>2. /\ vision' \in BOOLEAN \cup {None} /\ window' \in {None, "known", "null"}
      /\ lookup' \in [Lookups -> {None, "vision", "advertised", "native"}]
  <2>1. /\ vision \in BOOLEAN \cup {None} /\ window \in {None, "known", "null"}
        /\ lookup \in [Lookups -> {None, "vision", "advertised", "native"}]
    BY DEF ComplInv, Compl!ComplTypeOK
  <2> QED BY <2>1 DEF Compl!CacheNext, Compl!Reject, Compl!LookUp, Compl!AskWindow, Compl!Asks,
        Compl!Answered, Compl!Known, Compl!Unadvertised, Compl!Sized
<1> QED BY <1>1, <1>2 DEF Compl!streamVars, ComplInv, Compl!ComplTypeOK, ShownSoFar, Compl!ShownIsAnswer

LEMMA ComplKeeps == ASSUME ComplInv, [Compl!ComplNext]_Compl!complVars PROVE ComplInv'
<1>1. CASE Compl!StreamNext
  BY <1>1, ComplLines, ComplBodyEnds, ComplBuffers, ComplFails, ComplRests
     DEF Compl!StreamNext, Compl!StreamStep
<1>2. CASE Compl!CacheNext
  BY <1>2, ComplLooks
<1>3. CASE UNCHANGED Compl!complVars
  BY <1>3 DEF Compl!complVars, Compl!streamVars, Compl!cacheVars, ComplInv, Compl!ComplTypeOK,
     ShownSoFar, Compl!ShownIsAnswer
<1> QED BY <1>1, <1>2, <1>3 DEF Compl!ComplNext

-----------------------------------------------------------------------------
(* The invariant of a completion: while a stream is read the caller was    *)
(* shown what came of it, and before a buffered request it was taken back. *)
THEOREM ComplInvariance == Compl!ComplSpec => []ComplInv
<1>1. Compl!ComplInit => ComplInv
  BY ComplStarts
<1>2. ComplInv /\ [Compl!ComplNext]_Compl!complVars => ComplInv'
  BY ComplKeeps
<1> QED BY <1>1, <1>2, PTL DEF Compl!ComplSpec

(* The completion, its stream and the caches have their types.             *)
THEOREM ComplTypes == Compl!ComplSpec => []Compl!ComplTypeOK
<1>1. ComplInv => Compl!ComplTypeOK
  BY DEF ComplInv
<1> QED BY <1>1, ComplInvariance, PTL

(* The answer of a completion is what its caller was shown: nothing of a   *)
(* stream that broke is left before the answer that replaced it, wherever  *)
(* the chunks were cut and whenever it was stopped.                        *)
THEOREM AnswerIsShown == Compl!ComplSpec => []Compl!ShownIsAnswer
<1>1. ComplInv => Compl!ShownIsAnswer
  BY DEF ComplInv
<1> QED BY <1>1, ComplInvariance, PTL

===============================================================================
