----------------------------- MODULE McpServers -----------------------------
(***************************************************************************)
(* The MCP runtime (agent/mcp): runs list the tools of the configured       *)
(* servers and call them.  A listing connects a server that is not          *)
(* registered under its configuration, and registers it after the handshake *)
(* of two requests; nothing keeps two runs from connecting one server.      *)
(* A request waits for the answer with its id or for its timer.  stdio      *)
(* servers answer in any order, exit or break; HTTP servers are sent one    *)
(* request at a time.                                                       *)
(***************************************************************************)
EXTENDS Naturals, Sequences, FiniteSets, SequencesExt

CONSTANTS
    Servers,     \* configured server names
    Runs,        \* agent runs
    Keys,        \* configurations of a server
    HttpKeys,    \* those with an HTTP transport
    None,        \* no client
    MaxClients,  \* bound: clients ever connected
    MaxListings, \* bound: listings of a run
    MaxRequests, \* bound: requests of a run
    MaxEdits     \* bound: changes of the configuration

Clients == 1 .. MaxClients
Waiting == {"initialize", "list", "call"}
Stages  == {"idle", "secrets", "ready"} \cup Waiting

VARIABLES
    config,    \* the configuration of each server
    enabled,   \* MCP is enabled and consented to
    registry,  \* McpRuntime.servers
    client,    \* every client connected so far
    mrun,      \* the runs
    disposed,  \* the plugin was unloaded
    edits

mcpVars == <<config, enabled, registry, client, mrun, disposed, edits>>

\* n numbers the requests of a run; the notification after the handshake is
\* number 0 and nobody waits for it.
Request == [by : Runs, n : Nat]

\* wire: what was sent and not answered.  An HTTP client posts its head only.
Client == [server : Servers, key : Keys, proc : {"up", "gone"}, open : BOOLEAN,
           dead : BOOLEAN, wire : Seq(Request)]

MRun == [stage : Stages, server : Servers, todo : SUBSET Servers, key : Keys,
         client : Clients \cup {None}, n : Nat, listings : 0 .. MaxListings]

Fresh == [stage |-> "idle", server |-> CHOOSE s \in Servers : TRUE, todo |-> {},
          key |-> CHOOSE k \in Keys : TRUE, client |-> None, n |-> 0, listings |-> 0]

McpInit ==
    /\ config = [s \in Servers |-> CHOOSE k \in Keys : TRUE]
    /\ enabled = TRUE
    /\ registry = [s \in Servers |-> None]
    /\ client = <<>>
    /\ mrun = [r \in Runs |-> Fresh]
    /\ disposed = FALSE /\ edits = 0

-----------------------------------------------------------------------------
(* A client: pending requests, close, failure.                             *)

Http(c) == client[c].key \in HttpKeys

\* Checked as: Waits leads to ~Waits.
WaitsOn(r, c) == mrun[r].stage \in Waiting /\ mrun[r].client = c

\* The next server of a listing, or the end of it.
Onward(m) ==
    IF m.todo = {} THEN [m EXCEPT !.stage = "ready", !.client = None]
    ELSE LET s == CHOOSE t \in m.todo : TRUE IN
         [m EXCEPT !.stage = "secrets", !.server = s, !.todo = @ \ {s}, !.client = None]

\* A rejected request: a handshake skips the server, a call ends.
Rejected(m) == IF m.stage = "call" THEN [m EXCEPT !.stage = "ready", !.client = None]
               ELSE Onward(m)

\* failAll: everyone who waits on the client is rejected at once.
FailAll(c) == [r \in Runs |-> IF WaitsOn(r, c) THEN Rejected(mrun[r]) ELSE mrun[r]]

\* A killed process answers nothing, and a closed chain posts nothing more.
Closed(cl) == [cl EXCEPT !.open = FALSE, !.dead = TRUE, !.proc = "gone", !.wire = <<>>]

\* A line for a process that is gone is dropped.
SentTo(cl, reqs) == IF cl.proc = "gone" THEN cl ELSE [cl EXCEPT !.wire = @ \o reqs]

-----------------------------------------------------------------------------
(* Listing and connecting.                                                 *)

\* listTools: nothing without the switch and the consent.
ListTools(r) ==
    /\ mrun[r].stage \in {"idle", "ready"} /\ mrun[r].listings < MaxListings
    /\ enabled /\ ~disposed
    /\ mrun' = [mrun EXCEPT ![r] =
         Onward([mrun[r] EXCEPT !.todo = Servers, !.listings = mrun[r].listings + 1])]
    /\ UNCHANGED <<config, enabled, registry, client, disposed, edits>>

\* configKey: the name, transport and launch data, and the secrets by name.
Current(s) == IF registry[s] = None THEN FALSE ELSE client[registry[s]].key = config[s]

\* ensureServer after the secrets were read: a server that is registered under
\* this configuration is used, whether it still answers or not.
Reuse(r) ==
    LET s == mrun[r].server IN
    /\ mrun[r].stage = "secrets" /\ Current(s)
    /\ mrun' = [mrun EXCEPT ![r] = Onward(@)]
    /\ UNCHANGED <<config, enabled, registry, client, disposed, edits>>

\* Otherwise the registered one is closed and a new client starts; a process
\* that cannot be spawned, or a configuration that names none, is skipped.
Connect(r, ok) ==
    LET s    == mrun[r].server
        old  == registry[s]
        kept == IF old = None THEN client ELSE [client EXCEPT ![old] = Closed(@)]
        rest == IF old = None THEN mrun ELSE FailAll(old)
        c    == Len(client) + 1 IN
    /\ mrun[r].stage = "secrets" /\ c \in Clients
    /\ ~Current(s)
    /\ registry' = [registry EXCEPT ![s] = None]
    /\ IF ok
       THEN /\ client' = Append(kept, [server |-> s, key |-> config[s], proc |-> "up", open |-> TRUE,
                    dead |-> FALSE, wire |-> <<[by |-> r, n |-> mrun[r].n + 1]>>])
            /\ mrun' = [rest EXCEPT ![r] = [mrun[r] EXCEPT !.stage = "initialize", !.client = c,
                                                           !.key = config[s], !.n = mrun[r].n + 1]]
       ELSE client' = kept /\ mrun' = [rest EXCEPT ![r] = Onward(@)]
    /\ UNCHANGED <<config, enabled, disposed, edits>>

-----------------------------------------------------------------------------
(* Requests.                                                               *)

\* callTool on the server that is registered now.  On a dead client the call
\* is rejected at once; a broken pipe rejects those who waited before, and
\* this call waits for its timer.
Call(r, s, broken) ==
    LET c == registry[s] IN
    /\ mrun[r].stage = "ready" /\ c # None /\ ~disposed /\ ~client[c].dead
    /\ mrun[r].n < MaxRequests
    /\ broken => ~Http(c) /\ client[c].proc = "up"
    /\ mrun' = [(IF broken THEN FailAll(c) ELSE mrun) EXCEPT ![r] =
         [mrun[r] EXCEPT !.stage = "call", !.client = c, !.n = mrun[r].n + 1]]
    /\ client' = [client EXCEPT ![c] =
         IF broken THEN [client[c] EXCEPT !.dead = TRUE]
         ELSE SentTo(client[c], <<[by |-> r, n |-> mrun[r].n + 1]>>)]
    /\ UNCHANGED <<config, enabled, registry, disposed, edits>>

\* What a run does with its answer.  After a handshake the server is
\* registered, over another one that a second run connected meanwhile.
Settled(r, c, ok) ==
    LET m == mrun[r] IN
    CASE m.stage = "initialize" /\ ok ->
           /\ mrun' = [mrun EXCEPT ![r] = [m EXCEPT !.stage = "list", !.n = m.n + 1]]
           /\ registry' = registry
      [] m.stage = "list" /\ ok ->
           /\ mrun' = [mrun EXCEPT ![r] = Onward(m)]
           /\ registry' = [registry EXCEPT ![m.server] = c]
      [] OTHER -> mrun' = [mrun EXCEPT ![r] = Rejected(m)] /\ registry' = registry

\* The client after the answer: it goes on with the handshake, or a failed
\* handshake (no tools is one) closes it.
AfterAnswer(r, c, ok, cl) ==
    CASE mrun[r].stage = "initialize" /\ ok ->
           SentTo(cl, <<[by |-> r, n |-> 0], [by |-> r, n |-> mrun[r].n + 1]>>)
      [] mrun[r].stage \in {"initialize", "list"} /\ ~ok -> Closed(cl)
      [] OTHER -> cl

\* HttpTransport chains its posts: one is under way, and what fails there is an
\* error answer to its request.
NextOut(c, i) == Http(c) => i = 1

\* A line with an id: its request settles if it still waits.  A closed client
\* feeds nothing.
Answer(c, i, ok) ==
    LET q  == client[c].wire[i]
        cl == [client[c] EXCEPT !.wire = RemoveAt(@, i)] IN
    /\ NextOut(c, i)
    /\ IF client[c].open /\ WaitsOn(q.by, c) /\ mrun[q.by].n = q.n
       THEN /\ Settled(q.by, c, ok)
            /\ client' = [client EXCEPT ![c] = AfterAnswer(q.by, c, ok, cl)]
       ELSE client' = [client EXCEPT ![c] = cl] /\ UNCHANGED <<mrun, registry>>
    /\ UNCHANGED <<config, enabled, disposed, edits>>

\* Mutant: only the requests of the handshake have a timer.
TimeoutHandshake(r) ==
    /\ mrun[r].stage \in Waiting \ {"call"}
    /\ mrun' = [mrun EXCEPT ![r] = Rejected(@)]
    /\ client' = [client EXCEPT ![mrun[r].client] = Closed(@)]
    /\ UNCHANGED <<config, enabled, registry, disposed, edits>>

\* The timer of a request; what was sent stays on its way.
Timeout(r) ==
    LET c == mrun[r].client IN
    /\ mrun[r].stage \in Waiting
    /\ mrun' = [mrun EXCEPT ![r] = Rejected(@)]
    /\ client' = [client EXCEPT ![c] = IF mrun[r].stage = "call" THEN @ ELSE Closed(@)]
    /\ UNCHANGED <<config, enabled, registry, disposed, edits>>

\* The process exits: nobody is told.  Or it reports an error: everyone is.
ProcessEnds(c, error) ==
    /\ ~Http(c) /\ client[c].proc = "up"
    /\ client' = [client EXCEPT ![c] =
         IF error /\ \E r \in Runs : WaitsOn(r, c) /\ mrun[r].stage # "call"
         THEN Closed(@)
         ELSE [client[c] EXCEPT !.proc = "gone", !.wire = <<>>, !.dead = client[c].dead \/ error]]
    /\ mrun' = IF error THEN FailAll(c) ELSE mrun
    /\ UNCHANGED <<config, enabled, registry, disposed, edits>>

-----------------------------------------------------------------------------
(* The settings and the plugin.                                            *)

Edit(s, k) ==
    /\ edits < MaxEdits /\ edits' = edits + 1
    /\ config[s] # k /\ config' = [config EXCEPT ![s] = k]
    /\ UNCHANGED <<enabled, registry, client, mrun, disposed>>

\* Switching MCP off stops listings, not servers.
Switch ==
    /\ edits < MaxEdits /\ edits' = edits + 1
    /\ enabled' = ~enabled
    /\ UNCHANGED <<config, registry, client, mrun, disposed>>

\* dispose closes the registered servers, not those in a handshake.
Dispose ==
    LET held == {registry[s] : s \in Servers} \ {None} IN
    /\ ~disposed /\ disposed' = TRUE
    /\ client' = [c \in DOMAIN client |-> IF c \in held THEN Closed(client[c]) ELSE client[c]]
    /\ mrun' = [r \in Runs |-> IF \E c \in held : WaitsOn(r, c) THEN Rejected(mrun[r]) ELSE mrun[r]]
    /\ registry' = [s \in Servers |-> None]
    /\ UNCHANGED <<config, enabled, edits>>

RunEnds(r) ==
    /\ mrun[r].stage = "ready"
    /\ mrun' = [mrun EXCEPT ![r].stage = "idle"]
    /\ UNCHANGED <<config, enabled, registry, client, disposed, edits>>

-----------------------------------------------------------------------------
Ensure(r) == Reuse(r) \/ \E ok \in BOOLEAN : Connect(r, ok)

McpNext ==
    \/ \E r \in Runs : \/ ListTools(r) \/ Ensure(r) \/ Timeout(r) \/ RunEnds(r)
                       \/ \E s \in Servers, broken \in BOOLEAN : Call(r, s, broken)
    \/ \E c \in DOMAIN client :
         \/ \E i \in DOMAIN client[c].wire, ok \in BOOLEAN : Answer(c, i, ok)
         \/ \E error \in BOOLEAN : ProcessEnds(c, error)
    \/ \E s \in Servers, k \in Keys : Edit(s, k)
    \/ Switch \/ Dispose

\* Timers fire, and the code after an await goes on.
McpSpec == McpInit /\ [][McpNext]_mcpVars
           /\ \A r \in Runs : WF_mcpVars(Timeout(r)) /\ WF_mcpVars(Ensure(r))

-----------------------------------------------------------------------------
McpTypeOK ==
    /\ config \in [Servers -> Keys] /\ enabled \in BOOLEAN /\ disposed \in BOOLEAN
    /\ registry \in [Servers -> Clients \cup {None}]
    /\ client \in Seq(Client) /\ Len(client) <= MaxClients
    /\ mrun \in [Runs -> MRun] /\ edits \in 0 .. MaxEdits

\* However listings, edits, exits and an unload overlap, a registered server is
\* one whose handshake ended and whose client nobody closed, and a request
\* waits only on a client that is open: a close rejects all who wait on it.
McpServed ==
    /\ \A s \in Servers : registry[s] # None =>
         /\ client[registry[s]].open /\ client[registry[s]].server = s
         /\ \A r \in Runs : WaitsOn(r, registry[s]) => mrun[r].stage = "call"
    /\ \A r \in Runs : mrun[r].stage \in Waiting => client[mrun[r].client].open

\* Every request settles, also when its server exited without a word.
Waits(r) == mrun[r].stage \in Waiting

=============================================================================
