--------------------------- MODULE ConsoleServer ---------------------------
(***************************************************************************)
(* The console's backend (console/server.ts): requests that share a cache   *)
(* of connections, one per branch, and the replication URLs once read.      *)
(* Between any two awaits another request may run, a tunnel may die, a      *)
(* clone may be made anew by someone else, the client may hang up or the    *)
(* console may be stopped.                                                  *)
(*                                                                          *)
(* The branch Live is served from the sync target, read-only, where a       *)
(* subscriber URL is configured.  A clone is named by its serial number, 0  *)
(* for none; so is a tunnel.                                                *)
(***************************************************************************)
EXTENDS Naturals

CONSTANTS
  Branches,
  Live,            \* LIVE_BRANCH
  Actors,          \* requests, and ticks of the alert loop
  Stream,          \* the sync target, as what a connection reaches
  NoConn,
  Unset,           \* no URLs read yet
  MaxTunnels,      \* bound: tunnels opened for branches and URLs
  MaxClones        \* bound: clones made

ASSUME ConsoleConstantsOK ==
  /\ Live \in Branches
  /\ Stream \notin Nat
  /\ NoConn \notin [to : Nat \cup {Stream}, tunnel : Nat, via : Nat]
  /\ {MaxTunnels, MaxClones} \subseteq Nat

VARIABLES
  streaming,       \* a subscriber URL is configured, on the engine's host
  canTunnel,       \* a platform session, not a direct one
  clone,           \* the engine: each branch's clone
  made,            \* the engine: clones made so far
  conns,           \* the connections of the cache
  urls,            \* replicationUrls
  alive,           \* the session's tunnels that run
  opened,          \* tunnels opened so far
  streamTunnels,   \* those opened for the URLs
  strays,          \* history: those opened after the end for nobody who waited
  phase,           \* "up", "closing", "stopping" or "closed"
  job,             \* what each actor does
  missed,          \* history: a read of the URLs failed
  crowded          \* history: branches whose clone changed behind the cache

world    == <<streaming, canTunnel>>
engine   == <<clone, made>>
cache    == <<conns, urls>>
tally    == <<opened, streamTunnels, strays>>
tunnels  == <<alive, tally>>
history  == <<missed, crowded>>
vars     == <<world, engine, cache, tunnels, phase, job, history>>

\* at is the await it is at; kind is what the request is for; got the clone it
\* has looked up, or the tunnel it is closing; waited whether a client's socket
\* is open for the answer.
Idle ==
  [at |-> "idle", kind |-> "none", branch |-> Live, got |-> 0, waited |-> FALSE]

Init ==
  /\ streaming \in BOOLEAN
  /\ canTunnel \in BOOLEAN
  /\ clone = [b \in Branches |-> 1]
  /\ made = 1
  /\ conns = [b \in Branches |-> NoConn]
  /\ urls = Unset
  /\ alive = {}
  /\ opened = 0
  /\ streamTunnels = {}
  /\ strays = {}
  /\ phase = "up"
  /\ job = [a \in Actors |-> Idle]
  /\ missed = FALSE
  /\ crowded = {}

Goto(a, label) == job' = [job EXCEPT ![a].at = label]
Done(a)        == job' = [job EXCEPT ![a] = Idle]

Starts(a, waited, label, kind, b, got) ==
  /\ job[a] = Idle
  /\ job' = [job EXCEPT ![a] = [at |-> label, kind |-> kind, branch |-> b,
                               got |-> got, waited |-> waited]]

\* What a connection reaches, the tunnel it owns, and the one it goes through:
\* a connection to the stream does not own its tunnel.
Conn(reaches, owned, through) ==
  [to |-> reaches, tunnel |-> owned, via |-> through]

\* Requests come in as long as a socket is open.
Serving == phase # "closed"

OpensTunnel(a) ==
  /\ opened < MaxTunnels
  /\ opened' = opened + 1
  /\ alive' = alive \cup {opened'}
  /\ strays' = IF Serving \/ job[a].waited THEN strays ELSE strays \cup {opened'}

-----------------------------------------------------------------------------
(***************************************************************************)
(* resolveReplication and connectionFor.                                    *)
(***************************************************************************)
ToStream(a, known) ==
  /\ conns' = [conns EXCEPT ![Live] = Conn(Stream, 0, known.tunnel)]
  /\ Done(a)

\* The URLs are known to a: a query of Live gets its connection or, without a
\* stream, goes to the clone of that name; other requests are answered.
Resolved(a, known) ==
  /\ urls' = known
  /\ IF job[a].kind # "query" THEN Done(a) /\ UNCHANGED conns
     ELSE IF known.subscriber THEN ToStream(a, known)
     ELSE Goto(a, "lookup") /\ UNCHANGED conns

NoStream == [subscriber |-> FALSE, tunnel |-> 0]

\* The subscriber URL is read; a read that fails is taken for its absence.
ReadUrl(a) ==
  /\ job[a].at = "readUrl"
  /\ \/ /\ streaming /\ canTunnel
        /\ Goto(a, "forwardUrl")
        /\ UNCHANGED <<cache, missed>>
     \/ /\ ~(streaming /\ canTunnel)
        /\ Resolved(a, [subscriber |-> streaming, tunnel |-> 0])
        /\ UNCHANGED missed
     \/ /\ streaming
        /\ missed' = TRUE
        /\ Resolved(a, NoStream)
  /\ UNCHANGED <<world, engine, tunnels, phase, crowded>>

\* The sync target's port is forwarded; without the host's name or a tunnel the
\* URL is dialled as it stands.  Any read, tunnel and clone may fail.
ForwardUrl(a) ==
  /\ job[a].at = "forwardUrl"
  /\ \/ /\ OpensTunnel(a)
        /\ streamTunnels' = streamTunnels \cup {opened'}
        /\ Resolved(a, [subscriber |-> TRUE, tunnel |-> opened'])
     \/ /\ Resolved(a, [subscriber |-> TRUE, tunnel |-> 0])
        /\ UNCHANGED tunnels
  /\ UNCHANGED <<world, engine, phase, missed, crowded>>

\* A bug: the cache is set before the URLs are read, so that nobody reads them
\* twice.
LookupOnce(a) ==
  /\ urls = Unset
  /\ Starts(a, Serving, "readUrl", "urls", Live, 0)
  /\ urls' = NoStream
  /\ UNCHANGED <<world, engine, conns, tunnels, phase, history>>

\* An alert tick, or a request for the context, the replication, the checkup or
\* the drift, wants the URLs.  Nobody waits for a tick, nor for a request
\* whose client hung up at an earlier await: these come even after the end.
LookupUrls(a) ==
  /\ urls = Unset
  /\ Starts(a, Serving, "readUrl", "urls", Live, 0)
  /\ UNCHANGED <<world, engine, cache, tunnels, phase, history>>

\* query, tables and perf want a connection, the cache has none: down to the
\* first await.  What runs on the connection changes nothing here.
Query(a, b) ==
  /\ Serving /\ job[a] = Idle
  /\ conns[b] = NoConn
  /\ IF b = Live /\ urls = Unset THEN Starts(a, TRUE, "readUrl", "query", b, 0) /\ UNCHANGED conns
     ELSE IF b = Live /\ urls.subscriber THEN ToStream(a, urls)
     ELSE Starts(a, TRUE, "lookup", "query", b, 0) /\ UNCHANGED conns
  /\ UNCHANGED <<world, engine, urls, tunnels, phase, history>>

\* getBranchClone.
FindClone(a) ==
  /\ job[a].at = "lookup"
  /\ LET b == job[a].branch IN
     \/ clone[b] = 0 /\ Done(a) /\ UNCHANGED conns
     \/ /\ clone[b] # 0 /\ canTunnel
        /\ job' = [job EXCEPT ![a].at = "forward", ![a].got = clone[b]]
        /\ UNCHANGED conns
     \/ /\ clone[b] # 0 /\ ~canTunnel
        /\ conns' = [conns EXCEPT ![b] = Conn(clone[b], 0, 0)]
        /\ Done(a)
  /\ UNCHANGED <<world, engine, urls, tunnels, phase, history>>

\* The clone's port is forwarded, and the connection takes the place of one
\* that was cached meanwhile.
Forward(a) ==
  /\ job[a].at = "forward"
  /\ \/ /\ OpensTunnel(a)
        /\ conns' = [conns EXCEPT
                       ![job[a].branch] = Conn(job[a].got, opened', opened')]
        /\ Done(a)
     \/ /\ Done(a)
        /\ UNCHANGED <<conns, alive, opened, strays>>
  /\ UNCHANGED <<world, engine, urls, streamTunnels, phase, missed, crowded>>

-----------------------------------------------------------------------------
(***************************************************************************)
(* reset and delete, with dropConnection.                                   *)
(***************************************************************************)
LookedUp(b) == \E a \in Actors : job[a].at = "forward" /\ job[a].branch = b

\* A bug: the connection stays in the cache.
ChangeKeepingEntry(a, b) ==
  /\ Serving
  /\ Starts(a, TRUE, "take", "change", b, 0)
  /\ crowded' = IF LookedUp(b) THEN crowded ELSE crowded \ {b}
  /\ UNCHANGED <<world, engine, cache, tunnels, phase, missed>>

\* A reset or a delete, the same down to the workflow.  The connection leaves the
\* cache at once; its pool and its tunnel end.
Change(a, b) ==
  /\ Serving
  /\ IF conns[b] = NoConn THEN Starts(a, TRUE, "take", "change", b, 0)
     ELSE Starts(a, TRUE, "drain", "change", b, conns[b].tunnel)
  /\ conns' = [conns EXCEPT ![b] = NoConn]
  /\ crowded' = IF LookedUp(b) THEN crowded ELSE crowded \ {b}
  /\ UNCHANGED <<world, engine, urls, tunnels, phase, missed>>

Drain(a) ==
  /\ job[a].at = "drain"
  /\ alive' = alive \ {job[a].got}
  /\ job' = [job EXCEPT ![a].at = "take", ![a].got = 0]
  /\ UNCHANGED <<world, engine, cache, tally, phase, history>>

\* b's clone goes while the cache holds, or is about to hold, a way to it.
Crowds(b) ==
  crowded' = IF conns[b] # NoConn \/ LookedUp(b) THEN crowded \cup {b} ELSE crowded

\* The workflow deletes the clone, and a reset of one that is there makes another.
Take(a) ==
  /\ job[a].at = "take"
  /\ LET b == job[a].branch IN
     /\ clone' = [clone EXCEPT ![b] = 0]
     /\ Crowds(b)
     /\ \/ clone[b] # 0 /\ Goto(a, "remake")
        \/ Done(a)
  /\ UNCHANGED <<world, made, cache, tunnels, phase, missed>>

\* The engine has no two clones of one name; it may also fail to make one.
Remake(a) ==
  /\ job[a].at = "remake"
  /\ LET b == job[a].branch IN
     \/ /\ clone[b] = 0
        /\ made < MaxClones
        /\ made' = made + 1
        /\ clone' = [clone EXCEPT ![b] = made']
     \/ UNCHANGED engine
  /\ Done(a)
  /\ UNCHANGED <<world, cache, tunnels, phase, missed, crowded>>

\* Another client, or a POST to /api/branches, changes a branch's clone.
Elsewhere(b) ==
  /\ made < MaxClones
  /\ made' = made + 1
  /\ clone' = [clone EXCEPT ![b] = made']
  /\ Crowds(b)
  /\ UNCHANGED <<world, cache, tunnels, phase, job, missed>>

-----------------------------------------------------------------------------
(***************************************************************************)
(* Tunnels that end, and the end of the console.                            *)
(***************************************************************************)
\* A bug: the exit of a tunnel drops the branch's connection, whatever tunnel
\* that has by now.
DiesTakingAny(t) ==
  /\ t \in alive
  /\ t \notin streamTunnels
  /\ alive' = alive \ {t}
  /\ \E b \in Branches \ {Live} :
       conns' = [x \in Branches |->
                   IF x = b \/ (conns[x] # NoConn /\ conns[x].tunnel = t)
                   THEN NoConn ELSE conns[x]]
  /\ UNCHANGED <<world, engine, urls, tally, phase, job, history>>

\* A bug: nobody listens for the end of a branch's tunnel.
DiesUnheard(t) ==
  /\ t \in alive
  /\ alive' = alive \ {t}
  /\ UNCHANGED <<world, engine, cache, tally, phase, job, history>>

\* A tunnel ends by itself.  A branch's takes its own connection along; one for
\* the URLs takes the URLs, and the connection of Live with its tunnel, even if
\* others have been read since.
Dies(t) ==
  /\ t \in alive
  /\ IF t \in streamTunnels
     THEN /\ urls' = Unset
          /\ conns' = [conns EXCEPT ![Live] = NoConn]
          /\ alive' = alive \ ({t} \cup {c.tunnel : c \in {conns[Live]} \ {NoConn}})
     ELSE /\ conns' = [b \in Branches |->
                         IF conns[b] # NoConn /\ conns[b].tunnel = t
                         THEN NoConn ELSE conns[b]]
          /\ alive' = alive \ {t}
          /\ UNCHANGED urls
  /\ UNCHANGED <<world, engine, tally, phase, job, history>>

\* A client closes its socket: the handler runs on, and nobody waits for it.
\* Only the stop looks at the sockets, so that a client who leaves earlier, and
\* an alert tick's, which there never was, is taken to leave then.
HangUp(a) ==
  /\ phase = "stopping"
  /\ job[a].waited
  /\ job' = [job EXCEPT ![a].waited = FALSE]
  /\ UNCHANGED <<world, engine, cache, tunnels, phase, history>>

\* close(): pools and tunnels end while requests still come in, then the cache
\* is emptied, then the sockets that are open are waited for.
Close ==
  /\ phase = "up"
  /\ phase' = "closing"
  /\ alive' = alive \ {c.tunnel : c \in {conns[b] : b \in Branches} \ {NoConn}}
  /\ UNCHANGED <<world, engine, cache, tally, job, history>>

Clear ==
  /\ phase = "closing"
  /\ phase' = "stopping"
  /\ conns' = [b \in Branches |-> NoConn]
  /\ UNCHANGED <<world, engine, urls, tunnels, job, history>>

\* A bug: the session is closed without waiting for the sockets.
CloseSessionAtOnce ==
  /\ phase = "stopping"
  /\ phase' = "closed"
  /\ alive' = {}
  /\ UNCHANGED <<world, engine, cache, tally, job, history>>

\* server.close calls back when no socket is open; session.close() then ends
\* every tunnel there is.
CloseSession ==
  /\ phase = "stopping"
  /\ \A a \in Actors : ~job[a].waited
  /\ phase' = "closed"
  /\ alive' = {}
  /\ UNCHANGED <<world, engine, cache, tally, job, history>>

Step(a) ==
  \/ ReadUrl(a) \/ ForwardUrl(a) \/ FindClone(a) \/ Forward(a)
  \/ Drain(a) \/ Take(a) \/ Remake(a)

Next ==
  \/ Close \/ Clear \/ CloseSession
  \/ \E a \in Actors : LookupUrls(a) \/ Step(a) \/ HangUp(a)
  \/ \E a \in Actors, b \in Branches : Query(a, b) \/ Change(a, b)
  \/ \E b \in Branches : Elsewhere(b)
  \/ \E t \in alive : Dies(t)

Spec == Init /\ [][Next]_vars

-----------------------------------------------------------------------------
(***************************************************************************)
(* Properties.                                                              *)
(***************************************************************************)
Runs(t) == t = 0 \/ t \in alive

\* What the cache holds can be dialled: the tunnel of every cached connection,
\* and of the cached URLs, runs, however lookups and exits of tunnels fall
\* (server.ts:279-291, 678-690).
CachedIsDialable ==
  phase = "up" =>
    /\ \A b \in Branches : conns[b] # NoConn => Runs(conns[b].via)
    /\ urls # Unset => Runs(urls.tunnel)

Dropped(b) == \E a \in Actors : /\ job[a] = Idle
                                /\ job'[a].kind = "change"
                                /\ job'[a].branch = b

\* The exit of any tunnel of the URLs takes Live's entry along.
UrlTunnelEnds == \E t \in streamTunnels : t \in alive \ alive'

LeavesRightly(b) ==
  conns[b] # NoConn /\ conns'[b] = NoConn =>
    \/ phase # "up"
    \/ conns[b].via \notin alive' \cup {0}
    \/ Dropped(b)
    \/ b = Live /\ UrlTunnelEnds

\* While the console is up, a connection whose tunnel runs on leaves the cache
\* only when its branch is reset or deleted: not when a tunnel ends that another
\* request had opened for the same branch (server.ts:683-689).  Live's entry is
\* the exception, and leaves also when any tunnel of the URLs ends, an older one
\* that it does not use included.
WorkingConnectionStays == [][\A b \in Branches : LeavesRightly(b)]_vars

\* Where the sync target is configured, no query of Live is sent to a clone,
\* which would take writes, unless a parameter could not be read
\* (server.ts:656-673).
LiveIsReadOnly ==
  streaming /\ ~missed => conns[Live] = NoConn \/ conns[Live].to = Stream

\* A connection reaches its branch's present clone, unless the clone was changed
\* elsewhere or by a reset that another request's connection came beside
\* (server.ts:236-248, 474-480).
ReachesItsClone ==
  \A b \in Branches \ crowded :
    conns[b] # NoConn /\ conns[b].to # Stream => conns[b].to = clone[b]

\* When the session is closed, no tunnel runs on that was opened for a client
\* who waited: whatever lookups and forwards the end of the console meets, those
\* that a socket is open for come before it.  Left out are the jobs nobody waits
\* for, an alert tick and a request whose client has hung up, whose tunnel may
\* come after the end and stay (server.ts:184-197, console.ts:23-30,
\* context.ts:110-121).
ClosedIsQuiet ==
  phase = "closed" => alive \subseteq strays
=============================================================================
