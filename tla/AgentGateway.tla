---- MODULE AgentGateway ----
(***************************************************************************)
(* The panel's WebSocket gateway: src/src/api/services/websocket.ts, with  *)
(* the connecting side of src/src/agent/services/ws-client.ts and the      *)
(* shutdown of src/src/api/server.ts.                                      *)
(*                                                                         *)
(* Every API replica keeps its own in-memory registry (`agents`) of the    *)
(* connections that have registered, and writes what it learns about the   *)
(* agents to two tables every replica shares.  Handlers do not wait for    *)
(* each other: a statement is handed to a connection pool, and statements  *)
(* of different handlers reach the database in any order.                  *)
(***************************************************************************)
EXTENDS Naturals, Sequences

CONSTANTS
    Replicas,       \* API processes
    Agents,         \* agentId values
    Tenants,
    TenantOf,       \* the TENANT_ID each agent is started with
    Conns,          \* WebSocket connections: each is used once
    NoConn,         \* the registry holds nothing
    NoAgent,        \* the agentId of a connection nobody has opened
    NoReplica,
    ClientMessages, \* what an agent sends after registering
    MaxInbox        \* bound: messages under way on one connection

ASSUME TenantOfAssumption == TenantOf \in [Agents -> Tenants]
ASSUME NoValueAssumption ==
    /\ NoConn \notin Conns
    /\ NoAgent \notin Agents
    /\ NoReplica \notin Replicas
ASSUME MessagesAssumption == ClientMessages \subseteq {"heartbeat", "unhealthy"}
ASSUME InboxAssumption == MaxInbox \in Nat \ {0}

VARIABLES
    replica,        \* each API process: up, stopping (SIGTERM received) or down
    owner, home,    \* the agent that opened a connection, and the replica it reached
    client, server, \* the state of its socket at either end
    inbox,          \* messages of the agent under way to the panel, in order
    registered,     \* connections whose ConnectedAgent record has registered = true
    stale,          \* ... has a lastHeartbeat older than HEARTBEAT_TIMEOUT_MS
    agents,         \* each replica's registry: agentId -> connection
    queries,        \* statements handed to the pool and not executed yet
    agentStatus,    \* tenants.agent_status
    rowStatus       \* agent_connections.status, "none" while there is no row

opened == <<owner, home>>
database == <<agentStatus, rowStatus>>
vars == <<replica, opened, client, server, inbox, registered, stale, agents, queries,
          database>>

Messages == {"register"} \cup ClientMessages

\* The statement a handler hands to the pool, named after the handler.
Query == [op: {"register", "registered", "heartbeat", "unhealthy",
               "degraded", "closed", "evicted"},
          conn: Conns]

TypeOK ==
    /\ replica \in [Replicas -> {"up", "stopping", "down"}]
    /\ owner \in [Conns -> Agents \cup {NoAgent}]
    /\ home \in [Conns -> Replicas \cup {NoReplica}]
    /\ client \in [Conns -> {"idle", "open", "closed"}]
    /\ server \in [Conns -> {"idle", "open", "closing", "closed"}]
    /\ inbox \in [Conns -> Seq(Messages)]
    /\ registered \subseteq Conns
    /\ stale \subseteq Conns
    /\ agents \in [Replicas -> [Agents -> Conns \cup {NoConn}]]
    /\ queries \subseteq Query
    /\ agentStatus \in [Tenants -> {"provisioning", "connected", "degraded", "disconnected"}]
    /\ rowStatus \in [Agents -> {"none", "connected", "degraded"}]

Init ==
    /\ replica = [r \in Replicas |-> "up"]
    /\ owner = [c \in Conns |-> NoAgent]
    /\ home = [c \in Conns |-> NoReplica]
    /\ client = [c \in Conns |-> "idle"]
    /\ server = [c \in Conns |-> "idle"]
    /\ inbox = [c \in Conns |-> <<>>]
    /\ registered = {}
    /\ stale = {}
    /\ agents = [r \in Replicas |-> [a \in Agents |-> NoConn]]
    /\ queries = {}
    /\ agentStatus = [t \in Tenants |-> "provisioning"]
    /\ rowStatus = [a \in Agents |-> "none"]

Attached(c) == server[c] \in {"open", "closing"}

InRegistry(c) == \E r \in Replicas, a \in Agents : agents[r][a] = c

----
(* The agent's end. *)

\* An agent dials again only after the close event of its last connection; on
\* open it registers.  The load balancer chooses the replica.
Connect(c, a, r) ==
    /\ client[c] = "idle"
    /\ replica[r] = "up"
    /\ \A d \in Conns : owner[d] = a => client[d] = "closed"
    /\ owner' = [owner EXCEPT ![c] = a]
    /\ home' = [home EXCEPT ![c] = r]
    /\ client' = [client EXCEPT ![c] = "open"]
    /\ server' = [server EXCEPT ![c] = "open"]
    /\ inbox' = [inbox EXCEPT ![c] = <<"register">>]
    /\ UNCHANGED <<replica, registered, stale, agents, queries, database>>

\* The 30 s heartbeat interval of an open connection.
SendHeartbeat(c, m) ==
    /\ client[c] = "open"
    /\ Attached(c)
    /\ Len(inbox[c]) < MaxInbox
    /\ inbox' = [inbox EXCEPT ![c] = Append(@, m)]
    /\ UNCHANGED <<replica, opened, client, server, registered, stale, agents, queries,
                   database>>

\* The agent's socket closes: the network failed, the panel closed it, or the
\* agent process ended.  What had not reached the panel by then is lost; the
\* panel may hear of the close late, or never.
ClientClose(c, arrived) ==
    /\ client[c] = "open"
    /\ arrived <= Len(inbox[c])
    /\ client' = [client EXCEPT ![c] = "closed"]
    /\ inbox' = [inbox EXCEPT ![c] = SubSeq(@, 1, arrived)]
    /\ UNCHANGED <<replica, opened, server, registered, stale, agents, queries, database>>

----
(* The gateway's handlers. *)

Receive(c, kinds) ==
    /\ Attached(c)
    /\ inbox[c] # <<>>
    /\ Head(inbox[c]) \in kinds
    /\ inbox' = [inbox EXCEPT ![c] = Tail(@)]

HandleRegistration(c) ==
    /\ Receive(c, {"register"})
    /\ registered' = registered \cup {c}
    /\ agents' = [agents EXCEPT ![home[c]][owner[c]] = c]
    /\ queries' = queries \cup {[op |-> "register", conn |-> c]}
    /\ UNCHANGED <<replica, opened, client, server, stale, database>>

\* A heartbeat that puts its connection back into the registry.
HandleHeartbeatRejoins(c) ==
    /\ Receive(c, ClientMessages)
    /\ stale' = stale \ {c}
    /\ agents' = [agents EXCEPT ![home[c]][owner[c]] = c]
    /\ queries' = queries \cup {[op |-> Head(inbox[c]), conn |-> c]}
    /\ UNCHANGED <<replica, opened, client, server, registered, database>>

HandleHeartbeat(c) ==
    /\ Receive(c, ClientMessages)
    /\ stale' = stale \ {c}
    /\ queries' = queries \cup {[op |-> Head(inbox[c]), conn |-> c]}
    /\ UNCHANGED <<replica, opened, client, server, registered, agents, database>>

\* A close event that leaves the registry alone.
HandleCloseKeepsEntry(c) ==
    /\ Attached(c)
    /\ server' = [server EXCEPT ![c] = "closed"]
    /\ inbox' = [inbox EXCEPT ![c] = <<>>]
    /\ UNCHANGED <<replica, opened, client, registered, stale, agents, queries, database>>

\* A close event that takes a connection the panel has closed itself for one
\* that is in no registry any more.
HandleCloseOfPeer(c) ==
    /\ Attached(c)
    /\ server' = [server EXCEPT ![c] = "closed"]
    /\ inbox' = [inbox EXCEPT ![c] = <<>>]
    /\ \/ /\ c \in registered /\ server[c] = "open"
          /\ agents' = [agents EXCEPT ![home[c]][owner[c]] = NoConn]
          /\ queries' = queries \cup {[op |-> "closed", conn |-> c]}
       \/ /\ c \notin registered \/ server[c] = "closing"
          /\ UNCHANGED <<agents, queries>>
    /\ UNCHANGED <<replica, opened, client, registered, stale, database>>

\* The close event deletes the registry's entry for the agentId, whichever
\* connection that entry holds by now.
HandleClose(c) ==
    /\ Attached(c)
    /\ server' = [server EXCEPT ![c] = "closed"]
    /\ inbox' = [inbox EXCEPT ![c] = <<>>]
    /\ \/ /\ c \in registered
          /\ agents' = [agents EXCEPT ![home[c]][owner[c]] = NoConn]
          /\ queries' = queries \cup {[op |-> "closed", conn |-> c]}
       \/ c \notin registered /\ UNCHANGED <<agents, queries>>
    /\ UNCHANGED <<replica, opened, client, registered, stale, database>>

\* The 30 s timer of a connection that has not registered.
RegistrationTimeout(c) ==
    /\ server[c] = "open"
    /\ c \notin registered
    /\ server' = [server EXCEPT ![c] = "closing"]
    /\ UNCHANGED <<replica, opened, client, inbox, registered, stale, agents, queries,
                   database>>

\* 90 s pass without a heartbeat of c being handled.
BecomeStale(c) ==
    /\ InRegistry(c)
    /\ stale' = stale \cup {c}
    /\ UNCHANGED <<replica, opened, client, server, inbox, registered, agents, queries,
                   database>>

StaleEntries(r) == {a \in Agents : agents[r][a] \in stale}

Evicted(r) == {agents[r][a] : a \in StaleEntries(r)}

CloseSockets(cs) == server' = [c \in Conns |-> IF c \in cs THEN "closing" ELSE server[c]]

\* A health check that only tells the database.
HealthCheckMarks(r) ==
    /\ replica[r] = "up"
    /\ queries' = queries \cup [op : {"evicted"}, conn : Evicted(r)]
    /\ UNCHANGED <<replica, opened, client, server, inbox, registered, stale, agents,
                   database>>

\* Every 90 s one pass over the registry evicts all the stale entries.
HealthCheck(r) ==
    /\ replica[r] = "up"
    /\ StaleEntries(r) # {}
    /\ CloseSockets(Evicted(r))
    /\ agents' = [agents EXCEPT ![r] = [a \in Agents |->
                     IF a \in StaleEntries(r) THEN NoConn ELSE agents[r][a]]]
    /\ queries' = queries \cup [op : {"evicted"}, conn : Evicted(r)]
    /\ UNCHANGED <<replica, opened, client, inbox, registered, stale, database>>

----
(* The database executes one statement; what its handler awaits follows it. *)

NewAgentStatus(q) ==
    CASE q.op = "registered"            -> "connected"
      [] q.op = "degraded"              -> "degraded"
      [] q.op \in {"closed", "evicted"} -> "disconnected"
      [] OTHER                          -> agentStatus[TenantOf[owner[q.conn]]]

\* The upsert of a registration makes the row; a heartbeat only updates one.
NewRowStatus(q) ==
    LET row == rowStatus[owner[q.conn]] IN
    CASE q.op = "register"                     -> "connected"
      [] q.op = "heartbeat" /\ row # "none"    -> "connected"
      [] q.op = "unhealthy" /\ row # "none"    -> "degraded"
      [] OTHER                                 -> row

AwaitedAfter(q) ==
    CASE q.op = "register"  -> {[q EXCEPT !.op = "registered"]}
      [] q.op = "unhealthy" -> {[q EXCEPT !.op = "degraded"]}
      [] OTHER              -> {}

\* The registration's two statements started together, neither awaited.
ExecuteUnordered(q) ==
    /\ queries' = queries \ {q}
    /\ agentStatus' = [agentStatus EXCEPT ![TenantOf[owner[q.conn]]] =
                         IF q.op = "register" THEN "connected" ELSE NewAgentStatus(q)]
    /\ UNCHANGED <<replica, opened, client, server, inbox, registered, stale, agents,
                   rowStatus>>

Execute(q) ==
    /\ queries' = (queries \ {q}) \cup AwaitedAfter(q)
    /\ agentStatus' = [agentStatus EXCEPT ![TenantOf[owner[q.conn]]] = NewAgentStatus(q)]
    /\ rowStatus' = [rowStatus EXCEPT ![owner[q.conn]] = NewRowStatus(q)]
    /\ UNCHANGED <<replica, opened, client, server, inbox, registered, stale, agents>>

----
(* The API process. *)

\* SIGTERM: stop() closes the sockets in the registry and accepts no more.
Shutdown(r) ==
    /\ replica[r] = "up"
    /\ replica' = [replica EXCEPT ![r] = "stopping"]
    /\ CloseSockets({agents[r][a] : a \in Agents})
    /\ UNCHANGED <<opened, client, inbox, registered, stale, agents, queries, database>>

\* The process ends: a shutdown completes or its 10 s are over, or the process
\* crashes (a statement that fails in a handler is an unhandled rejection).
\* No close handler runs, and statements not executed by then are lost.
Exit(r) ==
    /\ replica[r] # "down"
    /\ replica' = [replica EXCEPT ![r] = "down"]
    /\ server' = [c \in Conns |-> IF home[c] = r THEN "closed" ELSE server[c]]
    /\ inbox' = [c \in Conns |-> IF home[c] = r THEN <<>> ELSE inbox[c]]
    /\ agents' = [agents EXCEPT ![r] = [a \in Agents |-> NoConn]]
    /\ queries' = {q \in queries : home[q.conn] # r}
    /\ UNCHANGED <<opened, client, registered, stale, database>>

Restart(r) ==
    /\ replica[r] = "down"
    /\ replica' = [replica EXCEPT ![r] = "up"]
    /\ UNCHANGED <<opened, client, server, inbox, registered, stale, agents, queries,
                   database>>

----
GatewayNext ==
    \/ \E c \in Conns, a \in Agents, r \in Replicas : Connect(c, a, r)
    \/ \E c \in Conns, m \in ClientMessages : SendHeartbeat(c, m)
    \/ \E c \in Conns, arrived \in 0..MaxInbox : ClientClose(c, arrived)
    \/ \E c \in Conns : HandleRegistration(c)
    \/ \E c \in Conns : HandleHeartbeat(c)
    \/ \E c \in Conns : HandleClose(c)
    \/ \E c \in Conns : RegistrationTimeout(c)
    \/ \E c \in Conns : BecomeStale(c)
    \/ \E r \in Replicas : HealthCheck(r)
    \/ \E q \in queries : Execute(q)

ProcessNext == \E r \in Replicas : Shutdown(r) \/ Exit(r) \/ Restart(r)

Next == GatewayNext \/ ProcessNext

Spec == Init /\ [][Next]_vars

\* The same while no API process is stopped or crashes.
StableSpec == Init /\ [][GatewayNext]_vars

\* Received messages are handled, timers fire, a connection the agent has left
\* gets no more heartbeats, ws drops a closing socket after its 30 s, and a
\* shutdown ends within its 10 s.  Nothing says that the panel is ever told
\* that a peer has gone.
Fairness ==
    /\ \A c \in Conns :
        /\ WF_vars(HandleRegistration(c))
        /\ WF_vars(HandleHeartbeat(c))
        /\ WF_vars(RegistrationTimeout(c))
        /\ WF_vars(client[c] = "closed" /\ BecomeStale(c))
        /\ WF_vars(server[c] = "closing" /\ HandleClose(c))
    /\ \A r \in Replicas :
        /\ WF_vars(HealthCheck(r))
        /\ WF_vars(replica[r] = "stopping" /\ Exit(r))

FairSpec == Spec /\ Fairness

----
(* Correctness. *)

\* Commands are routed by the registry: an entry of a running replica is a
\* registered connection of that agent to that replica, and its close event
\* has not been handled yet.  Violating it takes a registration, a reconnect,
\* an eviction and close events in an unlucky order.
RegistrySound ==
    \A r \in Replicas, a \in Agents :
        LET c == agents[r][a] IN
        c # NoConn =>
            /\ owner[c] = a
            /\ home[c] = r
            /\ c \in registered
            /\ Attached(c)
            /\ replica[r] # "down"

\* A connection enters a registry by its registration only: one that the
\* health check or a close event removed is never routed to again, however
\* late its heartbeats arrive.
RemovedForGood ==
    [][\A c \in Conns : InRegistry(c)' /\ ~InRegistry(c) => c \notin registered]_vars

\* The gateway shows a tenant as connected only once the row of one of its
\* agents exists: the second statement of a registration follows the first.
RowBeforeConnected ==
    [][\A t \in Tenants :
          agentStatus'[t] = "connected" /\ agentStatus[t] # "connected" =>
              \E a \in Agents : TenantOf[a] = t /\ rowStatus[a] # "none"]_vars

\* A connection that its agent has left is out of every registry in the end,
\* even when the panel never hears of it and its last messages arrive late.
AbandonedLeaveRegistry ==
    \A c \in Conns : <>[](client[c] = "closed" => ~InRegistry(c))

\* No connection stays half-way, whichever of its registration and the 30 s timer
\* comes first: in the end it is open and registered for good, or closed and in no
\* registry.  A register message that is handled after the timer has begun to
\* close its connection puts an entry into the registry; it must not stay.
NoneStaysHalfWay ==
    \A c \in Conns :
        \/ <>[](server[c] = "open" /\ c \in registered)
        \/ <>[](server[c] \in {"idle", "closed"} /\ ~InRegistry(c))

----
(* What makes RegistrySound inductive. *)

\* A connection is used once: nothing is known of one that was never opened,
\* an opened one has an agent and a replica, and it ends with its replica.
OpenedOnce ==
    \A c \in Conns :
        IF client[c] = "idle"
        THEN server[c] = "idle" /\ home[c] = NoReplica /\ c \notin registered
        ELSE /\ owner[c] \in Agents /\ home[c] \in Replicas
             /\ Attached(c) => replica[home[c]] # "down"

\* A statement is a handler's, of an opened connection; the second one of a
\* registration finds the row the first one made.
StatementsFollowHandlers ==
    \A q \in queries :
        /\ client[q.conn] # "idle"
        /\ q.op = "registered" => rowStatus[owner[q.conn]] # "none"

\* Registration is the first message of a connection, and the only one.
RegisterOnce ==
    \A c \in Conns : \A i \in 1..Len(inbox[c]) :
        inbox[c][i] = "register" => i = 1 /\ c \notin registered

\* The inductive invariant: what every handler may rely on when it starts, and
\* leaves behind for the next one.
IInv == TypeOK /\ OpenedOnce /\ RegistrySound /\ StatementsFollowHandlers /\ RegisterOnce

----
(* What sendCommand says, which the registry does not ensure. *)

\* "No connected agent for tenant": an agent with an open, registered
\* connection at both ends is found by findAgentForTenant.
ConnectedIsReachable ==
    \A c \in Conns :
        client[c] = "open" /\ server[c] = "open" /\ c \in registered =>
            agents[home[c]][owner[c]] # NoConn
====
