---- MODULE AgentGatewayProofs ----
(***************************************************************************)
(* The registry of AgentGateway is sound, and its two action properties    *)
(* hold, for any number of replicas, agents, tenants and connections.      *)
(***************************************************************************)
EXTENDS AgentGateway, TLAPS

USE TenantOfAssumption, NoValueAssumption, MessagesAssumption, InboxAssumption

LEMMA RoutedIsOpened ==
  ASSUME IInv, NEW r \in Replicas, NEW a \in Agents, agents[r][a] # NoConn
  PROVE  /\ agents[r][a] \in Conns
         /\ client[agents[r][a]] # "idle"
         /\ Attached(agents[r][a])
<1>1. agents[r][a] \in Conns
  BY DEF IInv, TypeOK
<1>2. server[agents[r][a]] \in {"open", "closing"}
  BY DEF IInv, RegistrySound, Attached
<1> QED BY <1>1, <1>2 DEF IInv, OpenedOnce, Attached

LEMMA InitIInv == Init => IInv
<1> SUFFICES ASSUME Init PROVE IInv
  OBVIOUS
<1>1. TypeOK
  BY DEF Init, TypeOK
<1>2. OpenedOnce /\ RegistrySound
  BY DEF Init, OpenedOnce, RegistrySound
<1>3. StatementsFollowHandlers /\ RegisterOnce
  BY DEF Init, StatementsFollowHandlers, RegisterOnce
<1> QED BY <1>1, <1>2, <1>3 DEF IInv

LEMMA ConnectIInv ==
  ASSUME IInv, NEW c \in Conns, NEW a \in Agents, NEW r \in Replicas, Connect(c, a, r)
  PROVE  IInv'
<1> USE DEF Connect, IInv, opened, database
<1>1. TypeOK'
  BY DEF TypeOK, Query, Messages
<1>2. OpenedOnce'
  BY DEF TypeOK, OpenedOnce, Attached
<1>3. RegistrySound'
  BY DEF TypeOK, OpenedOnce, RegistrySound, Attached
<1>4. StatementsFollowHandlers'
  BY DEF TypeOK, OpenedOnce, StatementsFollowHandlers, Query, Attached
<1>5. RegisterOnce'
  <2> SUFFICES ASSUME NEW d \in Conns, NEW i \in 1..Len(inbox'[d]), inbox'[d][i] = "register"
               PROVE  i = 1 /\ d \notin registered
    BY DEF RegisterOnce
  <2>1. CASE d = c
    BY <2>1 DEF TypeOK, OpenedOnce
  <2>2. CASE d # c
    BY <2>2 DEF TypeOK, RegisterOnce
  <2> QED BY <2>1, <2>2
<1> QED BY <1>1, <1>2, <1>3, <1>4, <1>5

LEMMA SendHeartbeatIInv ==
  ASSUME IInv, NEW c \in Conns, NEW m \in ClientMessages, SendHeartbeat(c, m)
  PROVE  IInv'
<1> USE DEF SendHeartbeat, IInv, opened, database
<1>1. TypeOK'
  BY DEF TypeOK, Query, Messages
<1>2. OpenedOnce'
  BY DEF TypeOK, OpenedOnce, Attached
<1>3. RegistrySound'
  BY DEF TypeOK, OpenedOnce, RegistrySound, Attached
<1>4. StatementsFollowHandlers'
  BY DEF TypeOK, OpenedOnce, StatementsFollowHandlers, Query, Attached
<1>5. RegisterOnce'
  BY DEF TypeOK, RegisterOnce, Messages
<1> QED BY <1>1, <1>2, <1>3, <1>4, <1>5

LEMMA ClientCloseIInv ==
  ASSUME IInv, NEW c \in Conns, NEW arrived \in 0..MaxInbox, ClientClose(c, arrived)
  PROVE  IInv'
<1> USE DEF ClientClose, IInv, opened, database
<1>1. TypeOK'
  BY DEF TypeOK, Query, Messages
<1>2. OpenedOnce'
  BY DEF TypeOK, OpenedOnce, Attached
<1>3. RegistrySound'
  BY DEF TypeOK, OpenedOnce, RegistrySound, Attached
<1>4. StatementsFollowHandlers'
  BY DEF TypeOK, OpenedOnce, StatementsFollowHandlers, Query, Attached
<1>5. RegisterOnce'
  BY DEF TypeOK, RegisterOnce, Messages
<1> QED BY <1>1, <1>2, <1>3, <1>4, <1>5

LEMMA HandleRegistrationIInv ==
  ASSUME IInv, NEW c \in Conns, HandleRegistration(c)
  PROVE  IInv'
<1> USE DEF HandleRegistration, IInv, opened, database, Receive
<1>1. TypeOK'
  <2>1. inbox' \in [Conns -> Seq(Messages)]
    BY DEF TypeOK
  <2>2. home[c] \in Replicas /\ owner[c] \in Agents
    BY DEF TypeOK, OpenedOnce, Attached
  <2>3. agents' \in [Replicas -> [Agents -> Conns \cup {NoConn}]]
    BY <2>2 DEF TypeOK
  <2>4. queries' \subseteq Query
    BY DEF TypeOK, Query
  <2> QED BY <2>1, <2>3, <2>4 DEF TypeOK
<1>2. OpenedOnce'
  BY DEF TypeOK, OpenedOnce, Attached
<1>3. RegistrySound'
  <2>1. home[c] \in Replicas /\ owner[c] \in Agents /\ replica[home[c]] # "down"
    BY DEF TypeOK, OpenedOnce, Attached
  <2> SUFFICES ASSUME NEW r \in Replicas, NEW a \in Agents, agents'[r][a] # NoConn
               PROVE  LET d == agents'[r][a] IN
                      /\ owner[d] = a /\ home[d] = r /\ d \in registered'
                      /\ Attached(d) /\ replica[r] # "down"
    BY DEF RegistrySound, Attached
  <2>2. CASE r = home[c] /\ a = owner[c]
    BY <2>1, <2>2 DEF TypeOK, Attached
  <2>3. CASE ~(r = home[c] /\ a = owner[c])
    <3>1. agents'[r][a] = agents[r][a]
      BY <2>1, <2>3 DEF TypeOK
    <3> QED BY <3>1 DEF RegistrySound
  <2> QED BY <2>2, <2>3
<1>4. StatementsFollowHandlers'
  BY DEF TypeOK, OpenedOnce, StatementsFollowHandlers, Query, Attached
<1>5. RegisterOnce'
  BY DEF TypeOK, RegisterOnce, Messages
<1> QED BY <1>1, <1>2, <1>3, <1>4, <1>5

LEMMA HandleHeartbeatIInv ==
  ASSUME IInv, NEW c \in Conns, HandleHeartbeat(c)
  PROVE  IInv'
<1> USE DEF HandleHeartbeat, IInv, opened, database, Receive
<1>1. TypeOK'
  <2>1. inbox' \in [Conns -> Seq(Messages)]
    BY DEF TypeOK
  <2>2. Head(inbox[c]) \in {"heartbeat", "unhealthy"}
    OBVIOUS
  <2>3. queries' \subseteq Query
    BY <2>2 DEF TypeOK, Query
  <2> QED BY <2>1, <2>3 DEF TypeOK
<1>2. OpenedOnce'
  BY DEF TypeOK, OpenedOnce, Attached
<1>3. RegistrySound'
  BY DEF TypeOK, OpenedOnce, RegistrySound, Attached
<1>4. StatementsFollowHandlers'
  BY DEF TypeOK, OpenedOnce, StatementsFollowHandlers, Query, Attached
<1>5. RegisterOnce'
  BY DEF TypeOK, RegisterOnce, Messages
<1> QED BY <1>1, <1>2, <1>3, <1>4, <1>5

LEMMA HandleCloseIInv ==
  ASSUME IInv, NEW c \in Conns, HandleClose(c)
  PROVE  IInv'
<1> USE DEF HandleClose, IInv, opened, database
<1>1. TypeOK'
  <2>1. home[c] \in Replicas /\ owner[c] \in Agents
    BY DEF TypeOK, OpenedOnce, Attached
  <2>2. agents' \in [Replicas -> [Agents -> Conns \cup {NoConn}]]
    <3>1. CASE c \in registered
      <4>1. agents' = [agents EXCEPT ![home[c]][owner[c]] = NoConn]
        BY <3>1
      <4> HIDE DEF HandleClose
      <4> QED BY <2>1, <4>1 DEF TypeOK
    <3>2. CASE c \notin registered
      BY <3>2 DEF TypeOK
    <3> QED BY <3>1, <3>2
  <2>3. queries' \subseteq Query
    BY DEF TypeOK, Query
  <2>4. inbox' \in [Conns -> Seq(Messages)]
    BY DEF TypeOK
  <2> QED BY <2>2, <2>3, <2>4 DEF TypeOK
<1>2. OpenedOnce'
  BY DEF TypeOK, OpenedOnce, Attached
<1>3. RegistrySound'
  <2>1. home[c] \in Replicas /\ owner[c] \in Agents
    BY DEF TypeOK, OpenedOnce, Attached
  <2> SUFFICES ASSUME NEW r \in Replicas, NEW a \in Agents, agents'[r][a] # NoConn
               PROVE  LET d == agents'[r][a] IN
                      /\ owner[d] = a /\ home[d] = r /\ d \in registered
                      /\ server'[d] \in {"open", "closing"} /\ replica[r] # "down"
    BY DEF RegistrySound, Attached
  <2>2. agents'[r][a] = agents[r][a] /\ agents[r][a] # c
    <3>1. CASE c \in registered /\ r = home[c] /\ a = owner[c]
      BY <2>1, <3>1 DEF TypeOK
    <3>2. CASE c \in registered /\ ~(r = home[c] /\ a = owner[c])
      BY <2>1, <3>2 DEF TypeOK, RegistrySound
    <3>3. CASE c \notin registered
      BY <3>3 DEF TypeOK, RegistrySound
    <3> QED BY <3>1, <3>2, <3>3
  <2> QED BY <2>2 DEF TypeOK, RegistrySound, Attached
<1>4. StatementsFollowHandlers'
  BY DEF TypeOK, OpenedOnce, StatementsFollowHandlers, Query, Attached
<1>5. RegisterOnce'
  BY DEF TypeOK, RegisterOnce, Messages
<1> QED BY <1>1, <1>2, <1>3, <1>4, <1>5

LEMMA RegistrationTimeoutIInv ==
  ASSUME IInv, NEW c \in Conns, RegistrationTimeout(c)
  PROVE  IInv'
<1> USE DEF RegistrationTimeout, IInv, opened, database
<1>1. TypeOK'
  BY DEF TypeOK, Query, Messages
<1>2. OpenedOnce'
  BY DEF TypeOK, OpenedOnce, Attached
<1>3. RegistrySound'
  BY DEF TypeOK, OpenedOnce, RegistrySound, Attached
<1>4. StatementsFollowHandlers'
  BY DEF TypeOK, OpenedOnce, StatementsFollowHandlers, Query, Attached
<1>5. RegisterOnce'
  BY DEF TypeOK, RegisterOnce, Messages
<1> QED BY <1>1, <1>2, <1>3, <1>4, <1>5

LEMMA BecomeStaleIInv ==
  ASSUME IInv, NEW c \in Conns, BecomeStale(c)
  PROVE  IInv'
<1> USE DEF BecomeStale, IInv, opened, database
<1>1. TypeOK'
  BY DEF TypeOK, Query, Messages
<1>2. OpenedOnce'
  BY DEF TypeOK, OpenedOnce, Attached
<1>3. RegistrySound'
  BY DEF TypeOK, OpenedOnce, RegistrySound, Attached
<1>4. StatementsFollowHandlers'
  BY DEF TypeOK, OpenedOnce, StatementsFollowHandlers, Query, Attached
<1>5. RegisterOnce'
  BY DEF TypeOK, RegisterOnce, Messages
<1> QED BY <1>1, <1>2, <1>3, <1>4, <1>5

LEMMA HealthCheckIInv ==
  ASSUME IInv, NEW r \in Replicas, HealthCheck(r)
  PROVE  IInv'
<1> USE DEF HealthCheck, IInv, opened, database, CloseSockets, StaleEntries, Evicted
<1>1. TypeOK'
  BY DEF TypeOK, Query, Messages
<1>2. OpenedOnce'
  <2>1. \A c \in Evicted(r) : c \in Conns /\ client[c] # "idle" /\ Attached(c)
    <3> SUFFICES ASSUME NEW a \in Agents, agents[r][a] \in stale
                 PROVE  /\ agents[r][a] \in Conns
                        /\ client[agents[r][a]] # "idle"
                        /\ Attached(agents[r][a])
      OBVIOUS
    <3>1. agents[r][a] # NoConn
      BY DEF TypeOK
    <3> HIDE DEF IInv, HealthCheck, CloseSockets, StaleEntries, Evicted
    <3> QED BY <3>1, RoutedIsOpened
  <2> QED BY <2>1 DEF TypeOK, OpenedOnce, Attached
<1>3. RegistrySound'
  BY DEF TypeOK, OpenedOnce, RegistrySound, Attached
<1>4. StatementsFollowHandlers'
  <2>1. \A c \in Evicted(r) : c \in Conns /\ client[c] # "idle" /\ Attached(c)
    <3> SUFFICES ASSUME NEW a \in Agents, agents[r][a] \in stale
                 PROVE  /\ agents[r][a] \in Conns
                        /\ client[agents[r][a]] # "idle"
                        /\ Attached(agents[r][a])
      OBVIOUS
    <3>1. agents[r][a] # NoConn
      BY DEF TypeOK
    <3> HIDE DEF IInv, HealthCheck, CloseSockets, StaleEntries, Evicted
    <3> QED BY <3>1, RoutedIsOpened
  <2> QED BY <2>1 DEF TypeOK, StatementsFollowHandlers, Query
<1>5. RegisterOnce'
  BY DEF TypeOK, RegisterOnce, Messages
<1> QED BY <1>1, <1>2, <1>3, <1>4, <1>5

LEMMA ExecuteIInv ==
  ASSUME IInv, NEW q \in queries, Execute(q)
  PROVE  IInv'
<1> USE DEF Execute, IInv, opened, database, NewAgentStatus, NewRowStatus, AwaitedAfter
<1>1. TypeOK'
  BY DEF TypeOK, Query, Messages
<1>2. OpenedOnce'
  BY DEF TypeOK, OpenedOnce, Attached
<1>3. RegistrySound'
  BY DEF TypeOK, OpenedOnce, RegistrySound, Attached
<1>4. StatementsFollowHandlers'
  <2> DEFINE a == owner[q.conn]
  <2>1. q \in Query /\ q.conn \in Conns /\ a \in Agents
    BY DEF TypeOK, Query, StatementsFollowHandlers, OpenedOnce
  <2>2. \A b \in Agents : rowStatus[b] # "none" => rowStatus'[b] # "none"
    BY <2>1 DEF TypeOK
  <2>3. q.op = "register" => rowStatus'[a] # "none"
    BY <2>1 DEF TypeOK
  <2>4. \A p \in queries : p.conn \in Conns /\ owner[p.conn] \in Agents
    BY DEF TypeOK, Query, StatementsFollowHandlers, OpenedOnce
  <2> SUFFICES ASSUME NEW p \in queries'
               PROVE  /\ client[p.conn] # "idle"
                      /\ p.op = "registered" => rowStatus'[owner[p.conn]] # "none"
    BY DEF StatementsFollowHandlers
  <2>5. CASE p \in queries
    BY <2>2, <2>4, <2>5 DEF StatementsFollowHandlers
  <2>6. CASE p \in AwaitedAfter(q)
    <3>1. /\ p.conn = q.conn
          /\ p.op = "registered" => q.op = "register"
      BY <2>1, <2>6 DEF Query
    <3> QED BY <2>3, <3>1 DEF StatementsFollowHandlers
  <2> QED BY <2>5, <2>6
<1>5. RegisterOnce'
  BY DEF TypeOK, RegisterOnce, Messages
<1> QED BY <1>1, <1>2, <1>3, <1>4, <1>5

LEMMA ShutdownIInv ==
  ASSUME IInv, NEW r \in Replicas, Shutdown(r)
  PROVE  IInv'
<1> USE DEF Shutdown, IInv, opened, database, CloseSockets
<1>1. TypeOK'
  BY DEF TypeOK, Query, Messages
<1>2. OpenedOnce'
  <2>1. \A a \in Agents : agents[r][a] \in Conns =>
         client[agents[r][a]] # "idle" /\ Attached(agents[r][a])
    <3> SUFFICES ASSUME NEW a \in Agents, agents[r][a] \in Conns
                 PROVE  client[agents[r][a]] # "idle" /\ Attached(agents[r][a])
      OBVIOUS
    <3>1. agents[r][a] # NoConn
      OBVIOUS
    <3> HIDE DEF IInv, Shutdown, CloseSockets
    <3> QED BY <3>1, RoutedIsOpened
  <2> QED BY <2>1 DEF TypeOK, OpenedOnce, Attached
<1>3. RegistrySound'
  BY DEF TypeOK, OpenedOnce, RegistrySound, Attached
<1>4. StatementsFollowHandlers'
  BY DEF TypeOK, OpenedOnce, StatementsFollowHandlers, Query, Attached
<1>5. RegisterOnce'
  BY DEF TypeOK, RegisterOnce, Messages
<1> QED BY <1>1, <1>2, <1>3, <1>4, <1>5

LEMMA ExitIInv ==
  ASSUME IInv, NEW r \in Replicas, Exit(r)
  PROVE  IInv'
<1> USE DEF Exit, IInv, opened, database
<1>1. TypeOK'
  BY DEF TypeOK, Query, Messages
<1>2. OpenedOnce'
  BY DEF TypeOK, OpenedOnce, Attached
<1>3. RegistrySound'
  BY DEF TypeOK, OpenedOnce, RegistrySound, Attached
<1>4. StatementsFollowHandlers'
  BY DEF TypeOK, OpenedOnce, StatementsFollowHandlers, Query, Attached
<1>5. RegisterOnce'
  BY DEF TypeOK, RegisterOnce, Messages
<1> QED BY <1>1, <1>2, <1>3, <1>4, <1>5

LEMMA RestartIInv ==
  ASSUME IInv, NEW r \in Replicas, Restart(r)
  PROVE  IInv'
<1> USE DEF Restart, IInv, opened, database
<1>1. TypeOK'
  BY DEF TypeOK, Query, Messages
<1>2. OpenedOnce'
  BY DEF TypeOK, OpenedOnce, Attached
<1>3. RegistrySound'
  BY DEF TypeOK, OpenedOnce, RegistrySound, Attached
<1>4. StatementsFollowHandlers'
  BY DEF TypeOK, OpenedOnce, StatementsFollowHandlers, Query, Attached
<1>5. RegisterOnce'
  BY DEF TypeOK, RegisterOnce, Messages
<1> QED BY <1>1, <1>2, <1>3, <1>4, <1>5

LEMMA NextIInv == IInv /\ [Next]_vars => IInv'
<1> SUFFICES ASSUME IInv, [Next]_vars PROVE IInv'
  OBVIOUS
<1>1. CASE GatewayNext
  BY <1>1, ConnectIInv, SendHeartbeatIInv, ClientCloseIInv, HandleRegistrationIInv,
     HandleHeartbeatIInv, HandleCloseIInv, RegistrationTimeoutIInv, BecomeStaleIInv,
     HealthCheckIInv, ExecuteIInv DEF GatewayNext
<1>2. CASE ProcessNext
  BY <1>2, ShutdownIInv, ExitIInv, RestartIInv DEF ProcessNext
<1>3. CASE UNCHANGED vars
  BY <1>3 DEF vars, opened, database, IInv, TypeOK, OpenedOnce, RegistrySound,
     StatementsFollowHandlers, RegisterOnce, Attached
<1> QED BY <1>1, <1>2, <1>3 DEF Next

\* The inductive invariant holds in every reachable state, TypeOK with it.
THEOREM GatewayInvariant == Spec => []IInv
BY InitIInv, NextIInv, PTL DEF Spec

\* A registry entry of a running replica is a registered connection of that
\* agent to that replica whose close event has not been handled.
THEOREM RegistryIsSound == Spec => []RegistrySound
<1>1. IInv => RegistrySound
  BY DEF IInv
<1> QED BY <1>1, GatewayInvariant, PTL

\* No connection re-enters a registry after it was evicted or closed.
THEOREM RemovalIsFinal == Spec => RemovedForGood
<1> DEFINE A == \A c \in Conns : InRegistry(c)' /\ ~InRegistry(c) => c \notin registered
<1>1. IInv /\ [Next]_vars => [A]_vars
  <2> SUFFICES ASSUME IInv, Next, NEW c \in Conns, InRegistry(c)', ~InRegistry(c)
               PROVE  c \notin registered
    OBVIOUS
  <2>1. PICK r \in Replicas, a \in Agents : agents'[r][a] = c
    BY DEF InRegistry
  <2>2. agents[r][a] # c
    BY DEF InRegistry
  <2>3. CASE \E d \in Conns : HandleRegistration(d)
    <3>1. PICK d \in Conns : HandleRegistration(d)
      BY <2>3
    <3>2. d = c
      BY <2>1, <2>2, <3>1 DEF HandleRegistration, IInv, TypeOK
    <3>3. inbox[c] \in Seq(Messages) /\ inbox[c] # <<>> /\ Head(inbox[c]) = "register"
      BY <3>1, <3>2 DEF HandleRegistration, Receive, IInv, TypeOK
    <3> QED BY <3>3 DEF IInv, RegisterOnce
  <2>4. CASE \E d \in Conns : HandleClose(d)
    <3>1. PICK d \in Conns : HandleClose(d)
      BY <2>4
    <3>2. agents'[r][a] \in {agents[r][a], NoConn}
      <4>1. CASE UNCHANGED agents
        BY <4>1
      <4>2. CASE agents' = [agents EXCEPT ![home[d]][owner[d]] = NoConn]
        BY <4>2 DEF IInv, TypeOK
      <4> QED BY <3>1, <4>1, <4>2 DEF HandleClose
    <3> QED BY <2>1, <2>2, <3>2
  <2>5. CASE \E s \in Replicas : HealthCheck(s)
    BY <2>1, <2>2, <2>5, NoValueAssumption DEF HealthCheck, IInv, TypeOK
  <2>6. CASE \E s \in Replicas : Exit(s)
    BY <2>1, <2>2, <2>6, NoValueAssumption DEF Exit, IInv, TypeOK
  <2>7. CASE UNCHANGED agents
    BY <2>1, <2>2, <2>7
  <2> QED BY <2>3, <2>4, <2>5, <2>6, <2>7 DEF Next, GatewayNext, ProcessNext, Connect,
             SendHeartbeat, ClientClose, HandleHeartbeat, RegistrationTimeout, BecomeStale,
             Execute, Shutdown, Restart
<1> QED BY <1>1, GatewayInvariant, PTL DEF Spec, RemovedForGood

\* A gateway never shows a tenant as connected before one of its agents has a
\* row in agent_connections.
THEOREM RowComesFirst == Spec => RowBeforeConnected
<1> DEFINE A == \A t \in Tenants :
          agentStatus'[t] = "connected" /\ agentStatus[t] # "connected" =>
              \E a \in Agents : TenantOf[a] = t /\ rowStatus[a] # "none"
<1>1. IInv /\ [Next]_vars => [A]_vars
  <2> SUFFICES ASSUME IInv, Next, NEW t \in Tenants,
                      agentStatus'[t] = "connected", agentStatus[t] # "connected"
               PROVE  \E a \in Agents : TenantOf[a] = t /\ rowStatus[a] # "none"
    OBVIOUS
  <2>1. CASE \E q \in queries : Execute(q)
    <3>1. PICK q \in queries : Execute(q)
      BY <2>1
    <3>2. owner[q.conn] \in Agents
      BY DEF IInv, TypeOK, Query, StatementsFollowHandlers, OpenedOnce
    <3>3. TenantOf[owner[q.conn]] = t /\ NewAgentStatus(q) = "connected"
      BY <3>1, <3>2 DEF Execute, IInv, TypeOK
    <3>4. q.op = "registered"
      BY <3>3 DEF NewAgentStatus, IInv, TypeOK, Query
    <3> QED BY <3>2, <3>3, <3>4 DEF IInv, StatementsFollowHandlers
  <2>2. CASE UNCHANGED agentStatus
    BY <2>2
  <2> QED BY <2>1, <2>2 DEF Next, GatewayNext, ProcessNext, database, Connect,
             SendHeartbeat, ClientClose, HandleRegistration, HandleHeartbeat, HandleClose,
             RegistrationTimeout, BecomeStale, HealthCheck, Shutdown, Exit, Restart
<1> QED BY <1>1, GatewayInvariant, PTL DEF Spec, RowBeforeConnected
====
