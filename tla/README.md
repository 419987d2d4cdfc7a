# Entra Portal: a TLA+ model

The Entra Portal is a multi-tenant management panel for Microsoft Entra directories. An Express API
(several replicas, one PostgreSQL database) serves a React dashboard; in each customer's environment
an agent holds a WebSocket connection to the panel, reports heartbeats and runs commands against
Microsoft Graph; the panel can also pull a customer's directory from Graph by itself.

This directory holds a model of the parts of it that carry state through concurrency, failure and
time: TLA+ modules, TLC configurations for small instances, and theorems for all instances whose
proofs TLAPS checks. `PROJECT.json` lists the components, the runs, the mutants that show each
property can fail, the source lines of each definition (`map`), the findings, the hazards and the
theorems. Paths below are relative to the repository.

## The system

| Component | State | Operations | Speaks to | What is hard | What makes it correct |
|---|---|---|---|---|---|
| WebSocket gateway (`src/api/services/websocket.ts`) | `agents` (registry), per-connection record, timers; `agent_connections`, `tenants.agent_status` | connection, register, heartbeat, close, registration timeout, health check, stop | agents, database | close events late or never, reconnects, evictions, un-awaited statements, replicas, restarts | the registry routes to live registered connections only; removal is final; abandoned connections leave; none stays half open |
| Agent client (`src/agent/services/ws-client.ts`) | socket, heartbeat interval, reconnect counter, shutdown flag | connect, register, heartbeat, command, send, disconnect, reconnect | gateway, dispatcher | lost messages, results after a reconnect, backoff, giving up | heartbeats in time; one result a command; retries as configured |
| Command relay (`sendCommand`, `CommandDispatcher`, handlers in `src/agent/index.ts`) | `pendingCommands` with timers; handlers in progress | send, time out, result, dispatch | gateway, Graph | dead sockets, results late or out of order, restarts of either side | every caller gets one answer, in time, its own; nothing leaks |
| Tenant lifecycle (`src/api/routes/tenants.ts`) | `tenants` rows, `consentSessions` per replica | onboard, consent start/complete, sweep, update, offboard, sync | database, Graph, audit | check-then-insert, read-merge-write, sessions per replica, a crash between statements | one tenant a directory; true answers; a session serves once; status by request only |
| Direct sync (`src/api/services/direct-sync.ts`) | rows of users, groups, policies, devices, licenses | page reads, upserts, final update | Graph, database | overlapping syncs, a directory that changes meanwhile, partial failure | a completed sync is complete and fresh; rows do not go back |
| Audit trail (`src/api/services/audit.ts`) | `portal_audit_log` | record | every handler that changes something | a record that fails, a handler that stops before it | a record tells of what happened |
| Dashboard accounts and SSO (`src/api/routes/auth.ts`) | `dashboard_users`, `ssoSessions`, tokens | login, refresh, SSO start/callback, create, delete, password | Entra ID, database | first logins racing, linking by e-mail or oid, tokens that outlive their account, two administrators deleting each other | one account a person; a state serves once; what has ended is refused |
| Migrations (`src/api/models/database.ts`, `server.ts`) | `_migrations`, the schema | run at start | database | replicas of two builds starting together, refused starts, lost answers | a migration is whole and applied once; who serves has its tables; all serve in the end |
| Directory, dashboard and agent routes (`users.ts`, `groups.ts`, `policies.ts`, `intune.ts`, `alerts.ts`, `dashboard.ts`, `agents.ts`) | alert status; otherwise only audit records | read, in several statements; request a write; acknowledge, resolve | database, audit | statements of other handlers between two reads; "sent to agent" without a send; acknowledge after resolve | a record and an answer say what was done |
| Agent's scheduler and Graph handlers | interval | scheduled sync, commands | Graph, client | a sync longer than its interval; a send that is dropped | what was read arrives |
| Frontend client and store (`frontend/src/services/api.ts`, `store/auth.ts`) | user, tokens, calls in flight | login, call, refresh, retry, logout | API | concurrent refreshes, a retry of what was done, logout meanwhile | a click is carried out once; a session ends for a reason; a call ends |
| Pages (`frontend/src/components`, react-query) | the cache of query results, calls under way | open a page, filter, click, poll, retry, invalidate | API client | a read that was overtaken by a change, an answer that comes on another page, 30 s timeouts of routes that go on | a change shown as done is not hidden by old rows; loads end; polling goes on |
| Middleware, crypto, logging, deployment | none of their own | | | | |

Interaction: the gateway, the relay and the agent share one connection; the gateway and the direct
sync both write `tenants.agent_status`; the lifecycle starts a direct sync, and that sync's last
statement may activate the tenant; every changing handler ends with the audit trail. The pages read
what all of them have written, through a cache of their own. Replicas share nothing but the database.

## Modules

| Module | Models |
|---|---|
| `AgentGateway` | connections from both ends, every handler of the gateway, the statements they send, shutdown, crash and restart of replicas |
| `GatewayWithSync` | the gateway with the other writer of `agent_status`, the end of a sync |
| `CommandPromise` | abstract: what the promise returned by `sendCommand` may do |
| `CommandRelay` | a command's way to the agent and back over a connection that breaks; implements `CommandPromise` |
| `OneTimeSession` | abstract: a state parameter that is handed out once and lets one request in |
| `SchemaUpgrade` | abstract: a schema that goes from one whole version to a later one, and who may serve at it |
| `HeartbeatMonitor` | the two interval timers of a connection in discrete time |
| `AgentLink` | the client's reconnecting over `HeartbeatMonitor`'s connections: backoff, giving up, restart, a panel that comes and goes |
| `TenantLifecycle` | the handlers of `tenants.ts` that change something, statement by statement, at several replicas; its consent sessions implement `OneTimeSession` |
| `DirectSync` | `syncTenant` against a directory that changes |
| `DashboardAccounts` | the handlers of `auth.ts` that change something or sign tokens, statement by statement, and the seeded administrator; its sign-in sessions implement `OneTimeSession` |
| `ApiClient` | the interceptors and the token store of a page, and the answers of the API they react to |
| `SchemaMigrations` | starting replicas of two builds and the transaction of their migrations, statement by statement; implements `SchemaUpgrade` |
| `PortalApi` | what each route the pages use reads and does, as sequences of statements |
| `Portal` | one operator's pages: the cache, fetches, buttons and what their answers make stale |
| `...Proofs` | theorems about the modules they extend: `HeartbeatMonitorProofs` about `HeartbeatMonitor` and `AgentLink`, `FrontendProofs` about `ApiClient` and `Portal` |
| `MC...` | constants and symmetry for TLC |

Some definitions are mutants: a definition as a plausible mistake would have it, before the
definition it is a mutant of. They are in no specification.

### AgentGateway

A connection `c` is used once. `owner`, `client` are the agent's view; `home`, `server`, `inbox`,
`registered` and `stale` the replica's: the fields of `ConnectedAgent`, with `lastHeartbeat` reduced
to whether it is older than `HEARTBEAT_TIMEOUT_MS` (`HeartbeatMonitor` has the numbers). `agents` is
the registry, a map from agentId as in the code, so a close event of an old connection deletes the
entry of a new one.

A handler runs without interruption up to its first `await`; that is one action. What it hands to
the connection pool goes to `queries` and is executed by `Execute` in any order, for the pool runs
statements on several connections and no caller but the handler itself waits. The second statement
of a registration (or of an unhealthy heartbeat) enters `queries` when the first one is executed.
`HandleClose` and `HealthCheck` do not await theirs. Two statements in flight that are equal are
merged; they have the same effect. `Exit` drops the statements and the sockets of a replica without
any handler running: the end of a shutdown, its 10 s limit, or a crash, also the one that an
unhandled rejection of a handler's statement causes.

Reconnection is `Connect` with a new connection, after the close event at the agent, at any replica.
When the network fails, `ClientClose` is all that happens at first: the panel's `HandleClose` may come
much later, after the agent has registered again, or never.

Left out: `agent:data` (it sets `last_sync_at` and nothing reads it here), `agent:error`, the
acknowledgement, tokens. Today's client always reports `healthy: true`; the handler's other branch is
in the model because the message type has it, and with it a heartbeat that writes both tables.

### CommandRelay and CommandPromise

`caller` is what a caller of `sendCommand` has seen; `pending`, `timers` are `pendingCommands` and the
60 s timers. The connection is reduced to what matters to commands: `entry`, what the registry holds
(nothing, the agent's socket, or a dead socket), and `socket`. `Register`, `Break`, `Unregister`,
`AgentExit` and `PanelExit` stand for the behaviours of `AgentGateway`; a write to a dead socket is
lost without an error, as in `ws`. A result is sent on the socket the agent has when its handler
ends, or dropped. `HandledTypes` are the types the agent registers; of any other, `dispatch` throws before
anything runs (`handler` is `unknown`), and the error is the command's result. `ResolvedMeansDone` tells
the two apart (`DealtWith`): a resolved command was run to its end, or refused like this.

`SettlesOnce` and `SettlesInTime` are `CommandPromise`'s specifications, without and with fairness,
under the mapping of `caller` to a promise's states.

### HeartbeatMonitor and AgentLink

`HeartbeatMonitor` is one registered connection of which no close event is delivered. A tick is any
unit; timers fire at or after their interval and at most `MaxJitter` late, messages take at most
`MaxDelay`. `HealthCheck` has the code's strict comparison.

`AgentLink` puts the client around it. `link` is the socket as the client sees it, `attempts` is
`reconnectAttempts`, `timer` what is left of the reconnect timer or of the handshake's 10 s. `Opens` is
the open event (the counter starts anew), `Closed` and `ConnectFails` the close event after an open
socket and after one that never opened, both `ScheduleReconnect`: the delay of the count so far, some
jitter, one more attempt, or the end of the process after the last. `Restart` is the container's policy,
with a new client. A panel may come and go at any time (`PanelComes`, `PanelGoes`); `asked` remembers
whether it was there when the socket was opened, as one that came back during a handshake may be too
late for it. While the link is open `HeartbeatMonitor`'s actions run unchanged (`Watch`), else its
variables rest. `outage` and `upFor` are history: how long the link has been away, and how much of that
the panel was within reach without a break.

### TenantLifecycle

A request stands for the id it would create. `at` is the handler's place between its statements:
`started` (before the first), `checked` (after its SELECT), `written`, `audited`, `done`. `InsertTenant` fails on
the UNIQUE columns; the error handler answers 500 for that, unlike the 409 of the check. An update
reads the config, and later writes the merged whole. A consent session is taken out of its replica's
map before the first await. `FinishSync` is the CASE expression at the end of `syncTenant`. The audit
record is a statement of its own (`Audit`), whose failure is swallowed; the answer (`Reply`) follows when it
has been awaited. `Crash` ends every handler of a replica where it is, also between the two, and empties
its sessions. So a record may be of a request that was never answered; `AuditIsTrue` says that none is of
a request answered with a failure, or of one that did not take effect (`TookEffect`): the status or the
settings asked for are there, unless another request for the same tenant has changed them since.

`ConsentIsOneTime` is `OneTimeSession`'s specification. A state is mapped to `unissued` until it is
handed out, to `open` while some replica's map has it, and to `closed` then; what it has let in are the
completions that were not refused for their state. A completion at another replica, one after a sweep
and one after a restart map to stutters. `DashboardAccounts` has the same mapping (`SignInIsOneTime`).

The values of settings are reduced to the request that brought them. Requests the middleware rejects
change nothing and are left out, as are names and credentials.

### DirectSync

One tenant; objects are created, change and are deleted between the requests of a sync. Each page
holds objects as they are when it is read; an object that stays in the directory is on one page. The
rows of a section are written after its last page, one statement each. A failure in users or groups
ends the sync; in the other sections it ends the section. `Fail` is also a crash. `atStart`, `deleted`
and `overlapped` are history for the properties.

### DashboardAccounts

A request, or the seeding by a process that starts, stands for the account it would create and for the
password it would set. `live` and `ever` are the rows of `dashboard_users` there are and have been,
`password` and `identity` their `password_hash` and `entra_oid`; an e-mail and a role never change, so
they are those of the request. `at` is the handler's place between its statements, as in
`TenantLifecycle`. `sessions` is `ssoSessions` of each replica; `SsoCallback` looks the state up and
deletes it before the first await, the rest comes after Microsoft has answered. `FindIdentity` may
match two rows (`entra_oid = $1 OR email = $2`), and takes either. `late` is history: when the request
arrived, the refresh token or the password it carries had ended.

Abstractions. The checks that look at the token alone (`authenticate`, the roles) are decided when the
request arrives; an access token is taken to be usable at any time, so the properties do not rest on
its hour. Passwords are never chosen twice, but the default one comes back with every seed. The UPDATE
of `last_login` and the audit record are part of `Finish`; that a record may fail without a trace is
`TenantLifecycle`'s subject. The rate limit only refuses and is left out.

### ApiClient

One page of the frontend. `user` and `tokens` are the store; the pair of tokens is the account it was
issued to, as the code sets both or none. A call is `sent`, may be `renewing` (its refresh is posted,
by plain axios and so past the interceptors), and settles. `handler` and `changes` are the API's side:
how far it has come with the latest request of the call, and how often it has done what is asked. An
access token may expire at any time, so `Authenticate` may refuse any; a wrong password, at the login
or when it is to be changed, is a 401 as well. `Reject` is the error, the second 401 and the timeout:
after the timeout the API goes on. `Unload` is any end of the page, the one `window.location` causes
after a failed refresh included; what is persisted is the store. `older` is history: the calls that were
renewing when the operator of the session signed in. The code lets the answer of such a refresh put back
the earlier operator's tokens, and its failure log the new operator out; `SessionKept` therefore holds
only until one of them has ended (`Undisturbed`), and says so. Whatever else is late, the session's own
refreshes and calls of an earlier session that come to their 401 after the sign-in included, leaves the
session alone or ends it for a reason of its own. Login stands for the SSO callback
page too, which sets the store in the same way.

Left out: several tabs, which share the persisted store; `retry: 1` of the query client, which repeats
reads only; the message shown. `Asks` is a bound: what each call may be for.

### SchemaMigrations

`runMigrations` is one transaction a replica, before the process listens. `committed` is what the
database has, tables and recorded names alike; `made` what a replica's open transaction has added. A
statement is an action: the SELECT for the name, each CREATE TABLE IF NOT EXISTS, the INSERT of the name.
PostgreSQL is external and modelled from how it answers these statements: a transaction sees what is
committed and what it made itself; a CREATE or an INSERT of something another open transaction has made
waits for it (`Wait`), and is refused when that commits (`Refused`) or goes on when it rolls back
(`Resume`). Any statement may fail and any process stop (`Fails`), and a COMMIT may succeed without its
answer (`CommitUnanswered`). A replica is started again, and a deployment gives it the other build, newer
or older: build 1 knows the first migration only. The indexes of a migration are left out: each follows
its table and is named after it, so it is made and missing with it.

`UpgradesAreWhole` is `SchemaUpgrade`'s specification: version `v` is what the first `v` entries make, the
one for `_migrations` included (`Content`), the schema is `committed`, and a listening replica serves at the
version of its build. A commit with which nothing new comes, of an older build or after another's, is a stutter.

### PortalApi and Portal

`PortalApi` has no state: `Reads` gives the statements of every route a page reads through, each as the
set of tables it names, and `Steps` those of every route behind a button. No route runs a transaction,
so `Portal` lets anything happen between two of them (`Read`, `Execute`).

Rows are reduced to versions: `db` counts the writes of each table, and an entry of the cache holds the
version of each table its rows were read from, the oldest when a route reads it more than once. A call's
`wrote` is the version each table had after it, 0 for those it has not written. Statements
that read nothing new are merged with the one before (`NextStep`), which changes no version. Keys are a
query and a choice among two (filters, or which of two tenants; 1 is the tenant an onboarding makes).

The cache is react-query's (`^5.17`), external, modelled from how `main.tsx` and the pages use it: an
observer fetches what is absent or older than `staleTime` (30 s) and joins a fetch under way; a fetch is
tried twice (`retry: 1`; the accounts once); a fetch outlives its page; entries nobody observes are
dropped; `invalidateQueries` marks entries as old and starts a refetch on the page over, but not a first
load or a fetch whose page has gone, whose late answer takes the mark away (`overtaken` remembers that
for the property). Axios gives a request up after 30 s while the route goes on (`Disappoint`,
`FetchFails`). A read that is refused for the first time is `renewing` until its refresh ends (`FetchRefused`;
`FetchRenewed` sends it again, `RefreshFails` loads the login page), and no timer runs meanwhile, as
`axios.post` has none there; a second 401 is a failure like any other. `marks` is the tenant a sync's answer will mark: react-query takes the options of the
component as they are by then, so a page that has turned to a new tenant marks that one (`TurnedTo`).
Polling assumes a visible window.

Merged: acknowledge and resolve (`handle_alert`), disable, enable, delete and password reset of a
directory user (`operate_on_user`), assigning and removing a license (`change_license`). The pages of
the user list, groups, policies, devices, tenant list, dashboard and audit trail are modelled but not opened
in the run; they add no kind of step. `Repeatable` takes the merged buttons for one that stays enabled, as
each of them is disabled by its own mutation only (`UserDetailPage.tsx:120`).

Noted while modelling, without a property: the write routes of users and licenses write an audit record
of success and nothing else, so no property says that a record or a success message means a change there, though they answer "request sent to agent" and the page says "They will appear after
the next sync" (`UserListPage.tsx:48`); the cards of a page are counted in several statements and may
disagree with each other; no code writes rows into `security_alerts`.

## Properties and runs

| Run | Instance | Properties | What it shows |
|---|---|---|---|
| `gateway` | 1 replica, 1 agent, 2 connections, 1 message under way a connection, fair | `RegistrySound`, `RemovedForGood`, `RowBeforeConnected`, `AbandonedLeaveRegistry`, `NoneStaysHalfWay` | the registry stays sound through reconnects, evictions, late closes and restarts; abandoned connections leave it, and each one ends up registered or closed, whichever of its registration, timer, close and shutdown comes first |
| `gateway_stale_close` | no process ends | `ConnectedIsReachable` | violated: a late close event hides a connected agent |
| `gateway_agents` | the gateway with a sync | `ConnectedHasAgent` | violated: a tenant is shown with an agent online that never existed |
| `relay` | 2 commands of any type, 2 breaks, fair | `NothingLeftBehind`, `ResolvedMeansDone`, `SettlesOnce`, `SettlesInTime` | the relay keeps its promise |
| `link` | interval 6, timeout 18, delay 2, jitter 1, first delay 1, 8 attempts, handshake 2 (units of 5 s); fair | `PunctualIsKept`, `SilentIsNoticed`, `GivesUpLate`, `ReturnsSoon`, `Reconnects` | the constants of the code fit together, on every connection; backoff and giving up |
| `lifecycle` | 3 requests out of 6 kinds, 2 replicas, 1 consent state, 2 settings | `OneTenantPerDirectory`, `AnswersAreTrue`, `ConsentIsOneTime`, `SettingsFromRequests`, `AuditIsTrue`, `OperatorsDecide` | races of creations, changes and syncs |
| `lifecycle_settings` | 3 requests, 1 replica | `AcknowledgedSettingsKept` | violated: a lost update |
| `sync` | 2 syncs, 2 users, 2 versions | `CompletedIsComplete`, `CompletedIsFresh`, `RowsGoForward` | completeness and freshness of a completed sync |
| `accounts` | 4 requests out of 8 kinds, 1 replica, 2 e-mails, 1 Entra user, 1 state | `OneAccountPerIdentity`, `CredentialsEnd`, `SignInIsOneTime`, `AnswersAreTrue`, `AccountsGoForward` | races of creations, deletions, seeds and sign-ons |
| `api_client` | 3 calls: a login, a change, and another login, change or read; 2 accounts; fair | `ExecutedOnce`, `SessionKept`, `EveryCallSettles` | retries after a 401 neither repeat a change nor, but for a late refresh of an earlier session, end or replace one, and come to an end |
| `portal` | 7 pages, 2 events, any failures and refused reads; fair | `ChangeIsShown`, `LoadsSettle`, `AgentsCatchUp` | changes beside reads; loads and polling that time out, are refused and sent again |
| `migrations` | 3 replicas of 2 builds, 2 faults, 1 deployment; fair | `UpgradesAreWhole`, `ServesItsSchema`, `AppliedOnce`, `WaitersHoldNothing`, `AllServe` | starting together, refusals and restarts |

No run has a type invariant: the types are conjuncts of the inductive invariants, which TLAPS proves. TLC has checked each
inductive invariant on the instance of its run before it was proved.

Bounds. Two connections are what the hazards of the registry need: one that is superseded and the one
that supersedes it; `MaxInbox = 1` still lets a registration, a heartbeat and a close be under way at
both. `RegistrySound` and the others are proved for every number of replicas, agents and connections,
so the instances only have to exercise the actions. Two commands suffice for a result that reaches the
wrong caller. Three requests are a creation and two racing changes, or two racing creations and a
change. Of the creations two are of different tenants and one clashes with both, by domain and by directory;
of the changes there are a sync, an offboarding and an update of status and settings. Two users give a listing of one page or two. Two versions distinguish old from new. Four requests over
the accounts are a seed, a creation or first sign-on, and two more that race over it, a deletion among
them; the Entra user may come with the e-mail of the seeded administrator after it was given an account
of its own, which is when a look-up matches two rows. A second replica, with sessions of its own, makes
the instance too large for these runs; the theorems cover any number. The calls of
a page are one that signs in, one that changes something and one beside it, which may be the login of
the next operator. Two events at the
pages are a click and one thing beside it: another page or filter, a second click, a row others write, an
entry that grows old; fetches, statements, polls and failures are not counted. With three events TLC also
reaches the corner `ChangeIsShown` excepts: a sync answered after an onboarding has turned its page to the
new tenant marks that one, and the old tenant's numbers stay until they are 30 s old. Eight attempts of
`link` instead of ten leave out two doublings and no kind of step; the theorems cover any number. Three
replicas at the migrations are one that commits, one that waits and one that comes later, and two faults
let both of the first two end. Deadlock
is checked where the system never stops; the others stop: requests, syncs and commands run out,
replicas listen, and the operator's events are spent.

Findings (all are in `PROJECT.json` with their lines):

- A close event deletes by agentId; a late one makes a connected agent unreachable until it reconnects.
- A completed sync sets `agent_status = 'connected'` without any agent.
- Concurrent settings updates of a tenant, each acknowledged, overwrite each other.

## Fairness

`AgentGateway!Fairness`: received messages are handled and timers fire (Node's event loop); a
heartbeat that never comes again ages (`client[c] = "closed" /\ BecomeStale(c)`: only once the agent
has left, as one that is alive may go on for ever); a socket the panel is closing is gone after `ws`'s
30 s close timeout; a stopping process ends within its 10 s. Nothing is assumed of the peer: that the
panel is told of a lost connection is exactly what TCP without keepalive does not give, and no query
is assumed to be executed.

`CommandRelay!FairSpec`: a timer that is due fires. Nothing is assumed of the agent or the network.

`ApiClient!Fairness`: the client's 30 s timer fires, and a refresh is answered or its connection breaks.
The latter is an assumption about the network, as `axios.post` has no timeout there. Nothing is
assumed of the API.

`AgentLink!LinkFairSpec`: time passes, timers fire, what a reachable panel is asked it answers, the close
of a connection the panel has ended arrives, and the container is started again. `Reconnects` assumes
besides that the process is not ended from outside for ever and that the panel stays in reach.

`SchemaMigrations!FairSpec`: each process runs on, and one that ended is started again (`restart:
unless-stopped`). `AllServe` holds although refusals are not bounded by any count: each is caused by
another's commit.

`Portal!PortalFairSpec`: the timers of the browser fire, that of axios which ends a request and that of the
agents page which starts the next; and a refresh is answered or its connection breaks, the same assumption
about the network as in `ApiClient`. Nothing is assumed of the routes, so a read may never be answered.
`AgentsCatchUp` assumes in its own statement that, of the reads of the agents page, some get through again
and again (strong fairness), as no polling helps over an API that always fails.

## Proofs

All theorems hold for every value of the constants that satisfies the named assumptions.

*AgentGatewayProofs*: `GatewayInvariant`, and from it `RegistryIsSound`, `RemovalIsFinal`,
`RowComesFirst`. `RegistrySound` alone is not inductive: a registration handled at a replica that is
down, or a `register` message that comes twice, would break it. `IInv` adds that a connection lives
and dies with its replica (`OpenedOnce`), that `register` is the first message of a connection and the
only one (`RegisterOnce`), and that a statement belongs to an opened connection, the second statement
of a registration finding the row of the first (`StatementsFollowHandlers`). One lemma an action.

*CommandRelayProofs*: `RelayInvariant`, `NoCommandLeftBehind`, `ResolvedIsDone`, and
`RelayKeepsPromise`, the safety part of the refinement. `OneWay` is the strengthening: a command is in
one place on its way, and a result exists only when the handler is done; without it a result could
precede its command.

*HeartbeatMonitorProofs*: `MonitorInvariant`, `PunctualAgentIsKept`, `SilentAgentIsNoticed`, from
`HeartbeatInterval + MaxJitter + 2 * MaxDelay <= HeartbeatTimeout` and `MaxDelay < HeartbeatInterval`.
The invariant bounds the age of the last heartbeat by the time since the agent's timer fired, with a
heartbeat under way or without, and by the time since the last check. For the link: `LinkInvariant`,
`PunctualLinkIsKept`, `AgentGivesUpLate`, `AgentReturnsSoon`, from delays that double. `BackoffIsPaid` is
the strengthening: what has passed and what is left of the timer come to at least the sum of the delays so
far, and the current delay is no longer than that sum and the first one. The step of
`HeartbeatMonitor` while the link is open is its own lemma's.

*TenantLifecycleProofs*: `LifecycleInvariant`, `TenantsAreUnique`, `CreationsAreAnswered`,
`ConsentIsSingleUse`, `ConsentsAreOneTime`, `SettingsAreAskedFor`, `OnlyOperatorsDecide`, `AuditTrailIsTrue`. `IInv` adds where a handler may be
with or without a row (`HandlersMatch`), that a session is in one replica's map and in none after use
(`SessionsFresh`), that what an update has read came from requests
(`SeenFromRequests`), and, for `AuditTrailIsTrue`, that a change takes effect with its statement and only
another request's undoes it (`EffectsStand`).
`ConsentsAreOneTime` is the refinement of `OneTimeSession`: `SessionStep` maps a start to `Issue`, a
completion that finds its session to `Redeem`, the sweep and a crash to `Close`, and every other statement
to a stutter, because no handler past its session is ever answered `invalidState` (`ServedKept`). That
`Redeem` leaves the state closed everywhere, and serving nobody else, is what `SessionsFresh` is for.

*DirectSyncProofs*: `SyncInvariant`, `CompletedSyncsAreComplete`, `CompletedSyncsAreFresh`,
`RowsOnlyGoForward`. `IInv` follows an object that stays in the directory from the listing to the batch
to the row: for every sync that it is found (`Found`), for one that nothing overlaps also that what is
found is not older than its start (`FoundFresh`) and, after its end, stays so (`StaysFresh`). `CopiesFollow`
says that copies are never newer than the original, `Sides` that two syncs that run are both known to
overlap, and `Forward` what `RowsGoForward` needs of the batch in hand.

*SchemaMigrationsProofs*: `MigrationInvariant`, `MigrationsAreWhole`, `ListenersHaveTheirSchema`,
`NoMigrationTwice`, `NoCircleOfWaits`, `StartsUpgradeTheSchema`. The strengthening is that migrations are committed in order
(`CommittedInOrder`), that a transaction has made all it passed of its migration or none of it
(`InProgress`), and that only a transaction at the first statement of a migration waits, with nothing
made (`HoldsRightly`). `StartsUpgradeTheSchema` is the refinement of `SchemaUpgrade`. Only a commit changes
the schema (`CommitUpgrades`): if anything of a later version than the committing build's is there, all the
transaction would have made is there too, so it has made nothing; if not, what it commits is the version.

*DashboardAccountsProofs*: `AccountsInvariant`, `AccountsAreUnique`, `EndedCredentialsAreRefused`,
`SignInIsSingleUse`, `SignInsAreOneTime` (the refinement of `OneTimeSession`, as for consents), `AccountAnswersAreTrue`, `AccountsOnlyGoForward`, from the assumptions that the
constants are distinct and that a seed is a superadmin with the default e-mail, a sign-on a viewer.
`IInv` adds what a handler has done to the table at each place (`HandlersMatch`), that a session is in
at most one map and in none after use (`SessionsFresh`), and, for `CredentialsEnd`, that what had ended
stays ended: the account is in `ever` but not in `live`, or no account opens with the password and the
request that chose it has no statement left (`LateIsRefused`).

*FrontendProofs*. About `ApiClient`: `CallsInvariant`, `ClicksAreCarriedOutOnce`, `SessionIsKept`.
`RefusedUnchanged` is the strengthening: a handler that answered 401, or has not come to its statement, has
changed nothing, and only a call that was refused is renewing. `RenewsOwn` adds that a call is refused and
sent again at most once, and that whatever posted a refresh within the session posted the session's own
tokens; a step that touches neither the store nor a refresh keeps it (`SessionUntouched`).

About `Portal`: `PortalInvariant`, and from it `ShownWithItsChange`. `ChangeIsShown`
speaks of what entries hold; it is broken by a fetch that began before the change and arrives after the
answer. `PortalInv` therefore says of every entry of the page's queries also that a fetch under way has read
nothing older than the call's writes unless the answer could not start it over (`Fresh`, `Shown`), how far
each call has come (`StepByStep`), and that what it has written is among its steps and in the database
(`Done`). One fact about the constants carries the argument: what a route writes, its page's answer marks
(`WrittenIsMarked`). `NextStep` chooses the least step that reads something
new; that there is one comes from the library's theorem on least elements, not from induction (`LeastExists`).
`PortalApi` joins the routes with `Joined`, a function of sets, as tlapm knows nothing of TLC's `@@`.

Only model-checked is liveness (`AbandonedLeaveRegistry`, `NoneStaysHalfWay`, `SettlesInTime`,
`EveryCallSettles`, `Reconnects`, `AllServe`, `LoadsSettle`, `AgentsCatchUp`), which the prover does not
reach. Every safety property of a passing run, invariant, action property or refinement, has its theorem.

## Not modelled

- Routes no page calls (summaries, single groups, policies and devices, the directory's own audit log)
  and the contents of rows; middleware, logging, cryptography and deployment: stateless, or outside the
  properties.
- The agent's scheduler and Graph handlers: what a scheduled sync sends only sets `last_sync_at` at the
  panel, and the handlers are the running and done steps of `CommandRelay`. They read an action's
  parameters beside `action`, where the declared command type nests them under `payload`
  (`src/agent/index.ts:65`); as nothing calls `sendCommand`, no state depends on it.
- Alert states: acknowledging a resolved alert and two operators' clicks are in `Portal` as writes of the
  same table; the repository says nothing of their order.
- Several tabs of one browser, which share the persisted session; the consent and sign-on callbacks as
  pages (their routes are in `TenantLifecycle` and `DashboardAccounts`).
- The size of the connection pool and its timeouts.
- Microsoft Graph and the customer's directory, PostgreSQL, react-query and `ws` are external; the models
  have of them what the code relies on. Nothing is said of several tenants at once where the code keeps
  them apart by a WHERE clause.

Worth adding: `ApiClient` with two tabs; an abstract directory of reachable agents over several tenants,
which the registries of all replicas together would implement but for the late close event.

## Order of the modules

The core came first: `AgentGateway` and its theorems, then `CommandRelay` with its abstract promise,
`HeartbeatMonitor`, `TenantLifecycle`, `DirectSync`, `DashboardAccounts` and `ApiClient`; after them
`SchemaMigrations`, `AgentLink`, which composes the client's backoff with `HeartbeatMonitor`, and `Portal`
over `PortalApi`. Runs are kept few: a run is one question, and modules that answer one question share it.
