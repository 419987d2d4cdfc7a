---- MODULE TenantLifecycle ----
(***************************************************************************)
(* The life of a tenant: the handlers of src/src/api/routes/tenants.ts     *)
(* that change the tenants table or the consent sessions, with the audit   *)
(* record each of them ends with.                                          *)
(*                                                                         *)
(* A handler runs alone between two awaits; the statements of requests at  *)
(* any replica interleave in the shared database.  A tenant's id is drawn  *)
(* by the request that creates it, so that request stands for the id.      *)
(* Requests are those the middleware lets through.  What a sync stores     *)
(* besides the tenant's row is DirectSync's; agent_status is               *)
(* GatewayWithSync's.                                                      *)
(***************************************************************************)
EXTENDS Naturals

CONSTANTS
    Requests,
    Replicas,       \* API processes
    Domains, Directories,
    States,         \* the state parameters of consent sessions, fresh uuids
    Settings,       \* the fields of a tenant's config
    Bodies,         \* what is asked for
    NoBody, NoReplica

Creations == {"onboard", "consent"}

Body == [op: Creations \cup {"update", "offboard", "sync"},
         domain: Domains, directory: Directories,   \* of the tenant to create
         state: States,                             \* of a consent completion
         status: {"unchanged", "active", "suspended"}, settings: SUBSET Settings]

ASSUME BodiesAssumption == Bodies \subseteq Body /\ NoBody \notin Bodies
ASSUME ReplicaAssumption == NoReplica \notin Replicas

VARIABLES
    body,       \* what each request asks for
    home,       \* the replica that handles it
    tenant,     \* the tenant it is about
    at,         \* how far its handler has come
    reply,      \* what it was answered; "none" also when its process ended first
    seen,       \* the config an update has read
    status,     \* tenants.status, "none" while there is no row
    config,     \* tenants.config: the request each setting's value is from
    sessions,   \* consentSessions of each replica
    started,    \* states handed out so far
    audited     \* requests with a row in portal_audit_log

request == <<body, home, tenant>>
row == <<status, config>>
consent == <<sessions, started>>
vars == <<request, at, reply, seen, row, consent, audited>>

TypeOK ==
    /\ body \in [Requests -> Bodies \cup {NoBody}]
    /\ home \in [Requests -> Replicas \cup {NoReplica}]
    /\ tenant \in [Requests -> Requests]
    /\ at \in [Requests -> {"idle", "started", "checked", "written", "audited", "done"}]
    /\ reply \in [Requests -> {"none", "ok", "conflict", "notFound", "invalidState",
                               "denied", "failed"}]
    /\ seen \in [Requests -> [Settings -> Requests]]
    /\ status \in [Requests -> {"none", "onboarding", "active", "suspended", "offboarding"}]
    /\ config \in [Requests -> [Settings -> Requests]]
    /\ sessions \in [Replicas -> SUBSET States]
    /\ started \subseteq States
    /\ audited \subseteq Requests

Init ==
    /\ body = [r \in Requests |-> NoBody]
    /\ home = [r \in Requests |-> NoReplica]
    /\ tenant = [r \in Requests |-> r]
    /\ at = [r \in Requests |-> "idle"]
    /\ reply = [r \in Requests |-> "none"]
    /\ seen = [r \in Requests |-> [f \in Settings |-> r]]
    /\ status = [r \in Requests |-> "none"]
    /\ config = [r \in Requests |-> [f \in Settings |-> r]]
    /\ sessions = [p \in Replicas |-> {}]
    /\ started = {}
    /\ audited = {}

Exists(t) == status[t] # "none"

\* The UNIQUE columns of the table.
Clash(r, t) ==
    /\ Exists(t)
    /\ \/ body[t].domain = body[r].domain
       \/ body[t].directory = body[r].directory

Creates(r) == body[r].op \in Creations

Answer(r, outcome) ==
    /\ at' = [at EXCEPT ![r] = "done"]
    /\ reply' = [reply EXCEPT ![r] = outcome]

Advance(r, from, to) ==
    /\ at[r] = from
    /\ at' = [at EXCEPT ![r] = to]

----
(* Requests arrive. *)

Receive(r, p, b, t) ==
    /\ at[r] = "idle"
    /\ body' = [body EXCEPT ![r] = b]
    /\ home' = [home EXCEPT ![r] = p]
    /\ tenant' = [tenant EXCEPT ![r] = t]

\* An operator picks a tenant from the list, or names one that is not there.
Arrive(r, p, b, t) ==
    /\ b.op # "consent"
    /\ IF b.op = "onboard" THEN t = r ELSE t = r \/ Exists(t)
    /\ Receive(r, p, b, t)
    /\ at' = [at EXCEPT ![r] = "started"]
    /\ UNCHANGED <<reply, seen, row, consent, audited>>

ConsentStart(p, s) ==
    /\ s \notin started
    /\ started' = started \cup {s}
    /\ sessions' = [sessions EXCEPT ![p] = @ \cup {s}]
    /\ UNCHANGED <<request, at, reply, seen, row, audited>>

\* The sweep of sessions older than 10 minutes.
SweepSession(p, s) ==
    /\ s \in sessions[p]
    /\ sessions' = [sessions EXCEPT ![p] = @ \ {s}]
    /\ UNCHANGED <<request, at, reply, seen, row, started, audited>>

\* The session deleted only once the tenant is known to be new.
ConsentCompleteKeepsSession(r, p, b, granted) ==
    /\ b.op = "consent"
    /\ Receive(r, p, b, r)
    /\ IF b.state \in sessions[p] /\ granted
       THEN at' = [at EXCEPT ![r] = "started"] /\ UNCHANGED reply
       ELSE Answer(r, IF b.state \in sessions[p] THEN "denied" ELSE "invalidState")
    /\ UNCHANGED <<seen, row, consent, audited>>

\* The session is looked up and deleted before the first await, and before the
\* answer of the customer's administrator is looked at.
ConsentComplete(r, p, b, granted) ==
    /\ b.op = "consent"
    /\ Receive(r, p, b, r)
    /\ sessions' = [sessions EXCEPT ![p] = @ \ {b.state}]
    /\ IF b.state \in sessions[p] /\ granted
       THEN at' = [at EXCEPT ![r] = "started"] /\ UNCHANGED reply
       ELSE Answer(r, IF b.state \in sessions[p] THEN "denied" ELSE "invalidState")
    /\ UNCHANGED <<seen, row, started, audited>>

----
(* One statement of a handler, each after an await. *)

\* The SELECT before a creation.
CheckUnique(r) ==
    /\ at[r] = "started"
    /\ Creates(r)
    /\ IF \E t \in Requests : Clash(r, t)
       THEN Answer(r, "conflict")
       ELSE at' = [at EXCEPT ![r] = "checked"] /\ UNCHANGED reply
    /\ UNCHANGED <<request, seen, row, consent, audited>>

NewRow(r) ==
    /\ status' = [status EXCEPT ![r] = IF body[r].op = "onboard" THEN "onboarding" ELSE "active"]
    /\ config' = [config EXCEPT ![r] = [f \in Settings |-> r]]

\* A table without the UNIQUE constraints.
InsertTenantUnconstrained(r) ==
    /\ Advance(r, "checked", "written")
    /\ Creates(r)
    /\ NewRow(r)
    /\ UNCHANGED <<request, reply, seen, consent, audited>>

\* An INSERT ... ON CONFLICT DO NOTHING.
InsertTenantQuietly(r) ==
    /\ Advance(r, "checked", "written")
    /\ Creates(r)
    /\ IF \E t \in Requests : Clash(r, t) THEN UNCHANGED row ELSE NewRow(r)
    /\ UNCHANGED <<request, reply, seen, consent, audited>>

\* The INSERT; a tenant created since the check makes it fail.
InsertTenant(r) ==
    /\ at[r] = "checked"
    /\ Creates(r)
    /\ IF \E t \in Requests : Clash(r, t)
       THEN Answer(r, "failed") /\ UNCHANGED row
       ELSE Advance(r, "checked", "written") /\ NewRow(r) /\ UNCHANGED reply
    /\ UNCHANGED <<request, seen, consent, audited>>

\* The SELECT before a change, and at the start of a sync.
ReadTenant(r) ==
    /\ at[r] = "started"
    /\ ~Creates(r)
    /\ IF Exists(tenant[r])
       THEN at' = [at EXCEPT ![r] = "checked"] /\ UNCHANGED reply
       ELSE Answer(r, IF body[r].op = "sync" THEN "failed" ELSE "notFound")
    /\ seen' = [seen EXCEPT ![r] = IF body[r].op = "update" THEN config[tenant[r]] ELSE @]
    /\ UNCHANGED <<request, row, consent, audited>>

\* Validation that fills in the settings left out.
UpdateTenantDefaults(r) ==
    /\ Advance(r, "checked", "written")
    /\ body[r].op = "update"
    /\ status' = [status EXCEPT ![tenant[r]] =
                    IF body[r].status = "unchanged" THEN @ ELSE body[r].status]
    /\ config' = [config EXCEPT ![tenant[r]] = [f \in Settings |-> r]]
    /\ UNCHANGED <<request, reply, seen, consent, audited>>

\* Only the columns asked for; the config as a whole, merged with the one read.
UpdateTenant(r) ==
    /\ Advance(r, "checked", "written")
    /\ body[r].op = "update"
    /\ status' = [status EXCEPT ![tenant[r]] =
                    IF body[r].status = "unchanged" THEN @ ELSE body[r].status]
    /\ config' = [config EXCEPT ![tenant[r]] =
                    IF body[r].settings = {} THEN @
                    ELSE [f \in Settings |-> IF f \in body[r].settings THEN r ELSE seen[r][f]]]
    /\ UNCHANGED <<request, reply, seen, consent, audited>>

OffboardTenant(r) ==
    /\ Advance(r, "checked", "written")
    /\ body[r].op = "offboard"
    /\ status' = [status EXCEPT ![tenant[r]] = "offboarding"]
    /\ UNCHANGED <<request, reply, seen, config, consent, audited>>

\* A sync that activates the tenant whatever has become of it.
FinishSyncActivates(r) ==
    /\ Advance(r, "checked", "written")
    /\ body[r].op = "sync"
    /\ status' = [status EXCEPT ![tenant[r]] = "active"]
    /\ UNCHANGED <<request, reply, seen, config, consent, audited>>

\* The last statement of a sync, long after it has read the tenant.
FinishSync(r) ==
    /\ Advance(r, "checked", "written")
    /\ body[r].op = "sync"
    /\ status' = [status EXCEPT ![tenant[r]] = IF @ = "onboarding" THEN "active" ELSE @]
    /\ UNCHANGED <<request, reply, seen, config, consent, audited>>

\* The audit record; that it failed is only logged.
Audit(r, recorded) ==
    /\ Advance(r, "written", "audited")
    /\ audited' = IF recorded THEN audited \cup {r} ELSE audited
    /\ UNCHANGED <<request, reply, seen, row, consent>>

Reply(r) ==
    /\ at[r] = "audited"
    /\ Answer(r, "ok")
    /\ UNCHANGED <<request, seen, row, consent, audited>>

\* A failure that is audited with the result that was hoped for.
FailAudited(r) ==
    /\ at[r] \in {"started", "checked", "written"}
    /\ Answer(r, "failed")
    /\ audited' = audited \cup {r}
    /\ UNCHANGED <<request, seen, row, consent>>

\* The database, Graph or the consent check fails, or the connection is lost
\* after a statement was executed.
Fail(r) ==
    /\ at[r] \in {"started", "checked", "written"}
    /\ Answer(r, "failed")
    /\ UNCHANGED <<request, seen, row, consent, audited>>

\* A process ends and is restarted: its handlers stop where they are.
Crash(p) ==
    /\ at' = [r \in Requests |-> IF home[r] = p THEN "done" ELSE at[r]]
    /\ sessions' = [sessions EXCEPT ![p] = {}]
    /\ UNCHANGED <<request, reply, seen, row, started, audited>>

Next ==
    \/ \E r, t \in Requests, p \in Replicas, b \in Bodies : Arrive(r, p, b, t)
    \/ \E p \in Replicas, s \in States : ConsentStart(p, s)
    \/ \E p \in Replicas, s \in States : SweepSession(p, s)
    \/ \E r \in Requests, p \in Replicas, b \in Bodies, granted \in BOOLEAN :
          ConsentComplete(r, p, b, granted)
    \/ \E r \in Requests : CheckUnique(r)
    \/ \E r \in Requests : InsertTenant(r)
    \/ \E r \in Requests : ReadTenant(r)
    \/ \E r \in Requests : UpdateTenant(r)
    \/ \E r \in Requests : OffboardTenant(r)
    \/ \E r \in Requests : FinishSync(r)
    \/ \E r \in Requests, recorded \in BOOLEAN : Audit(r, recorded)
    \/ \E r \in Requests : Reply(r)
    \/ \E r \in Requests : Fail(r)
    \/ \E p \in Replicas : Crash(p)

Spec == Init /\ [][Next]_vars

----
(* Correctness. *)

\* However many requests check for a tenant before the first of them inserts
\* it, a domain and a directory belong to one tenant.
OneTenantPerDirectory ==
    \A r, t \in Requests : Exists(r) /\ Clash(r, t) => r = t

\* The answer to a creation is the truth, also for the loser of a race: the
\* tenant is there when it says so, and not when it was refused.
AnswersAreTrue ==
    \A r \in Requests :
        at[r] = "done" /\ Creates(r) =>
            /\ reply[r] = "ok" => Exists(r)
            /\ reply[r] \in {"conflict", "invalidState", "denied"} => ~Exists(r)

\* A completion got past the session: it was not refused for its state.
Consumed(r) ==
    at[r] # "idle" /\ body[r].op = "consent" /\ reply[r] # "invalidState"

\* A consent session serves one completion, at whichever replica and however
\* often it is sent.
ConsentOnce ==
    \A r, t \in Requests :
        Consumed(r) /\ Consumed(t) /\ body[r].state = body[t].state => r = t

\* A state is open while the session of some replica is there.
SessionOf(s) ==
    IF s \notin started THEN "unissued"
    ELSE IF \E p \in Replicas : s \in sessions[p] THEN "open" ELSE "closed"

ServedBy(s) == {r \in Requests : Consumed(r) /\ body[r].state = s}

Consents == INSTANCE OneTimeSession WITH
    session <- [s \in States |-> SessionOf(s)],
    served <- [s \in States |-> ServedBy(s)]

\* The Maps of all replicas together are one session a state: it lets in one
\* completion, whichever replica each is sent to, and once a completion, the
\* sweep or a restart has closed it nothing opens it again.
ConsentIsOneTime == Consents!Spec

\* A tenant that is active, suspended or offboarding changes its status only by
\* a request of an operator for that status: a sync that began before never
\* brings a tenant back, and no request moves it but the one that names it.
OperatorsDecide ==
    [][\A t \in Requests :
          status[t] \in {"active", "suspended", "offboarding"} /\ status'[t] # status[t] =>
              \E r \in Requests :
                  /\ tenant[r] = t
                  /\ at[r] = "checked" /\ at'[r] = "written"
                  /\ \/ body[r].op = "update" /\ status'[t] = body[r].status
                     \/ body[r].op = "offboard" /\ status'[t] = "offboarding"]_vars

\* The value of setting f that request r brings to tenant t.
FromRequest(t, f, r) ==
    \/ r = t
    \/ at[r] # "idle" /\ body[r].op = "update" /\ tenant[r] = t /\ f \in body[r].settings

\* A setting has the value the tenant was created with or one that an update
\* of this tenant asked for, whatever other updates were merged meanwhile.
SettingsFromRequests ==
    \A t \in Requests : Exists(t) => \A f \in Settings : FromRequest(t, f, config[t][f])

\* What a change asks of its tenant's status and config.
StatusAsked(r) ==
    CASE body[r].op = "update" -> body[r].status
      [] body[r].op = "offboard" -> "offboarding"
      [] OTHER -> "unchanged"

SettingsAsked(r) == IF body[r].op = "update" THEN body[r].settings ELSE {}

\* Another change of the same tenant has found it there.
Rival(q, r) == q # r /\ tenant[q] = tenant[r] /\ at[q] \notin {"idle", "started"}

\* What r was asked for is there, or another change of it has come since.
TookEffect(r) ==
    /\ Creates(r) => Exists(r)
    /\ body[r].op = "sync" => status[tenant[r]] \notin {"none", "onboarding"}
    /\ StatusAsked(r) # "unchanged" =>
          \/ status[tenant[r]] = StatusAsked(r)
          \/ \E q \in Requests : Rival(q, r) /\ StatusAsked(q) # "unchanged"
    /\ \A f \in SettingsAsked(r) :
          \/ config[tenant[r]][f] = r
          \/ \E q \in Requests : Rival(q, r) /\ SettingsAsked(q) # {}

\* The audit trail tells of nothing that did not happen: a record is of a request
\* that took effect and was not refused or answered with a failure, wherever
\* requests lost races, failed or were cut short (by a crash also between the
\* record and the answer).  A change that was recorded is undone by another
\* operator's change only: never by a sync, and never by one that failed first.
\* (That every change has a record is not so: a record that fails is only logged.)
AuditIsTrue == \A r \in audited : reply[r] \in {"none", "ok"} /\ TookEffect(r)

----
(* What the inductive invariant adds. *)

\* Nothing is known of a request that has not arrived; a handler that creates
\* is about its own tenant, and there is a row before the answer.
HandlersMatch ==
    \A r \in Requests :
        /\ at[r] = "idle" => home[r] = NoReplica /\ ~Exists(r)
        /\ at[r] # "idle" => body[r] \in Bodies
        /\ Exists(r) => at[r] \in {"written", "audited", "done"} /\ Creates(r)
        /\ at[r] # "done" => reply[r] = "none"
        /\ at[r] \in {"written", "audited"} /\ Creates(r) => Exists(r)
        /\ at[r] \in {"checked", "written", "audited"} /\ ~Creates(r) => Exists(tenant[r])

\* A session is held by one replica, and by none once it was consumed.
SessionsFresh ==
    /\ \A p \in Replicas : sessions[p] \subseteq started
    /\ \A p, q \in Replicas : sessions[p] \cap sessions[q] # {} => p = q
    /\ \A r \in Requests : Consumed(r) =>
          body[r].state \in started /\ \A p \in Replicas : body[r].state \notin sessions[p]

\* What an update has read came from requests too.
SeenFromRequests ==
    \A r \in Requests :
        at[r] = "checked" /\ body[r].op = "update" =>
            \A f \in Settings : FromRequest(tenant[r], f, seen[r][f])

\* The inductive invariant: what a handler may rely on after each of its awaits,
\* whatever the other requests did meanwhile.
IInv ==
    /\ TypeOK /\ HandlersMatch /\ OneTenantPerDirectory /\ AnswersAreTrue
    /\ SessionsFresh /\ ConsentOnce /\ SeenFromRequests /\ SettingsFromRequests

\* ... and for AuditIsTrue: a change of a tenant that is there takes effect with the
\* statement that makes it, and its record comes later.
EffectsStand ==
    \A r \in Requests :
        /\ r \in audited => at[r] \in {"audited", "done"}
        /\ at[r] \in {"written", "audited"} \/ r \in audited =>
              TookEffect(r) /\ (Creates(r) \/ Exists(tenant[r]))

----
(* What the handlers' answers say, which is not so. *)

\* "Tenant updated": what an update has set is not undone by one that did not
\* ask for that setting.
AcknowledgedSettingsKept ==
    \A r \in Requests, f \in Settings :
        reply[r] = "ok" /\ body[r].op = "update" /\ f \in body[r].settings =>
            config[tenant[r]][f] # tenant[r]
====
