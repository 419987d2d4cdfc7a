---- MODULE DashboardAccounts ----
(***************************************************************************)
(* The accounts of the dashboard's operators: the handlers of              *)
(* src/src/api/routes/auth.ts, the one-time sessions of single sign-on and *)
(* the default administrator a starting process seeds.                     *)
(*                                                                         *)
(* A handler runs alone between two awaits; the statements of requests at  *)
(* any replica interleave in the shared database.  An account's id is      *)
(* drawn by the request that creates it, and a password chosen by one, so  *)
(* the request stands for both.  Whoever has had an account may still hold *)
(* its tokens: access tokens for an hour, refresh tokens for a week.       *)
(* The audit trail is TenantLifecycle's; the rate limit is left out.       *)
(***************************************************************************)
EXTENDS Naturals

CONSTANTS
    Requests,
    Replicas,           \* API processes
    Emails, DefaultEmail,
    Identities,         \* users of Microsoft Entra ID, by their oid
    States,             \* the state parameters of sign-ins, fresh uuids
    Bodies,             \* what is asked for
    DefaultPassword,    \* the seeded administrator's, from the environment
    NoPassword, NoIdentity, NoAccount, NoBody, NoReplica

Roles == {"superadmin", "admin", "operator", "viewer"}

Body == [op: {"seed", "login", "refresh", "password", "create", "delete", "sso"},
         email: Emails, role: Roles,                \* of the account to create
         identity: Identities, state: States]       \* of a single sign-on

ASSUME BodiesAssumption ==
    /\ Bodies \subseteq Body /\ NoBody \notin Body
    /\ \A b \in Bodies : b.op = "seed" => b.email = DefaultEmail /\ b.role = "superadmin"
    /\ \A b \in Bodies : b.op = "sso" => b.role = "viewer"
ASSUME DistinctAssumption ==
    /\ {DefaultPassword, NoPassword, NoAccount} \cap Requests = {}
    /\ DefaultPassword # NoPassword
    /\ NoIdentity \notin Identities
    /\ NoReplica \notin Replicas

VARIABLES
    body,       \* what each request asks for
    home,       \* the replica that handles it
    token,      \* the account whose token it carries
    names,      \* the account it is to delete, or the password it gives
    late,       \* what it signs in with had ended before it arrived (history)
    at,         \* how far its handler has come
    found,      \* the account a sign-on has read or provisioned
    reply,      \* what it was answered; "none" also when its process ended first
    live,       \* the rows of dashboard_users
    ever,       \* the rows there have been
    password,   \* whose hash is in password_hash
    identity,   \* entra_oid; auth_provider is 'microsoft' where there is one
    sessions,   \* ssoSessions of each replica
    started,    \* states handed out so far
    up          \* the processes that serve requests

request == <<body, home, token, names, late>>
row == <<live, ever, password, identity>>
sso == <<sessions, started>>
vars == <<request, at, found, reply, row, sso, up>>

TypeOK ==
    /\ body \in [Requests -> Bodies \cup {NoBody}]
    /\ home \in [Requests -> Replicas \cup {NoReplica}]
    /\ token \in [Requests -> Requests]
    /\ names \in [Requests -> Requests \cup {DefaultPassword}]
    /\ late \in [Requests -> BOOLEAN]
    /\ at \in [Requests -> {"idle", "started", "checked", "written", "done"}]
    /\ found \in [Requests -> Requests \cup {NoAccount}]
    /\ reply \in [Requests -> {"none", "ok", "refused", "conflict", "invalidState", "failed"}]
    /\ live \subseteq ever /\ ever \subseteq Requests
    /\ password \in [Requests -> Requests \cup {DefaultPassword, NoPassword}]
    /\ identity \in [Requests -> Identities \cup {NoIdentity}]
    /\ sessions \in [Replicas -> SUBSET States]
    /\ started \subseteq States
    /\ up \subseteq Replicas

Init ==
    /\ body = [r \in Requests |-> NoBody]
    /\ home = [r \in Requests |-> NoReplica]
    /\ token = [r \in Requests |-> r]
    /\ names = [r \in Requests |-> r]
    /\ late = [r \in Requests |-> FALSE]
    /\ at = [r \in Requests |-> "idle"]
    /\ found = [r \in Requests |-> NoAccount]
    /\ reply = [r \in Requests |-> "none"]
    /\ live = {} /\ ever = {}
    /\ password = [r \in Requests |-> NoPassword]
    /\ identity = [r \in Requests |-> NoIdentity]
    /\ sessions = [p \in Replicas |-> {}]
    /\ started = {}
    /\ up = {}

EmailOf(a) == body[a].email
RoleOf(a) == body[a].role

\* A password login looks at a local account's hash only.
Opens(w, a) == password[a] = w /\ identity[a] = NoIdentity

\* The UNIQUE columns of the table.
Clash(r, i) ==
    \E a \in live : EmailOf(a) = EmailOf(r) \/ (i # NoIdentity /\ identity[a] = i)

Ends(r, outcome) ==
    /\ at' = [at EXCEPT ![r] = "done"]
    /\ reply' = [reply EXCEPT ![r] = outcome]

Goes(r, to) == at' = [at EXCEPT ![r] = to] /\ UNCHANGED reply

Insert(r, w, i) ==
    /\ live' = live \cup {r}
    /\ ever' = ever \cup {r}
    /\ password' = [password EXCEPT ![r] = w]
    /\ identity' = [identity EXCEPT ![r] = i]

----
(* Processes start. *)

Launched(p) == p \notin up /\ \A r \in Requests : home[r] = p => at[r] = "done"

\* There is a superadmin: nothing to seed.
Start(p) ==
    /\ Launched(p)
    /\ \E a \in live : RoleOf(a) = "superadmin"
    /\ up' = up \cup {p}
    /\ UNCHANGED <<request, at, found, reply, row, sso>>

\* There is none: the process goes on to insert one.
SeedDefaultAdmin(p, r, b) ==
    /\ Launched(p)
    /\ \A a \in live : RoleOf(a) # "superadmin"
    /\ b.op = "seed" /\ at[r] = "idle"
    /\ body' = [body EXCEPT ![r] = b]
    /\ home' = [home EXCEPT ![r] = p]
    /\ Goes(r, "checked")
    /\ UNCHANGED <<token, names, late, found, row, sso, up>>

\* INSERT ... ON CONFLICT (email) DO NOTHING.
InsertDefaultAdmin(r) ==
    /\ at[r] = "checked" /\ body[r].op = "seed"
    /\ IF Clash(r, NoIdentity) THEN UNCHANGED row ELSE Insert(r, DefaultPassword, NoIdentity)
    /\ Ends(r, "ok")
    /\ up' = up \cup {home[r]}
    /\ UNCHANGED <<request, found, sso>>

----
(* Requests arrive. *)

Receive(r, p, b, a, w) ==
    /\ p \in up
    /\ body' = [body EXCEPT ![r] = b]
    /\ home' = [home EXCEPT ![r] = p]
    /\ token' = [token EXCEPT ![r] = a]
    /\ names' = [names EXCEPT ![r] = w]

\* A chosen password that opens no account any more, and never will.
PasswordEnded(w) ==
    w \in Requests /\ at[w] \in {"written", "done"} /\ \A a \in live : ~Opens(w, a)

AccountEnded(a) == a \in ever \ live

\* Login, a refresh and a change of password: all look the account up first.
ArriveToProve(r, p, b, a, w) ==
    /\ at[r] = "idle"
    /\ \/ b.op = "login" /\ a = r
       \/ b.op = "refresh" /\ a \in ever /\ w = r
       \/ b.op = "password" /\ a \in ever
    /\ Receive(r, p, b, a, w)
    /\ b.op # "refresh" => w \in {DefaultPassword} \cup {x \in Requests : at[x] # "idle"}
    /\ late' = [late EXCEPT ![r] = \/ b.op # "login" /\ AccountEnded(a)
                                   \/ b.op # "refresh" /\ PasswordEnded(w)]
    /\ Goes(r, "started")
    /\ UNCHANGED <<found, row, sso, up>>

\* Creating and deleting accounts: the role in the token is looked at first.
ArriveToManage(r, p, b, a, t) ==
    /\ at[r] = "idle" /\ b.op \in {"create", "delete"} /\ a \in ever
    /\ IF b.op = "create" THEN t = r ELSE t = r \/ t \in ever
    /\ Receive(r, p, b, a, t)
    /\ IF \/ RoleOf(a) \notin {"admin", "superadmin"}
          \/ b.op = "create" /\ b.role = "superadmin" /\ RoleOf(a) # "superadmin"
          \/ b.op = "delete" /\ t = a
       THEN Ends(r, "refused")
       ELSE Goes(r, "started")
    /\ UNCHANGED <<late, found, row, sso, up>>

SsoAuthorize(p, s) ==
    /\ p \in up /\ s \notin started
    /\ started' = started \cup {s}
    /\ sessions' = [sessions EXCEPT ![p] = @ \cup {s}]
    /\ UNCHANGED <<request, at, found, reply, row, up>>

\* The sweep of sessions older than 10 minutes.
SweepSession(p, s) ==
    /\ s \in sessions[p]
    /\ sessions' = [sessions EXCEPT ![p] = @ \ {s}]
    /\ UNCHANGED <<request, at, found, reply, row, started, up>>

\* The session deleted only once the sign-in has succeeded.
SsoCallbackKeepsSession(r, p, b) ==
    /\ at[r] = "idle" /\ b.op = "sso"
    /\ Receive(r, p, b, r, r)
    /\ IF b.state \in sessions[p] THEN Goes(r, "started") ELSE Ends(r, "invalidState")
    /\ UNCHANGED <<late, found, row, sso, up>>

\* The session is looked up and deleted before the first await.
SsoCallback(r, p, b) ==
    /\ at[r] = "idle" /\ b.op = "sso"
    /\ Receive(r, p, b, r, r)
    /\ sessions' = [sessions EXCEPT ![p] = @ \ {b.state}]
    /\ IF b.state \in sessions[p] THEN Goes(r, "started") ELSE Ends(r, "invalidState")
    /\ UNCHANGED <<late, found, row, started, up>>

----
(* One statement of a handler, each after an await. *)

\* The account by its e-mail, its password and its provider; what follows sets
\* last_login, signs the tokens and answers with them.
Login(r) ==
    /\ at[r] = "started" /\ body[r].op = "login"
    /\ IF \E a \in live : EmailOf(a) = EmailOf(r) /\ Opens(names[r], a)
       THEN Goes(r, "written")
       ELSE Ends(r, "refused")
    /\ UNCHANGED <<request, found, row, sso, up>>

\* A refresh that trusts its token.
RefreshTrusting(r) ==
    /\ at[r] = "started" /\ body[r].op = "refresh"
    /\ Ends(r, "ok")
    /\ UNCHANGED <<request, found, row, sso, up>>

\* The account of the refresh token must still be there.
Refresh(r) ==
    /\ at[r] = "started" /\ body[r].op = "refresh"
    /\ Ends(r, IF token[r] \in live THEN "ok" ELSE "refused")
    /\ UNCHANGED <<request, found, row, sso, up>>

CheckPassword(r) ==
    /\ at[r] = "started" /\ body[r].op = "password"
    /\ IF token[r] \in live /\ Opens(names[r], token[r])
       THEN Goes(r, "checked")
       ELSE Ends(r, "refused")
    /\ UNCHANGED <<request, found, row, sso, up>>

\* The UPDATE is by id: it changes no row where the account is gone.
ChangePassword(r) ==
    /\ at[r] = "checked" /\ body[r].op = "password"
    /\ password' = IF token[r] \in live THEN [password EXCEPT ![token[r]] = r] ELSE password
    /\ Goes(r, "written")
    /\ UNCHANGED <<request, found, live, ever, identity, sso, up>>

CheckUnique(r) ==
    /\ at[r] = "started" /\ body[r].op = "create"
    /\ IF Clash(r, NoIdentity) THEN Ends(r, "conflict") ELSE Goes(r, "checked")
    /\ UNCHANGED <<request, found, row, sso, up>>

\* An INSERT ... ON CONFLICT DO NOTHING.
CreateAccountQuietly(r) ==
    /\ at[r] = "checked" /\ body[r].op = "create"
    /\ IF Clash(r, NoIdentity) THEN UNCHANGED row ELSE Insert(r, r, NoIdentity)
    /\ Goes(r, "written")
    /\ UNCHANGED <<request, found, sso, up>>

\* An account created since the check makes the INSERT fail.
CreateAccount(r) ==
    /\ at[r] = "checked" /\ body[r].op = "create"
    /\ IF Clash(r, NoIdentity)
       THEN Ends(r, "failed") /\ UNCHANGED row
       ELSE Goes(r, "written") /\ Insert(r, r, NoIdentity)
    /\ UNCHANGED <<request, found, sso, up>>

\* Only a superadmin deletes a superadmin.
CheckTarget(r) ==
    /\ at[r] = "started" /\ body[r].op = "delete"
    /\ IF /\ names[r] \in live
          /\ RoleOf(names[r]) = "superadmin" => RoleOf(token[r]) = "superadmin"
       THEN Goes(r, "checked")
       ELSE Ends(r, "refused")
    /\ UNCHANGED <<request, found, row, sso, up>>

DeleteAccount(r) ==
    /\ at[r] = "checked" /\ body[r].op = "delete"
    /\ live' = live \ {names[r]}
    /\ Goes(r, "written")
    /\ UNCHANGED <<request, found, ever, password, identity, sso, up>>

\* Whoever Microsoft says has signed in, by oid or by e-mail: two rows may
\* match, and the query returns either first.
FindIdentity(r) ==
    /\ at[r] = "started" /\ body[r].op = "sso"
    /\ \E a \in live \cup {NoAccount} :
          /\ IF a = NoAccount
             THEN ~Clash(r, body[r].identity)
             ELSE EmailOf(a) = EmailOf(r) \/ identity[a] = body[r].identity
          /\ found' = [found EXCEPT ![r] = a]
    /\ Goes(r, "checked")
    /\ UNCHANGED <<request, row, sso, up>>

\* A table without the UNIQUE constraints.
ProvisionUnconstrained(r) ==
    /\ at[r] = "checked" /\ body[r].op = "sso" /\ found[r] = NoAccount
    /\ Insert(r, NoPassword, body[r].identity)
    /\ found' = [found EXCEPT ![r] = r]
    /\ Goes(r, "written")
    /\ UNCHANGED <<request, sso, up>>

\* A first sign-in provisions a viewer; another of the same identity may have
\* done so since.
Provision(r) ==
    /\ at[r] = "checked" /\ body[r].op = "sso" /\ found[r] = NoAccount
    /\ IF Clash(r, body[r].identity)
       THEN Ends(r, "failed") /\ UNCHANGED <<found, row>>
       ELSE /\ Insert(r, NoPassword, body[r].identity)
            /\ found' = [found EXCEPT ![r] = r]
            /\ Goes(r, "written")
    /\ UNCHANGED <<request, sso, up>>

\* A later one links the account that was read, if its row is still there and
\* no other row has the identity.
Link(r) ==
    /\ at[r] = "checked" /\ body[r].op = "sso" /\ found[r] # NoAccount
    /\ LET a == found[r]
           taken == \E x \in live \ {a} : identity[x] = body[r].identity
       IN  IF a \in live /\ taken
           THEN Ends(r, "failed") /\ UNCHANGED identity
           ELSE /\ Goes(r, "written")
                /\ identity' = IF a \in live
                               THEN [identity EXCEPT ![a] = body[r].identity] ELSE identity
    /\ UNCHANGED <<request, found, live, ever, password, sso, up>>

\* A row that is not there when it is read back is inserted again.
FinishInsertsAgain(r) ==
    /\ at[r] = "written"
    /\ Ends(r, "ok")
    /\ live' = IF body[r].op = "sso" /\ found[r] = r THEN live \cup {r} ELSE live
    /\ UNCHANGED <<request, found, ever, password, identity, sso, up>>

\* The audit record, then the answer; the row just provisioned is read back.
Finish(r) ==
    /\ at[r] = "written"
    /\ IF body[r].op = "sso" /\ found[r] = r /\ r \notin live
       THEN Ends(r, "failed")
       ELSE Ends(r, "ok")
    /\ UNCHANGED <<request, found, row, sso, up>>

\* The database or Microsoft fails; a process that cannot seed does not start.
Fail(r) ==
    /\ at[r] \in {"started", "checked", "written"}
    /\ Ends(r, "failed")
    /\ UNCHANGED <<request, found, row, sso, up>>

\* A process ends: its handlers stop where they are.
Crash(p) ==
    /\ at' = [r \in Requests |-> IF home[r] = p THEN "done" ELSE at[r]]
    /\ sessions' = [sessions EXCEPT ![p] = {}]
    /\ up' = up \ {p}
    /\ UNCHANGED <<request, found, reply, row, started>>

Next ==
    \/ \E p \in Replicas : Start(p)
    \/ \E p \in Replicas, r \in Requests, b \in Bodies : SeedDefaultAdmin(p, r, b)
    \/ \E r \in Requests : InsertDefaultAdmin(r)
    \/ \E r, a \in Requests, p \in Replicas, b \in Bodies, w \in Requests \cup {DefaultPassword} :
          ArriveToProve(r, p, b, a, w)
    \/ \E r, a, t \in Requests, p \in Replicas, b \in Bodies : ArriveToManage(r, p, b, a, t)
    \/ \E p \in Replicas, s \in States : SsoAuthorize(p, s)
    \/ \E p \in Replicas, s \in States : SweepSession(p, s)
    \/ \E r \in Requests, p \in Replicas, b \in Bodies : SsoCallback(r, p, b)
    \/ \E r \in Requests : Login(r)
    \/ \E r \in Requests : Refresh(r)
    \/ \E r \in Requests : CheckPassword(r)
    \/ \E r \in Requests : ChangePassword(r)
    \/ \E r \in Requests : CheckUnique(r)
    \/ \E r \in Requests : CreateAccount(r)
    \/ \E r \in Requests : CheckTarget(r)
    \/ \E r \in Requests : DeleteAccount(r)
    \/ \E r \in Requests : FindIdentity(r)
    \/ \E r \in Requests : Provision(r)
    \/ \E r \in Requests : Link(r)
    \/ \E r \in Requests : Finish(r)
    \/ \E r \in Requests : Fail(r)
    \/ \E p \in Replicas : Crash(p)

Spec == Init /\ [][Next]_vars

----
(* Correctness. *)

\* However many first sign-ins, seeds and creations find nobody before the
\* first of them inserts, an e-mail and an Entra user have one account.
OneAccountPerIdentity ==
    \A a, c \in live :
        EmailOf(a) = EmailOf(c) \/ (identity[a] = identity[c] /\ identity[a] # NoIdentity) => a = c

\* What had ended when a request arrived never serves it, whatever else goes on
\* meanwhile: a refresh token whose account was deleted, up to a week before,
\* and a chosen password that was replaced, or whose account was deleted or
\* linked to Microsoft.
CredentialsEnd == \A r \in Requests : late[r] => reply[r] # "ok"

\* A callback got past the session: it was not refused for its state.
Consumed(r) ==
    at[r] # "idle" /\ body[r].op = "sso" /\ reply[r] # "invalidState"

\* The session of a sign-in serves one callback, at whichever replica and
\* however often it is sent.
SsoOnce ==
    \A r, t \in Requests :
        Consumed(r) /\ Consumed(t) /\ body[r].state = body[t].state => r = t

\* A state is open while the session of some replica is there.
SessionOf(s) ==
    IF s \notin started THEN "unissued"
    ELSE IF \E p \in Replicas : s \in sessions[p] THEN "open" ELSE "closed"

ServedBy(s) == {r \in Requests : Consumed(r) /\ body[r].state = s}

SignIns == INSTANCE OneTimeSession WITH
    session <- [s \in States |-> SessionOf(s)],
    served <- [s \in States |-> ServedBy(s)]

\* The Maps of all replicas together are one session a state: it lets in one
\* callback, whichever replica each is sent to, and once a callback, the sweep
\* or the end of a process has closed it nothing opens it again.
SignInIsOneTime == SignIns!Spec

\* The answer to a creation, a deletion or a sign-on is the truth, also for the
\* loser of a race: the account was created or was not, the one deleted stays
\* away whatever handlers still hold its row, and the one signed on to had a row.
AnswersAreTrue ==
    \A r \in Requests :
        /\ reply[r] = "ok" /\ body[r].op = "create" => r \in ever
        /\ reply[r] = "ok" /\ body[r].op = "delete" => names[r] \notin live
        /\ reply[r] = "ok" /\ body[r].op = "sso" => found[r] \in ever
        /\ reply[r] \in {"refused", "conflict"} => r \notin ever

\* No statement brings an account back, and none gives an account linked to
\* Microsoft back to its password, however old the row its handler has read.
AccountsGoForward ==
    [][\A a \in ever :
          /\ a \notin live => a \notin live'
          /\ identity[a] # NoIdentity => identity'[a] # NoIdentity]_vars

----
(* What the inductive invariant adds. *)

\* How far a handler has come tells what it has done to the table.
HandlersMatch ==
    \A r \in Requests :
        /\ at[r] # "idle" => body[r] \in Bodies /\ home[r] \in Replicas
        /\ at[r] = "idle" => home[r] = NoReplica /\ ~late[r]
        /\ at[r] # "done" => reply[r] = "none"
        /\ at[r] \in {"idle", "started", "checked"} => r \notin ever
        /\ r \in ever => body[r].op \in {"seed", "create", "sso"}
        /\ at[r] = "written" /\ body[r].op = "create" => r \in ever
        /\ at[r] = "written" /\ body[r].op = "sso" => found[r] \in ever
        /\ found[r] # NoAccount => found[r] \in ever
        /\ at[r] = "checked" /\ body[r].op = "delete" => names[r] \in ever
        /\ (at[r] = "written" \/ reply[r] = "ok") /\ body[r].op = "delete" =>
              names[r] \in ever \ live

\* A session is held by one replica, and by none once it was consumed.
SessionsFresh ==
    /\ \A p \in Replicas : sessions[p] \subseteq started
    /\ \A p, q \in Replicas : sessions[p] \cap sessions[q] # {} => p = q
    /\ \A r \in Requests : Consumed(r) =>
          body[r].state \in started /\ \A p \in Replicas : body[r].state \notin sessions[p]

\* What had ended has ended for good, so no handler gets past its look-up.
LateIsRefused ==
    \A r \in Requests : late[r] =>
        /\ at[r] \in {"started", "done"}
        /\ \/ body[r].op \in {"refresh", "password"} /\ AccountEnded(token[r])
           \/ body[r].op \in {"login", "password"} /\ PasswordEnded(names[r])

\* The inductive invariant: what a handler may rely on after each of its awaits.
IInv ==
    /\ TypeOK /\ HandlersMatch /\ OneAccountPerIdentity /\ AnswersAreTrue
    /\ SessionsFresh /\ SsoOnce /\ LateIsRefused /\ CredentialsEnd
====
