---- MODULE Portal ----
(***************************************************************************)
(* One operator at the portal's pages: the cache of the browser            *)
(* (react-query), the routes it reads through, and the operations of the   *)
(* pages' buttons.                                                         *)
(*                                                                         *)
(* A page shows what the cache has, fetches what it lacks or what is old,  *)
(* and marks the lists an operation changed when the answer arrives.       *)
(* Fetches and operations run side by side, at any speed, and outlive the  *)
(* page they were started on.  A fetch that is refused with 401 waits for  *)
(* new tokens and is sent again (services/api.ts); whose tokens they are   *)
(* is ApiClient's matter.                                                  *)
(***************************************************************************)
EXTENDS PortalApi

CONSTANTS
    Pages,      \* pages the operator opens
    Shared,     \* tables that others write meanwhile
    MaxEvents   \* bound: clicks, changes of page or filter, reloads, others'
                \* writes, and entries that grow old

ASSUME EventsAssumption == MaxEvents \in Nat

VARIABLES
    db,         \* how often each table has been written
    page,       \* the page that is open
    choice,     \* its parameter
    cache,      \* the entry of each key
    calls,      \* the operations clicked so far
    events      \* what the bound counts
portalVars == <<db, page, choice, cache, calls, events>>

----
(* The pages. *)

UserListPage == [user_list |-> {"users", "user_stats"}]
UserDetailPage == [user |-> {"user", "user_licenses"}]
GroupListPage == [groups |-> {"groups"}]
PolicyListPage == [policies |-> {"policies"}]
AlertListPage == [alerts |-> {"alerts"}]
DeviceListPage == [devices |-> {"devices", "device_overview"}]
TenantListPage == [tenants |-> {"tenants"}]
TenantDetailPage == [tenant |-> {"tenant"}]
OnboardTenantPage == [onboard |-> {}]
DashboardPage == [dashboard |-> {"overview", "compliance"}]
AgentListPage == [agents |-> {"agents"}]
AuditTrailPage == [audit |-> {"audit_trail"}]
SettingsPage == [settings |-> {"accounts"}]
LoginPage == [login |-> {}]

Shows == Joined(<<UserListPage, UserDetailPage, GroupListPage, PolicyListPage, AlertListPage,
                  DeviceListPage, TenantListPage, TenantDetailPage, OnboardTenantPage,
                  DashboardPage, AgentListPage, AuditTrailPage, SettingsPage, LoginPage>>)

ASSUME PagesAssumption ==
    /\ Pages \subseteq DOMAIN Shows
    /\ "login" \in Pages
    /\ "onboard" \in Pages => "tenant" \in Pages

\* Tables that none of these pages reads are left out.
Observed == UNION {Shows[p] : p \in Pages}
Tables == TablesOf(Observed)

ASSUME SharedAssumption == Shared \subseteq Tables

\* The queries whose key has a parameter the page chooses: the filters of a
\* list, or which tenant.  Two values of each.
Filtered == {"users", "groups", "devices", "alerts", "tenants", "audit_trail"}
Keys ==
    {k \in Observed \X {0, 1} : k[2] = 1 => k[1] \in Filtered \cup {"tenant"}}

Buttons == [
    user_list |-> {"create_user"},
    user |-> {"operate_on_user", "change_license"},
    alerts |-> {"handle_alert"},
    tenant |-> {"sync"},
    onboard |-> {"onboard"},
    settings |-> {"create_account", "delete_account"}]

\* The queries an operation makes stale once it is answered.
ListInvalidation == [create_user |-> {"users", "user_stats"}]
LicenseInvalidation == [change_license |-> {"user_licenses"}]
AlertInvalidation == [handle_alert |-> {"alerts"}]
SyncInvalidation == [sync |-> {"tenant"}]
AccountInvalidation == [op \in {"create_account", "delete_account"} |-> {"accounts"}]

NoInvalidation == [op \in {"operate_on_user", "onboard"} |-> {}]

Invalidates == Joined(<<ListInvalidation, LicenseInvalidation, AlertInvalidation,
                        SyncInvalidation, AccountInvalidation, NoInvalidation>>)

\* Buttons that stay enabled while their operation is under way, and those that
\* stand for several, of which only one is disabled.
Repeatable == {"handle_alert", "delete_account", "operate_on_user", "change_license"}

----
(* The cache. *)

HasData(e) == DOMAIN e.data # {}
Busy(e) == e.step # 0

\* data: the version of each table in the rows shown, the oldest if it was read
\* twice; seen: the same of the fetch under way; step: its next statement; auth:
\* whether its request was refused, waits for new tokens or was sent again.
Empty == [data |-> <<>>, stale |-> FALSE, step |-> 0, seen |-> <<>>, tries |-> 0,
          auth |-> "fresh", overtaken |-> FALSE]

Begun(e) ==
    [e EXCEPT !.step = 1, !.seen = <<>>, !.tries = 0, !.auth = "fresh", !.overtaken = FALSE]

Renewing(e) == e.auth = "renewing"

Key(q, p) == <<q, IF <<q, p>> \in Keys THEN p ELSE 0>>

AgentKey == Key("agents", 0)

\* The keys a page observes; the licenses only below a user that is there.
Mounted(p, ch, c) ==
    {Key(q, ch) : q \in {r \in Shows[p] :
        r = "user_licenses" => HasData(c[Key("user", 0)])}}

\* An observer comes: it fetches what is absent or old, and joins what is under way.
Opened(c, ks) ==
    [k \in Keys |->
        IF k \in ks /\ ~Busy(c[k]) /\ (HasData(c[k]) => c[k].stale) THEN Begun(c[k]) ELSE c[k]]

Retries(k) == IF k[1] = "accounts" THEN 0 ELSE 1

----
PortalInit ==
    /\ db = [t \in Tables |-> 0]
    /\ page \in Pages
    /\ choice = 0
    /\ LET empty == [k \in Keys |-> Empty] IN cache = Opened(empty, Mounted(page, 0, empty))
    /\ calls = <<>>
    /\ events = 0

Counted == events < MaxEvents /\ events' = events + 1

\* What is on its way when the page goes: no button waits for it any more.
LeftBehind(cs) == [i \in DOMAIN cs |-> [cs[i] EXCEPT !.left = TRUE]]

GoTo(p, ch) ==
    /\ page' = p
    /\ choice' = ch
    /\ calls' = LeftBehind(calls)
    /\ cache' = Opened(cache, Mounted(p, ch, cache))

Visit(p) ==
    /\ Counted
    /\ p # page
    /\ GoTo(p, 0)
    /\ UNCHANGED db

\* Other filters are another key.
ChooseFilter ==
    /\ Counted
    /\ Shows[page] \cap Filtered # {}
    /\ choice' = 1 - choice
    /\ cache' = Opened(cache, Mounted(page, choice', cache))
    /\ UNCHANGED <<db, page, calls>>

\* A page is loaded with an empty cache: whatever was on its way is heard of no more.
Load(p) ==
    /\ page' = p
    /\ choice' = 0
    /\ LET empty == [k \in Keys |-> Empty] IN cache' = Opened(empty, Mounted(p, 0, empty))
    /\ calls' = [i \in DOMAIN calls |->
                   IF calls[i].shown = "pending" THEN [calls[i] EXCEPT !.shown = "gone"] ELSE calls[i]]
    /\ UNCHANGED db

\* By the operator; or, at the login page, because the refresh of an operation or of
\* a fetch that was cancelled has failed.
Reload == Counted /\ \E p \in {page, "login"} : Load(p)

----
(* Fetches. *)

\* The next statement of a query that reads a table not seen yet, or its end:
\* of a table read again the older version counts.
NextStep(q, i, seen) ==
    CHOOSE j \in i..Len(Reads[q]) + 1 :
        /\ j <= Len(Reads[q]) => ~(Reads[q][j] \subseteq seen)
        /\ \A n \in i..j - 1 : Reads[q][n] \subseteq seen

\* One statement of a route, with those that follow and tell nothing new.
Read(k) ==
    LET e == cache[k]
        seen == [t \in DOMAIN e.seen \cup Reads[k[1]][e.step] |->
                    IF t \in DOMAIN e.seen THEN e.seen[t] ELSE db[t]]
    IN
    /\ Busy(e) /\ ~Renewing(e) /\ e.step <= Len(Reads[k[1]])
    /\ cache' = [cache EXCEPT ![k].seen = seen,
                              ![k].step = NextStep(k[1], e.step + 1, DOMAIN seen)]
    /\ UNCHANGED <<db, page, choice, calls, events>>

\* The answer arrives; with a user come the user's licenses.
Arrive(k) ==
    LET e == cache[k]
        c == [cache EXCEPT ![k].data = e.seen, ![k].stale = FALSE,
                           ![k].step = 0, ![k].seen = <<>>, ![k].tries = 0,
                           ![k].auth = "fresh"]
    IN  /\ e.step > Len(Reads[k[1]])
        /\ cache' = Opened(c, Mounted(page, choice, c) \ Mounted(page, choice, cache))
        /\ UNCHANGED <<db, page, choice, calls, events>>

\* Refused with 401 before any statement, it waits for new tokens.
FetchRefused(k) ==
    LET e == cache[k] IN
    /\ e.step = 1 /\ e.auth = "fresh"
    /\ cache' = [cache EXCEPT ![k].auth = "renewing"]
    /\ UNCHANGED <<db, page, choice, calls, events>>

\* With these it is sent once more.
FetchRenewed(k) ==
    /\ Renewing(cache[k])
    /\ cache' = [cache EXCEPT ![k].auth = "renewed"]
    /\ UNCHANGED <<db, page, choice, calls, events>>

\* There are none: the operator is logged out and the login page is loaded.
RefreshFails(k) ==
    /\ Renewing(cache[k])
    /\ Load("login")
    /\ UNCHANGED events

\* The refresh has no timer; it is answered, or its connection breaks.
RefreshEnds(k) == FetchRenewed(k) \/ RefreshFails(k)

FetchFailsAgain(k) ==
    LET e == cache[k] IN
    /\ Busy(e) /\ ~Renewing(e)
    /\ cache' = [cache EXCEPT ![k].seen = <<>>,
                              ![k].step = IF k \in Mounted(page, choice, cache) THEN 1 ELSE 0,
                              ![k].auth = "fresh"]
    /\ UNCHANGED <<db, page, choice, calls, events>>

\* A statement fails, the row is gone, 30 s pass or a second 401 comes: one more try
\* if the page is still there.
FetchFails(k) ==
    LET e == cache[k]
        again == e.tries < Retries(k) /\ k \in Mounted(page, choice, cache)
    IN  /\ Busy(e) /\ ~Renewing(e)
        /\ cache' = [cache EXCEPT ![k].seen = <<>>,
                                  ![k].step = IF again THEN 1 ELSE 0,
                                  ![k].tries = IF again THEN e.tries + 1 ELSE 0,
                                  ![k].auth = "fresh"]
        /\ UNCHANGED <<db, page, choice, calls, events>>

\* 30 s after a fetch its rows are old.
AgeOut(k) ==
    /\ Counted
    /\ HasData(cache[k]) /\ ~cache[k].stale
    /\ cache' = [cache EXCEPT ![k].stale = TRUE]
    /\ UNCHANGED <<db, page, choice, calls>>

\* Entries nobody observes are dropped after 5 minutes.
Forget(k) ==
    /\ Counted
    /\ ~Busy(cache[k]) /\ cache[k] # Empty
    /\ k \notin Mounted(page, choice, cache)
    /\ cache' = [cache EXCEPT ![k] = Empty]
    /\ UNCHANGED <<db, page, choice, calls>>

PollWithoutError ==
    /\ AgentKey \in Mounted(page, choice, cache)
    /\ ~Busy(cache[AgentKey]) /\ HasData(cache[AgentKey])
    /\ cache' = [cache EXCEPT ![AgentKey] = Begun(@)]
    /\ UNCHANGED <<db, page, choice, calls, events>>

\* The list of agents is fetched every 30 s while it is open.
Poll ==
    /\ AgentKey \in Mounted(page, choice, cache)
    /\ ~Busy(cache[AgentKey])
    /\ cache' = [cache EXCEPT ![AgentKey] = Begun(@)]
    /\ UNCHANGED <<db, page, choice, calls, events>>

----
(* Operations. *)

\* The rows an operation is offered on.
Offered(op) ==
    CASE op \in {"operate_on_user", "change_license"} -> HasData(cache[Key("user", 0)])
      [] op = "handle_alert" -> HasData(cache[Key("alerts", choice)])
      [] op = "sync" -> HasData(cache[Key("tenant", choice)])
      [] op = "delete_account" -> HasData(cache[Key("accounts", 0)])
      [] OTHER -> TRUE

Click(op) ==
    /\ Counted
    /\ page \in DOMAIN Buttons /\ op \in Buttons[page]
    /\ Offered(op)
    /\ op \in Repeatable \/ \A i \in DOMAIN calls :
          calls[i].op = op => calls[i].left \/ calls[i].shown # "pending"
    /\ calls' = Append(calls, [op |-> op, param |-> choice, marks |-> choice, step |-> 1,
                               wrote |-> [t \in Tables |-> 0], answer |-> "none",
                               shown |-> "pending", left |-> FALSE])
    /\ UNCHANGED <<db, page, choice, cache>>

Working(i) == calls[i].answer = "none"

After(i) ==
    [calls[i] EXCEPT
        !.step = @ + 1,
        !.answer = IF calls[i].step = Len(Steps[calls[i].op]) THEN "ok" ELSE "none"]

\* One statement of a route; the answer follows the last.
Execute(i) ==
    LET s == Steps[calls[i].op][calls[i].step]
        t == s[2]
        writes == s[1] # "check" /\ t \in Tables
    IN  /\ Working(i)
        /\ db' = IF writes THEN [db EXCEPT ![t] = @ + 1] ELSE db
        /\ calls' = [calls EXCEPT ![i] =
              [After(i) EXCEPT !.wrote = IF writes THEN [@ EXCEPT ![t] = db[t] + 1] ELSE @]]
        /\ UNCHANGED <<page, choice, cache, events>>

StatementFails(i) ==
    LET s == Steps[calls[i].op][calls[i].step] IN
    /\ Working(i)
    /\ calls' = [calls EXCEPT ![i] =
           IF s[1] \in {"try", "audit"} THEN After(i) ELSE [@ EXCEPT !.answer = "failed"]]
    /\ UNCHANGED <<db, page, choice, cache, events>>

\* Only the list with the filters of the click.
ConcernedByKey(i) ==
    {k \in Keys : k[1] \in Invalidates[calls[i].op] /\ k[2] = calls[i].param}

\* The entries an answered operation concerns: all filters of a list, one tenant.
Concerned(i) ==
    {k \in Keys : k[1] \in Invalidates[calls[i].op] /\ (k[1] = "tenant" => k[2] = calls[i].marks)}

\* A page that stays open for a new tenant, its buttons' calls now speaking of that.
TurnedTo(p, cs) == [i \in DOMAIN cs |-> IF cs[i].left THEN cs[i] ELSE [cs[i] EXCEPT !.marks = p]]

\* Marked old.  A refetch on the page is started over; a first load, or a fetch
\* for a page that has gone, runs on, and its answer will take the mark away.
Invalidated(e, mounted) ==
    LET marked == [e EXCEPT !.stale = HasData(e)] IN
    IF mounted /\ (HasData(e) \/ ~Busy(e)) THEN Begun(marked)
    ELSE [marked EXCEPT !.overtaken = Busy(e)]

\* The answer reaches the browser, on whatever page it is by now; after an
\* onboarding it goes to the new tenant.
Confirm(i) ==
    LET c == [k \in Keys |->
                IF k \in Concerned(i)
                THEN Invalidated(cache[k], k \in Mounted(page, choice, cache)) ELSE cache[k]]
        answered == [calls EXCEPT ![i].shown = "ok"]
    IN  /\ calls[i].answer = "ok" /\ calls[i].shown = "pending"
        /\ IF calls[i].op = "onboard"
             THEN /\ page' = "tenant" /\ choice' = 1
                  /\ calls' = IF page = "tenant" THEN TurnedTo(1, answered) ELSE LeftBehind(answered)
                  /\ cache' = Opened(c, Mounted("tenant", 1, c))
             ELSE calls' = answered /\ cache' = c /\ UNCHANGED <<page, choice>>
        /\ UNCHANGED <<db, events>>

\* A refusal, an answer lost, or none within 30 s, though the route goes on.
Disappoint(i) ==
    /\ calls[i].shown = "pending"
    /\ calls' = [calls EXCEPT ![i].shown = "failed"]
    /\ UNCHANGED <<db, page, choice, cache, events>>

\* Another operator, an agent or a sync.
OthersWrite(t) ==
    /\ Counted
    /\ db' = [db EXCEPT ![t] = @ + 1]
    /\ UNCHANGED <<page, choice, cache, calls>>

----
FetchNext ==
    \E k \in Keys :
        \/ Read(k) \/ Arrive(k) \/ FetchFails(k)
        \/ FetchRefused(k) \/ FetchRenewed(k) \/ RefreshFails(k)
        \/ AgeOut(k) \/ Forget(k)

CallNext == \E i \in DOMAIN calls : Execute(i) \/ StatementFails(i) \/ Confirm(i) \/ Disappoint(i)

PortalNext ==
    \/ \E p \in Pages : Visit(p)
    \/ ChooseFilter \/ Reload \/ Poll
    \/ \E op \in Operations : Click(op)
    \/ \E t \in Shared : OthersWrite(t)
    \/ FetchNext
    \/ CallNext

PortalSpec == PortalInit /\ [][PortalNext]_portalVars

----
\* Versions of tables that the query q reads.
IsVersions(f, q) == DOMAIN f \subseteq TablesOf({q}) /\ f \in [DOMAIN f -> Nat]

IsEntry(e, q) ==
    /\ e \in [data: {e.data}, stale: BOOLEAN, step: Nat, seen: {e.seen}, tries: {0, 1},
              auth: {"fresh", "renewing", "renewed"}, overtaken: BOOLEAN]
    /\ IsVersions(e.data, q) /\ IsVersions(e.seen, q)

IsCache(c) == c = [k \in Keys |-> c[k]] /\ \A k \in Keys : IsEntry(c[k], k[1])

CallRecords == [op: Operations, param: {0, 1}, marks: {0, 1}, step: Nat \ {0},
                wrote: [Tables -> Nat], answer: {"none", "ok", "failed"},
                shown: {"pending", "ok", "failed", "gone"}, left: BOOLEAN]

PortalTypeOK ==
    /\ db \in [Tables -> Nat]
    /\ page \in Pages
    /\ choice \in {0, 1}
    /\ IsCache(cache)
    /\ calls \in Seq(CallRecords)
    /\ events \in 0..MaxEvents

PageOf(op) == CHOOSE p \in DOMAIN Buttons : op \in Buttons[p]

\* Once an operation is shown as done, none of the lists of its page is taken for
\* up to date without the change: not here, not with other filters, not on the
\* way back (AlertListPage.tsx:28, TenantDetailPage.tsx:34, SettingsPage.tsx:146).
\* The exceptions are a fetch under way that the answer did not start over, and a
\* sync whose page has turned to a newly onboarded tenant before its answer.
ChangeIsShown ==
    \A i \in DOMAIN calls : calls[i].shown = "ok" /\ calls[i].marks = calls[i].param =>
        \A k \in Keys :
            LET e == cache[k] IN
            /\ k[1] \in Shows[PageOf(calls[i].op)]
            /\ k[1] = "tenant" => k[2] = calls[i].param
            /\ HasData(e) /\ ~e.stale /\ ~e.overtaken
            => \A t \in DOMAIN e.data : e.data[t] >= calls[i].wrote[t]

\* No page loads for ever, even if the API never answers a read, its last one or one
\* sent again with new tokens: again and again there is nothing under way
\* (main.tsx:12, services/api.ts:7).  The refresh in between has no timer; it is
\* assumed to be answered or its connection to break, and then the page is left.
LoadsSettle == []<>(\A k \in Keys : ~Busy(cache[k]))

\* The agents page, left open, shows what has become of the agents in the end, when
\* nothing changes any more: though its requests may fail or be refused again and
\* again, if only some are answered again and again.  Neither an error nor rows it has
\* already ends its asking (AgentListPage.tsx:11).
AgentsCatchUp ==
    /\ <>[](page = "agents")
    /\ SF_portalVars(Read(AgentKey)) /\ SF_portalVars(Arrive(AgentKey))
    => <>[](HasData(cache[AgentKey])
            /\ \A t \in DOMAIN cache[AgentKey].data : cache[AgentKey].data[t] = db[t])

----
(* Why the invariant holds: what is true of every state, entry by entry and     *)
(* call by call.                                                                *)

\* A call comes from a page, goes through its steps one by one, and is answered at
\* the last.
StepByStep(c) ==
    /\ PageOf(c.op) \in Pages
    /\ c.marks \in {c.param, 1}
    /\ c.answer = "none" => c.step <= Len(Steps[c.op])
    /\ c.shown = "ok" => c.answer = "ok"

\* Its writes are among its steps, and are in the database d.
Done(c, d) ==
    \A t \in Tables :
        /\ c.wrote[t] > 0 =>
              \E j \in DOMAIN Steps[c.op] : Steps[c.op][j][1] # "check" /\ Steps[c.op][j][2] = t
        /\ c.wrote[t] <= d[t]

\* No version of f is older than that of w.
AsNew(f, w) == \A t \in DOMAIN f : f[t] >= w[t]

\* What an entry shows, or is about to, has the writes w.
Fresh(e, w) == ~e.overtaken =>
    /\ HasData(e) /\ ~e.stale => AsNew(e.data, w)
    /\ Busy(e) => AsNew(e.seen, w)

\* A key that the page of a call c shows.
OfItsPage(k, c) == k[1] \in Shows[PageOf(c.op)] /\ (k[1] = "tenant" => k[2] = c.param)

\* Once a call is shown as done, its page's entries are fresh.
Shown(c, entries) ==
    c.shown = "ok" /\ c.marks = c.param =>
        \A k \in Keys : OfItsPage(k, c) => Fresh(entries[k], c.wrote)

PortalInv ==
    /\ PortalTypeOK
    /\ \A i \in DOMAIN calls : StepByStep(calls[i]) /\ Done(calls[i], db) /\ Shown(calls[i], cache)

----
\* Timers fire: that of axios ends a request, that of the list starts the next.
\* A refresh ends.  Nothing is assumed of the routes.
PortalFairSpec ==
    /\ PortalSpec
    /\ WF_portalVars(Poll)
    /\ WF_portalVars(\E k \in Keys \cap {AgentKey} : FetchFails(k))
    /\ WF_portalVars(\E k \in Keys \ {AgentKey} : FetchFails(k))
    /\ WF_portalVars(\E k \in Keys \cap {AgentKey} : RefreshEnds(k))
    /\ WF_portalVars(\E k \in Keys \ {AgentKey} : RefreshEnds(k))
====
