---- MODULE MCTenantLifecycle ----
EXTENDS TenantLifecycle, TLC

CONSTANTS p1, p2, d1, d2, e1, e2, s1, interval, retention

Blank == [op |-> "sync", domain |-> d1, directory |-> e1, state |-> s1,
          status |-> "unchanged", settings |-> {}]

Onboarding(d, e) == [Blank EXCEPT !.op = "onboard", !.domain = d, !.directory = e]

Consent(d, e) == [Onboarding(d, e) EXCEPT !.op = "consent"]

Update(s, fs) == [Blank EXCEPT !.op = "update", !.status = s, !.settings = fs]

\* Two tenants that do not clash, and a consent whose directory is the one's and
\* whose default domain the other's.
CreationBodies == {Onboarding(d1, e1), Onboarding(d2, e2), Consent(d2, e1)}

\* Everything that can be done to a tenant.
ChangeBodies == {Blank, [Blank EXCEPT !.op = "offboard"], Update("active", {interval})}

AllBodies == CreationBodies \cup ChangeBodies

\* With a second kind of update, of another setting and status.
UpdateBodies == {Onboarding(d1, e1), Update("suspended", {retention})} \cup ChangeBodies

Symmetry == Permutations(Replicas) \cup Permutations(Requests)
====
