---- MODULE MCDashboardAccounts ----
EXTENDS DashboardAccounts, TLC

CONSTANTS p1, i1, e1, s1

Blank == [op |-> "refresh", email |-> DefaultEmail, role |-> "viewer",
          identity |-> i1, state |-> s1]

Seed == [Blank EXCEPT !.op = "seed", !.role = "superadmin"]

Login1(e) == [Blank EXCEPT !.op = "login", !.email = e]

CreateAs(role) == [Blank EXCEPT !.op = "create", !.email = e1, !.role = role]

SignOn(i, e) == [Blank EXCEPT !.op = "sso", !.identity = i, !.email = e]

\* What makes accounts and passwords, what ends them, what may still hold them,
\* and an Entra user who takes over the e-mail of the default administrator: the
\* look-up may then match two rows.
AllBodies ==
    {Seed, Blank, Login1(e1), [Blank EXCEPT !.op = "password"],
     [Blank EXCEPT !.op = "delete"], CreateAs("admin"),
     SignOn(i1, e1), SignOn(i1, DefaultEmail)}

Symmetry == Permutations(Requests)
====
