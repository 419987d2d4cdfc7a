---- MODULE MCApiClient ----
EXTENDS ApiClient, TLC

CONSTANTS c1, c2, c3, a1, a2

Ask(o, a) == [op |-> o, as |-> a]

\* Nothing happens before a first login; then two calls side by side, one of
\* them perhaps the login of the next operator.
TwoOperators ==
    c1 :> {Ask("login", a1)} @@
    c2 :> {Ask("change", a1), Ask("password", a1)} @@
    c3 :> {Ask("login", a2), Ask("read", a1), Ask("change", a1)}
====
