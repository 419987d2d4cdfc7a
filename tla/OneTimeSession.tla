---- MODULE OneTimeSession ----
(***************************************************************************)
(* What the consent flow of src/src/api/routes/tenants.ts and single       *)
(* sign-on of src/src/api/routes/auth.ts promise of the state parameter    *)
(* they hand out: it is handed out once, lets one request in, and never    *)
(* opens again once a request, the sweep or the end of a process closed it. *)
(***************************************************************************)
CONSTANTS States, Requests

VARIABLES
    session,    \* of each state
    served      \* the requests each state has let in

vars == <<session, served>>

TypeOK ==
    /\ session \in [States -> {"unissued", "open", "closed"}]
    /\ served \in [States -> SUBSET Requests]

Init ==
    /\ session = [s \in States |-> "unissued"]
    /\ served = [s \in States |-> {}]

Become(s, from, to) ==
    /\ session[s] = from
    /\ session' = [session EXCEPT ![s] = to]

Issue(s) == Become(s, "unissued", "open") /\ UNCHANGED served

Redeem(s, r) ==
    /\ Become(s, "open", "closed")
    /\ served' = [served EXCEPT ![s] = {r}]

\* The sweep closes one, the end of a process all it held.
Close(ended) ==
    /\ \A s \in ended : session[s] = "open"
    /\ session' = [s \in States |-> IF s \in ended THEN "closed" ELSE session[s]]
    /\ UNCHANGED served

Next ==
    \/ \E ended \in SUBSET States : Close(ended)
    \/ \E s \in States : Issue(s)
    \/ \E s \in States, r \in Requests : Redeem(s, r)

Spec == Init /\ [][Next]_vars
====
