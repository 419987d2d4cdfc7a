---- MODULE SchemaUpgrade ----
(***************************************************************************)
(* What runMigrations of src/src/api/models/database.ts and start of       *)
(* src/src/api/server.ts promise, whichever processes run them side by     *)
(* side and wherever one ends: the schema is at a whole version and only   *)
(* goes on to later ones, and a process serves at a version that is there. *)
(***************************************************************************)
CONSTANTS
    Versions,   \* numbers of the versions of the schema, 0 for the empty one
    Content,    \* what each version consists of
    Replicas    \* the API processes

VARIABLES
    schema,     \* what exists
    serves      \* the version each process serves at, 0 while it does not

vars == <<schema, serves>>

Init ==
    /\ schema = Content[0]
    /\ serves = [r \in Replicas |-> 0]

Upgrade(v) ==
    /\ schema # Content[v] /\ schema \subseteq Content[v]
    /\ schema' = Content[v]
    /\ UNCHANGED serves

Serve(r, v) ==
    /\ serves[r] = 0
    /\ Content[v] \subseteq schema
    /\ serves' = [serves EXCEPT ![r] = v]
    /\ UNCHANGED schema

Stop(r) ==
    /\ serves' = [serves EXCEPT ![r] = 0]
    /\ UNCHANGED schema

Next ==
    \/ \E v \in Versions : Upgrade(v)
    \/ \E r \in Replicas, v \in Versions : Serve(r, v)
    \/ \E r \in Replicas : Stop(r)

Spec == Init /\ [][Next]_vars
====
