---- MODULE MCPortal ----
(* The portal's pages on a small instance. *)
EXTENDS Portal

\* Every button but that of the list of users, and one of each kind of list.
MCPages == {"alerts", "tenant", "agents", "onboard", "user", "settings", "login"}
MCShared == {"security_alerts", "agent_connections"}
====
