---- MODULE MCSchemaMigrations ----
(* Three replicas; replicas are model values. *)
EXTENDS SchemaMigrations
====
