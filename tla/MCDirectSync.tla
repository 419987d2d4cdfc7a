---- MODULE MCDirectSync ----
EXTENDS DirectSync, TLC

\* Users, whose listing may come in one page or in several.
MCSectionOf == [o \in Objects |-> 1]

Symmetry == Permutations(Syncs) \cup Permutations(Objects)
====
