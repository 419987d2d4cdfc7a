---- MODULE MCCommandRelay ----
EXTENDS CommandRelay, TLC

CommandSymmetry == Permutations(Commands)
====
