---- MODULE MCAgentLink ----
(* In units of 5 s: the interval of 30 s and the timeout of 90 s, a first delay
   of 5 s doubled up to eight times (the code's ten make the outages four times
   as long and add no other case), and 10 s for a handshake. *)
EXTENDS AgentLink
MCDelay == [n \in 0..MaxAttempts |-> 2^n]
====
