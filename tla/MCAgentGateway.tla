---- MODULE MCAgentGateway ----
EXTENDS AgentGateway, TLC

CONSTANTS a1, a2, t1

\* Two agents of one tenant: a rolling update of the agent's pod overlaps them.
MCTenantOf == [a \in Agents |-> t1]

ConnSymmetry == Permutations(Conns)
====
