---- MODULE GatewayWithSync ----
(***************************************************************************)
(* tenants.agent_status has two writers that know nothing of each other:   *)
(* the gateway, and the last statement of syncTenant in                    *)
(* src/src/api/services/direct-sync.ts.                                    *)
(***************************************************************************)
EXTENDS AgentGateway

\* A sync that has read a customer's directory, by no agent's help.
FinishSync(t) ==
    /\ agentStatus' = [agentStatus EXCEPT ![t] = "connected"]
    /\ UNCHANGED <<replica, opened, client, server, inbox, registered, stale, agents, queries,
                   rowStatus>>

NextWithSync == GatewayNext \/ \E t \in Tenants : FinishSync(t)

SpecWithSync == Init /\ [][NextWithSync]_vars

\* "Agents Online": a tenant shown as connected has an agent that registered.
ConnectedHasAgent ==
    \A t \in Tenants : agentStatus[t] = "connected" =>
        \E a \in Agents : TenantOf[a] = t /\ rowStatus[a] # "none"
====
