---- MODULE PortalApi ----
(***************************************************************************)
(* What the portal's pages ask of the API, and what the routes do in the   *)
(* database for it: the tables each query reads, one set a statement, in   *)
(* the order of the handler, and the steps of each operation.              *)
(*                                                                         *)
(* Handlers run no transaction, so whatever other handlers do may come     *)
(* between two statements.  Tokens, roles and tenant access are checked    *)
(* before (DashboardAccounts).                                             *)
(***************************************************************************)
EXTENDS Naturals, Sequences

\* Functions with disjoint domains as one.
Joined(fs) ==
    [x \in UNION {DOMAIN fs[n] : n \in DOMAIN fs} |->
        fs[CHOOSE n \in DOMAIN fs : x \in DOMAIN fs[n]][x]]

\* A list is counted and then read; the numbers of the cards are counted one by one.
UserReads == [
    users |-> << {"entra_users"}, {"entra_users"} >>,
    user_stats |-> [i \in 1..6 |-> {"entra_users"}],
    user |-> << {"entra_users"} >>]

LicenseReads == [user_licenses |-> << {"entra_users"}, {"license_info"} >>]

GroupReads == [groups |-> << {"entra_groups"}, {"entra_groups"} >>]

PolicyReads == [policies |-> << {"conditional_access_policies"} >>]

DeviceReads == [
    devices |-> << {"managed_devices"}, {"managed_devices"} >>,
    device_overview |-> << {"managed_devices"}, {"managed_devices"}, {"managed_devices"},
        {"device_compliance_policies"}, {"device_configurations"},
        {"managed_devices"}, {"managed_devices"}, {"managed_devices"} >>]

AlertReads == [alerts |-> << {"security_alerts"}, {"security_alerts"} >>]

TenantReads == [
    tenants |-> << {"tenants"}, {"tenants", "entra_users", "entra_groups", "security_alerts"} >>,
    tenant |-> << {"tenants"}, {"entra_users"}, {"entra_groups"}, {"security_alerts"} >>]

\* The counts of /compliance follow for each active tenant; one is enough here.
DashboardReads == [
    overview |-> << {"tenants"}, {"entra_users"}, {"security_alerts"},
        {"security_alerts", "tenants"} >>,
    compliance |-> << {"tenants"}, {"entra_users"}, {"entra_users"},
        {"conditional_access_policies"}, {"security_alerts"} >>]

AgentReads == [agents |-> << {"agent_connections", "tenants"} >>]

\* The trail of a tenant, or with the names of the tenants that of all.
AuditReads == [audit_trail |-> << {"portal_audit_log"}, {"portal_audit_log", "tenants"} >>]

AccountReads == [accounts |-> << {"dashboard_users"} >>]

Reads == Joined(<<UserReads, LicenseReads, GroupReads, PolicyReads, DeviceReads, AlertReads,
                  TenantReads, DashboardReads, AgentReads, AuditReads, AccountReads>>)

Queries == DOMAIN Reads

TablesOf(qs) == UNION {UNION {Reads[q][i] : i \in DOMAIN Reads[q]} : q \in qs}

----
(* Operations.  A step is a statement and its table: "check" reads what must be *)
(* there (or must not), "write" changes it, "try" does so in a try block of its *)
(* own, and "audit" inserts the record, a failure of which is only logged.      *)

AuditStep == <<"audit", "portal_audit_log">>

\* Disable, enable, delete and password reset: the row is looked up, and the
\* record is all that is written.  Nothing reaches an agent.
UserSteps == [
    create_user |-> << AuditStep >>,
    operate_on_user |-> << <<"check", "entra_users">>, AuditStep >>]

LicenseSteps == [change_license |-> << <<"check", "entra_users">>, AuditStep >>]

\* Acknowledge and resolve: the status that is read decides nothing.
AlertSteps == [handle_alert |->
    << <<"check", "security_alerts">>, <<"write", "security_alerts">>, AuditStep >>]

SyncSteps == [sync |->
    << <<"check", "tenants">>, <<"write", "entra_users">>, <<"write", "entra_groups">>,
       <<"try", "conditional_access_policies">>, <<"try", "managed_devices">>,
       <<"try", "license_info">>, <<"write", "tenants">>, AuditStep >>]

OnboardSteps == [onboard |-> << <<"check", "tenants">>, <<"write", "tenants">>, AuditStep >>]

AccountSteps == [op \in {"create_account", "delete_account"} |->
    << <<"check", "dashboard_users">>, <<"write", "dashboard_users">>, AuditStep >>]

Steps == Joined(<<UserSteps, LicenseSteps, AlertSteps, SyncSteps, OnboardSteps, AccountSteps>>)

Operations == DOMAIN Steps
====
