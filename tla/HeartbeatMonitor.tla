---- MODULE HeartbeatMonitor ----
(***************************************************************************)
(* The timing of one registered connection: the agent's heartbeat interval *)
(* (startHeartbeat of src/src/agent/services/ws-client.ts) against the     *)
(* panel's health check (checkAgentHealth and handleHeartbeat of           *)
(* src/src/api/services/websocket.ts), when no close event is ever         *)
(* delivered.  Time passes in ticks.                                       *)
(***************************************************************************)
EXTENDS Integers

CONSTANTS
    HeartbeatInterval,  \* HEARTBEAT_INTERVAL_MS
    HeartbeatTimeout,   \* HEARTBEAT_TIMEOUT_MS, also the period of the health check
    MaxDelay,           \* bound: from sending a message to its handling
    MaxJitter           \* bound: how late an interval timer fires

\* A delay shorter than the interval leaves one heartbeat under way at a time.
ASSUME TimingAssumption ==
    /\ HeartbeatInterval \in Nat /\ HeartbeatTimeout \in Nat
    /\ MaxDelay \in Nat /\ MaxJitter \in Nat
    /\ MaxDelay < HeartbeatInterval
    /\ HeartbeatInterval + MaxJitter + 2 * MaxDelay <= HeartbeatTimeout

VARIABLES
    entry,      \* the registry's entry for the agent: present or evicted
    agent,      \* the agent and the link to it: alive or silent
    age,        \* now - lastHeartbeat
    sinceCheck, \* time since the health check ran
    sinceBeat,  \* time since the agent's interval fired
    underWay,   \* how long the last heartbeat has been under way; -1 when none is
    silence     \* time since the agent fell silent

vars == <<entry, agent, age, sinceCheck, sinceBeat, underWay, silence>>

TypeOK ==
    /\ entry \in {"present", "evicted"}
    /\ agent \in {"alive", "silent"}
    /\ age \in Nat
    /\ sinceCheck \in 0..(HeartbeatTimeout + MaxJitter)
    /\ sinceBeat \in 0..(HeartbeatInterval + MaxJitter)
    /\ underWay \in -1..MaxDelay
    /\ silence \in Nat

\* lastHeartbeat starts when the panel accepts the connection, the interval
\* when the agent sees it open.
Init ==
    /\ entry = "present"
    /\ agent = "alive"
    /\ age \in 0..MaxDelay
    /\ sinceCheck \in 0..HeartbeatTimeout
    /\ sinceBeat = 0
    /\ underWay = -1
    /\ silence = 0

\* Timers fire, and a message arrives, before their bound is passed.
Tick ==
    /\ entry = "present"
    /\ sinceCheck < HeartbeatTimeout + MaxJitter
    /\ agent = "alive" => sinceBeat < HeartbeatInterval + MaxJitter
    /\ underWay < MaxDelay
    /\ age' = age + 1
    /\ sinceCheck' = sinceCheck + 1
    /\ sinceBeat' = IF agent = "alive" THEN sinceBeat + 1 ELSE sinceBeat
    /\ underWay' = IF underWay >= 0 THEN underWay + 1 ELSE underWay
    /\ silence' = IF agent = "silent" THEN silence + 1 ELSE silence
    /\ UNCHANGED <<entry, agent>>

SendHeartbeat ==
    /\ agent = "alive"
    /\ sinceBeat >= HeartbeatInterval
    /\ sinceBeat' = 0
    /\ underWay' = 0
    /\ UNCHANGED <<entry, agent, age, sinceCheck, silence>>

\* A heartbeat that is only recorded in the database.
HandleHeartbeatInDatabase ==
    /\ underWay >= 0
    /\ underWay' = -1
    /\ UNCHANGED <<entry, agent, age, sinceCheck, sinceBeat, silence>>

HandleHeartbeat ==
    /\ underWay >= 0
    /\ underWay' = -1
    /\ age' = 0
    /\ UNCHANGED <<entry, agent, sinceCheck, sinceBeat, silence>>

\* The agent ends or the network to it fails without the panel being told; the
\* heartbeat under way may still arrive.
FallSilent ==
    /\ agent = "alive"
    /\ agent' = "silent"
    /\ underWay' \in {underWay, -1}
    /\ UNCHANGED <<entry, age, sinceCheck, sinceBeat, silence>>

\* A health check that takes an age of two timeouts to be one.
HealthCheckLax ==
    /\ sinceCheck >= HeartbeatTimeout
    /\ sinceCheck' = 0
    /\ entry' = IF age > 2 * HeartbeatTimeout THEN "evicted" ELSE entry
    /\ UNCHANGED <<agent, age, sinceBeat, underWay, silence>>

HealthCheck ==
    /\ sinceCheck >= HeartbeatTimeout
    /\ sinceCheck' = 0
    /\ entry' = IF age > HeartbeatTimeout THEN "evicted" ELSE entry
    /\ UNCHANGED <<agent, age, sinceBeat, underWay, silence>>

Next == Tick \/ SendHeartbeat \/ HandleHeartbeat \/ FallSilent \/ HealthCheck

Spec == Init /\ [][Next]_vars

----
\* An agent whose heartbeats are late by no more than the bounds is never
\* evicted, wherever its interval falls in the panel's.
PunctualIsKept == agent = "alive" => entry = "present"

\* An agent that fell silent is evicted after at most two timeouts, and the
\* delays: a check may just miss its last heartbeat's age.
SilentIsNoticed ==
    entry = "present" => silence <= 2 * HeartbeatTimeout + MaxJitter + MaxDelay

----
(* The inductive invariant. *)

\* What has aged beyond the timeout has done so since the last check.
AgedSinceCheck == entry = "present" => age <= HeartbeatTimeout + sinceCheck

\* The silence is the age, but for a heartbeat that arrived after it began.
AgedInSilence ==
    /\ agent = "alive" => silence = 0
    /\ silence <= age + MaxDelay
    /\ underWay >= 0 => silence <= underWay

\* The next heartbeat of an agent that is alive comes in time.
BeatIsNear ==
    agent = "alive" =>
        IF underWay >= 0
        THEN /\ age <= underWay + HeartbeatInterval + MaxJitter + MaxDelay
             /\ underWay = sinceBeat
        ELSE age <= sinceBeat + MaxDelay

\* The timers of both sides, and what is between them, agree on the age of the
\* connection's last heartbeat.
IInv == TypeOK /\ PunctualIsKept /\ AgedSinceCheck /\ AgedInSilence /\ BeatIsNear
====
