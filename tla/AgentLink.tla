---- MODULE AgentLink ----
(***************************************************************************)
(* One agent's link to the panel over time: WebSocketClient of             *)
(* src/src/agent/services/ws-client.ts, which connects, is closed, waits   *)
(* and tries again, ever more slowly, until it gives up and its container  *)
(* is started anew.  While the link is open it is the registered           *)
(* connection of HeartbeatMonitor, whose timers run with it; while it is   *)
(* not, that module's variables rest at their first values.                *)
(***************************************************************************)
EXTENDS HeartbeatMonitor

CONSTANTS
    MaxAttempts,       \* MAX_RECONNECT_ATTEMPTS
    Delay,             \* AGENT_RECONNECT_DELAY_MS * 2^n, n from 0 to MaxAttempts
    ReconnectJitter,   \* bound: what Math.random adds to a delay
    HandshakeTimeout   \* handshakeTimeout of the socket

ASSUME DelayAssumption ==
    /\ MaxAttempts \in Nat \ {0} /\ ReconnectJitter \in Nat /\ HandshakeTimeout \in Nat
    /\ Delay \in [0..MaxAttempts -> Nat]
    /\ \A n \in 0..(MaxAttempts - 1) : Delay[n + 1] = 2 * Delay[n]

VARIABLES
    link,       \* the client: its socket open, connecting, closed and waiting to connect; or exited
    attempts,   \* reconnectAttempts
    timer,      \* what is left of reconnectTimeout, or of the handshake's
    asked,      \* the panel when the connecting socket was opened
    panel,      \* the panel and the network to it: up or down
    outage,     \* time since the link was last open, or the process started
    upFor       \* how much of it the panel has been in reach without a break

retry == <<attempts, timer, asked>>
world == <<panel, outage, upFor>>
linkVars == <<vars, link, retry, world>>

LinkTypeOK ==
    /\ TypeOK
    /\ link \in {"open", "waiting", "connecting", "exited"}
    /\ attempts \in 0..MaxAttempts
    /\ timer \in Nat
    /\ asked \in {"up", "down"}
    /\ panel \in {"up", "down"}
    /\ outage \in Nat
    /\ upFor \in 0..outage

Rest ==
    /\ entry' = "present" /\ agent' = "alive" /\ age' = 0 /\ sinceCheck' = 0
    /\ sinceBeat' = 0 /\ underWay' = -1 /\ silence' = 0

LinkInit ==
    /\ entry = "present" /\ agent = "alive" /\ age = 0 /\ sinceCheck = 0
    /\ sinceBeat = 0 /\ underWay = -1 /\ silence = 0
    /\ link = "connecting" /\ attempts = 0 /\ timer = HandshakeTimeout
    /\ panel \in {"up", "down"} /\ asked = panel
    /\ outage = 0 /\ upFor = 0

----
(* The client. *)

\* connect: a new socket.
Connect ==
    /\ link = "waiting" /\ timer = 0
    /\ link' = "connecting" /\ timer' = HandshakeTimeout /\ asked' = panel
    /\ UNCHANGED <<vars, attempts, world>>

\* The open event with the count of attempts left as it is.
OpensCounting ==
    /\ link = "connecting" /\ panel = "up"
    /\ link' = "open" /\ timer' = 0 /\ asked' = "up"
    /\ outage' = 0 /\ upFor' = 0
    /\ age' \in 0..MaxDelay /\ sinceCheck' \in 0..HeartbeatTimeout
    /\ UNCHANGED <<entry, agent, sinceBeat, underWay, silence, attempts, panel>>

\* The open event: the count starts anew, the agent registers and its
\* heartbeat's interval starts.
Opens ==
    /\ link = "connecting" /\ panel = "up"
    /\ link' = "open" /\ attempts' = 0 /\ timer' = 0 /\ asked' = "up"
    /\ outage' = 0 /\ upFor' = 0
    /\ age' \in 0..MaxDelay /\ sinceCheck' \in 0..HeartbeatTimeout
    /\ UNCHANGED <<entry, agent, sinceBeat, underWay, silence, panel>>

\* A reconnectTimeout that is set, though it has fired, is not set again.
ScheduleReconnectOnce ==
    IF attempts > 0
    THEN link' = "closed" /\ timer' = 0 /\ UNCHANGED attempts
    ELSE /\ link' = "waiting"
         /\ \E jitter \in 0..ReconnectJitter : timer' = Delay[attempts] + jitter
         /\ attempts' = attempts + 1

ScheduleReconnect ==
    IF attempts >= MaxAttempts
    THEN link' = "exited" /\ timer' = 0 /\ UNCHANGED attempts
    ELSE /\ link' = "waiting"
         /\ \E jitter \in 0..ReconnectJitter : timer' = Delay[attempts] + jitter
         /\ attempts' = attempts + 1

\* The close event of an open socket: the panel closed it, evicted the agent,
\* refused its token, or the network broke.  stopHeartbeat, scheduleReconnect.
Closed ==
    /\ link = "open"
    /\ ScheduleReconnect
    /\ asked' = "up"
    /\ Rest
    /\ UNCHANGED world

\* An attempt fails when the panel is or was out of reach, at the latest by the
\* handshake's timeout: an error event, and the close event that follows it.
ConnectFails ==
    /\ link = "connecting"
    /\ "down" \in {panel, asked}
    /\ ScheduleReconnect
    /\ asked' = "up"
    /\ UNCHANGED <<vars, world>>

\* The process ends: a crash, or disconnect on a signal.
Exits ==
    /\ link # "exited"
    /\ link' = "exited" /\ timer' = 0 /\ asked' = "up"
    /\ Rest
    /\ UNCHANGED <<attempts, world>>

\* The container's policy starts the agent again.
Restart ==
    /\ link = "exited"
    /\ link' = "connecting" /\ attempts' = 0 /\ timer' = HandshakeTimeout /\ asked' = panel
    /\ outage' = 0 /\ upFor' = 0
    /\ UNCHANGED <<vars, panel>>

----
(* The panel, and time. *)

PanelComes ==
    /\ panel = "down"
    /\ panel' = "up"
    /\ UNCHANGED <<vars, link, retry, outage, upFor>>

PanelGoes ==
    /\ panel = "up"
    /\ panel' = "down" /\ upFor' = 0
    /\ UNCHANGED <<vars, link, retry, outage>>

Watch ==
    /\ link = "open"
    /\ Next
    /\ UNCHANGED <<link, retry, world>>

LinkTick ==
    /\ link \in {"waiting", "connecting"} /\ timer > 0
    /\ timer' = timer - 1
    /\ outage' = outage + 1
    /\ upFor' = IF panel = "up" THEN upFor + 1 ELSE 0
    /\ UNCHANGED <<vars, link, attempts, asked, panel>>

LinkNext ==
    \/ Connect \/ Opens \/ Closed \/ ConnectFails \/ Exits \/ Restart
    \/ PanelComes \/ PanelGoes \/ Watch \/ LinkTick

LinkSpec == LinkInit /\ [][LinkNext]_linkVars

\* Time passes and timers fire; what a reachable panel is asked it answers, and
\* the close of a connection the panel has ended arrives; the container's
\* policy restarts the agent.
LinkFairSpec ==
    /\ LinkSpec
    /\ WF_linkVars(LinkTick) /\ WF_linkVars(Connect)
    /\ WF_linkVars(Opens \/ ConnectFails) /\ WF_linkVars(Restart)
    /\ WF_linkVars(Closed /\ entry = "evicted")
    /\ WF_linkVars(Watch /\ Tick) /\ WF_linkVars(Watch /\ SendHeartbeat)
    /\ WF_linkVars(Watch /\ HandleHeartbeat) /\ WF_linkVars(Watch /\ HealthCheck)

----
\* The client gives up only after it has been without the panel, since the link
\* was last open or the process started, for the sum of all its delays: an
\* hour and 25 minutes of outage (reconnectAttempts, reset by every open).
GivesUpLate ==
    (link = "connecting" /\ attempts = MaxAttempts) => outage >= Delay[MaxAttempts] - Delay[0]

\* Once the panel is back, the link is back after no longer than it had been
\* away before that, and the handshakes: the backoff at most doubles an outage.
ReturnsSoon ==
    link \in {"waiting", "connecting"} =>
        upFor <= (outage - upFor) + Delay[0] + ReconnectJitter + 3 * HandshakeTimeout

\* A panel that stays in reach has a live connection again and again, whatever
\* happens to the link, if the process is not ended from outside for ever.
Reconnects ==
    (<>[](panel = "up") /\ ~[]<><<Exits>>_linkVars) => []<>(link = "open" /\ agent = "alive")

----
(* The inductive invariant. *)

\* The delays so far add up, and the last of them is not longer than they were.
BackoffIsPaid ==
    /\ link = "waiting" => /\ attempts > 0
                           /\ outage + timer >= Delay[attempts] - Delay[0]
                           /\ timer + 2 * upFor <= outage + Delay[0] + ReconnectJitter + 2 * HandshakeTimeout
    /\ link = "connecting" =>
          /\ timer <= HandshakeTimeout
          /\ outage >= Delay[attempts] - Delay[0]
          /\ IF "down" \in {panel, asked}
             THEN upFor + timer <= HandshakeTimeout
             ELSE 2 * upFor + timer <= outage + Delay[0] + ReconnectJitter + 3 * HandshakeTimeout

LinkIInv ==
    /\ LinkTypeOK
    /\ IInv
    /\ BackoffIsPaid
    /\ link = "open" => attempts = 0 /\ outage = 0 /\ upFor = 0
    /\ panel = "down" => upFor = 0
    /\ link # "open" => entry = "present" /\ agent = "alive" /\ age = 0 /\ sinceCheck = 0
                        /\ sinceBeat = 0 /\ underWay = -1 /\ silence = 0
====
