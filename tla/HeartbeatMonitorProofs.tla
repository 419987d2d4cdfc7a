---- MODULE HeartbeatMonitorProofs ----
(***************************************************************************)
(* The bounds of HeartbeatMonitor and of AgentLink, for every interval,    *)
(* timeout, delay and jitter that satisfy TimingAssumption, and every      *)
(* series of delays that satisfies DelayAssumption.                        *)
(***************************************************************************)
EXTENDS AgentLink, TLAPS

USE TimingAssumption

LEMMA InitIInv == Init => IInv
  BY DEF Init, IInv, TypeOK, PunctualIsKept, AgedSinceCheck, AgedInSilence, BeatIsNear

LEMMA NextIInv == IInv /\ [Next]_vars => IInv'
<1> SUFFICES ASSUME IInv, [Next]_vars PROVE IInv'
  OBVIOUS
<1> USE DEF IInv, TypeOK, PunctualIsKept, AgedSinceCheck, AgedInSilence, BeatIsNear
<1>1. CASE Tick
  BY <1>1 DEF Tick
<1>2. CASE SendHeartbeat
  BY <1>2 DEF SendHeartbeat
<1>3. CASE HandleHeartbeat
  BY <1>3 DEF HandleHeartbeat
<1>4. CASE FallSilent
  BY <1>4 DEF FallSilent
<1>5. CASE HealthCheck
  BY <1>5 DEF HealthCheck
<1>6. CASE UNCHANGED vars
  BY <1>6 DEF vars
<1> QED BY <1>1, <1>2, <1>3, <1>4, <1>5, <1>6 DEF Next

THEOREM MonitorInvariant == Spec => []IInv
BY InitIInv, NextIInv, PTL DEF Spec

\* No agent whose heartbeats are within the bounds is evicted.
THEOREM PunctualAgentIsKept == Spec => []PunctualIsKept
<1>1. IInv => PunctualIsKept
  BY DEF IInv
<1> QED BY <1>1, MonitorInvariant, PTL

\* An agent is shown as connected for at most two timeouts, and the delays,
\* after it fell silent.
THEOREM SilentAgentIsNoticed == Spec => []SilentIsNoticed
<1>1. IInv => SilentIsNoticed
  BY DEF IInv, TypeOK, AgedSinceCheck, AgedInSilence, SilentIsNoticed
<1> QED BY <1>1, MonitorInvariant, PTL

----
(* The link, whose open connection the monitor watches. *)

\* The delays grow.
LEMMA Delays ==
    /\ MaxAttempts \in Nat \ {0} /\ ReconnectJitter \in Nat /\ HandshakeTimeout \in Nat
    /\ \A n \in 0..MaxAttempts : Delay[n] \in Nat
    /\ \A n \in 0..(MaxAttempts - 1) : Delay[n + 1] = 2 * Delay[n]
BY DelayAssumption

LEMMA LinkInitIInv == LinkInit => LinkIInv
<1> SUFFICES ASSUME LinkInit PROVE LinkIInv
  OBVIOUS
<1>1. IInv
  BY DEF LinkInit, IInv, TypeOK, PunctualIsKept, AgedSinceCheck, AgedInSilence, BeatIsNear
<1>2. LinkTypeOK
  BY <1>1, Delays DEF LinkInit, LinkTypeOK, IInv
<1>3. BackoffIsPaid
  BY Delays DEF LinkInit, BackoffIsPaid
<1> QED BY <1>1, <1>2, <1>3 DEF LinkIInv, LinkInit

\* The monitor's variables, put back to their first values, satisfy its invariant.
LEMMA RestIInv == Rest => IInv'
BY DEF Rest, IInv, TypeOK, PunctualIsKept, AgedSinceCheck, AgedInSilence, BeatIsNear

LEMMA SameIInv == IInv /\ UNCHANGED vars => IInv'
BY NextIInv

LEMMA ScheduleReconnectPaid ==
    ASSUME LinkTypeOK, ScheduleReconnect, UNCHANGED world, panel = "down" => upFor = 0,
           outage >= Delay[attempts] - Delay[0], upFor <= HandshakeTimeout
    PROVE  /\ link' \in {"waiting", "exited"} /\ attempts' \in 0..MaxAttempts /\ timer' \in Nat
           /\ BackoffIsPaid'
<1>1. CASE attempts >= MaxAttempts
  BY <1>1 DEF ScheduleReconnect, BackoffIsPaid, LinkTypeOK
<1>2. CASE ~(attempts >= MaxAttempts)
  <2>1. attempts \in 0..(MaxAttempts - 1) /\ Delay[attempts] \in Nat /\ Delay[attempts + 1] = 2 * Delay[attempts]
    BY <1>2, Delays DEF LinkTypeOK
  <2>2. PICK jitter \in 0..ReconnectJitter : timer' = Delay[attempts] + jitter
    BY <1>2 DEF ScheduleReconnect
  <2>3. link' = "waiting" /\ attempts' = attempts + 1
    BY <1>2 DEF ScheduleReconnect
  <2>4. /\ outage + timer' >= Delay[attempts + 1] - Delay[0]
        /\ timer' + 2 * upFor <= outage + Delay[0] + ReconnectJitter + 2 * HandshakeTimeout
        /\ timer' \in Nat
    BY <2>1, <2>2, Delays DEF LinkTypeOK
  <2>5. outage' = outage /\ upFor' = upFor /\ attempts' \in 0..MaxAttempts /\ attempts' > 0
    BY <2>1, <2>3, Delays DEF world
  <2> QED BY <2>3, <2>4, <2>5 DEF BackoffIsPaid
<1> QED BY <1>1, <1>2

LEMMA ClosedLinkIInv == LinkIInv /\ Closed => LinkIInv'
<1> SUFFICES ASSUME LinkIInv, Closed PROVE LinkIInv'
  OBVIOUS
<1>1. LinkTypeOK /\ attempts = 0 /\ outage = 0 /\ upFor = 0 /\ outage >= Delay[attempts] - Delay[0]
  BY Delays DEF LinkIInv, Closed
<1>2. /\ link' \in {"waiting", "exited"} /\ attempts' \in 0..MaxAttempts /\ timer' \in Nat
      /\ BackoffIsPaid'
  BY <1>1, Delays, ScheduleReconnectPaid DEF Closed
<1>3. IInv'
  BY RestIInv DEF Closed
<1>4. LinkTypeOK'
  BY <1>1, <1>2, <1>3 DEF LinkTypeOK, IInv, Closed, world
<1> QED BY <1>1, <1>2, <1>3, <1>4 DEF LinkIInv, Closed, Rest, world

LEMMA ConnectFailsLinkIInv == LinkIInv /\ ConnectFails => LinkIInv'
<1> SUFFICES ASSUME LinkIInv, ConnectFails PROVE LinkIInv'
  OBVIOUS
<1>1. LinkTypeOK /\ upFor <= HandshakeTimeout /\ outage >= Delay[attempts] - Delay[0] /\ (panel = "down" => upFor = 0)
  BY Delays DEF LinkIInv, LinkTypeOK, BackoffIsPaid, ConnectFails
<1>2. /\ link' \in {"waiting", "exited"} /\ attempts' \in 0..MaxAttempts /\ timer' \in Nat
      /\ BackoffIsPaid'
  BY <1>1, ScheduleReconnectPaid DEF ConnectFails
<1>3. IInv'
  BY SameIInv DEF ConnectFails, LinkIInv
<1>4. LinkTypeOK'
  BY <1>1, <1>2, <1>3 DEF LinkTypeOK, IInv, ConnectFails, world
<1> QED BY <1>1, <1>2, <1>3, <1>4 DEF LinkIInv, ConnectFails, vars, world

LEMMA OpensLinkIInv == LinkIInv /\ Opens => LinkIInv'
<1> SUFFICES ASSUME LinkIInv, Opens PROVE LinkIInv'
  OBVIOUS
<1>1. IInv'
  <2>1. /\ entry' = "present" /\ agent' = "alive" /\ sinceBeat' = 0 /\ underWay' = -1 /\ silence' = 0
        /\ age' \in 0..MaxDelay /\ sinceCheck' \in 0..HeartbeatTimeout
    BY DEF LinkIInv, Opens
  <2>2. age' \in Nat /\ age' <= MaxDelay /\ MaxDelay <= HeartbeatTimeout /\ sinceCheck' \in Nat
    BY <2>1
  <2>3. TypeOK'
    BY <2>1, <2>2 DEF TypeOK
  <2>4. PunctualIsKept'
    BY <2>1 DEF PunctualIsKept
  <2>5. AgedSinceCheck'
    <3>1. \A a, b, c, d \in Nat : a <= b /\ b <= c => a <= c + d
      OBVIOUS
    <3>2. age' <= HeartbeatTimeout + sinceCheck'
      BY <2>2, <3>1
    <3> QED BY <3>2 DEF AgedSinceCheck
  <2>6. AgedInSilence'
    <3>1. \A a, b \in Nat : 0 <= a + b /\ ~(-1 >= 0)
      OBVIOUS
    <3>2. silence' <= age' + MaxDelay /\ ~(underWay' >= 0)
      BY <2>1, <2>2, <3>1
    <3> QED BY <2>1, <3>2 DEF AgedInSilence
  <2>7. BeatIsNear'
    BY <2>1, <2>2 DEF BeatIsNear
  <2> QED BY <2>3, <2>4, <2>5, <2>6, <2>7 DEF IInv
<1>2. LinkTypeOK'
  BY <1>1, Delays DEF LinkIInv, LinkTypeOK, IInv, Opens
<1>3. BackoffIsPaid'
  BY DEF Opens, BackoffIsPaid
<1> QED BY <1>1, <1>2, <1>3 DEF LinkIInv, Opens

LEMMA LinkTickLinkIInv == LinkIInv /\ LinkTick => LinkIInv'
<1> SUFFICES ASSUME LinkIInv, LinkTick PROVE LinkIInv'
  OBVIOUS
<1>1. IInv'
  BY SameIInv DEF LinkTick, LinkIInv
<1>2. LinkTypeOK'
  BY <1>1 DEF LinkIInv, LinkTypeOK, IInv, LinkTick
<1>3. attempts \in 0..MaxAttempts /\ Delay[attempts] \in Nat /\ Delay[0] \in Nat
  BY Delays DEF LinkIInv, LinkTypeOK
<1>4. BackoffIsPaid'
  BY <1>3, Delays DEF LinkIInv, LinkTypeOK, LinkTick, BackoffIsPaid
<1> QED BY <1>1, <1>2, <1>4 DEF LinkIInv, LinkTick, vars

LEMMA LinkNextIInv == LinkIInv /\ [LinkNext]_linkVars => LinkIInv'
<1> SUFFICES ASSUME LinkIInv, [LinkNext]_linkVars PROVE LinkIInv'
  OBVIOUS
<1>1. CASE Connect
  <2>1. IInv'
    BY <1>1, SameIInv DEF Connect, LinkIInv
  <2>2. LinkTypeOK'
    BY <1>1, <2>1, Delays DEF LinkIInv, LinkTypeOK, IInv, Connect, world
  <2>3. attempts \in 0..MaxAttempts /\ Delay[attempts] \in Nat /\ Delay[0] \in Nat
    BY Delays DEF LinkIInv, LinkTypeOK
  <2>4. BackoffIsPaid'
    BY <1>1, <2>3, Delays DEF LinkIInv, LinkTypeOK, Connect, BackoffIsPaid, world
  <2> QED BY <1>1, <2>1, <2>2, <2>4 DEF LinkIInv, Connect, vars, world
<1>2. CASE Exits
  <2>1. IInv'
    BY <1>2, RestIInv DEF Exits
  <2>2. LinkTypeOK' /\ BackoffIsPaid'
    BY <1>2, <2>1 DEF LinkIInv, LinkTypeOK, IInv, Exits, BackoffIsPaid, world
  <2> QED BY <1>2, <2>1, <2>2 DEF LinkIInv, Exits, Rest, world
<1>3. CASE Restart
  <2>1. IInv'
    BY <1>3, SameIInv DEF Restart, LinkIInv
  <2>2. LinkTypeOK' /\ BackoffIsPaid'
    BY <1>3, <2>1, Delays DEF LinkIInv, LinkTypeOK, IInv, Restart, BackoffIsPaid
  <2> QED BY <1>3, <2>1, <2>2 DEF LinkIInv, Restart, vars
<1>4. CASE PanelComes
  <2>1. IInv'
    BY <1>4, SameIInv DEF PanelComes, LinkIInv
  <2>2. LinkTypeOK'
    BY <1>4, <2>1 DEF LinkIInv, LinkTypeOK, IInv, PanelComes, retry
  <2>3. attempts \in 0..MaxAttempts /\ Delay[attempts] \in Nat /\ Delay[0] \in Nat
    BY Delays DEF LinkIInv, LinkTypeOK
  <2>4. BackoffIsPaid'
    BY <1>4, <2>3, Delays DEF LinkIInv, LinkTypeOK, PanelComes, BackoffIsPaid, retry
  <2> QED BY <1>4, <2>1, <2>2, <2>4 DEF LinkIInv, PanelComes, vars, retry
<1>5. CASE PanelGoes
  <2>1. IInv'
    BY <1>5, SameIInv DEF PanelGoes, LinkIInv
  <2>2. LinkTypeOK'
    BY <1>5, <2>1 DEF LinkIInv, LinkTypeOK, IInv, PanelGoes, retry
  <2>3. attempts \in 0..MaxAttempts /\ Delay[attempts] \in Nat /\ Delay[0] \in Nat
    BY Delays DEF LinkIInv, LinkTypeOK
  <2>4. BackoffIsPaid'
    BY <1>5, <2>3, Delays DEF LinkIInv, LinkTypeOK, PanelGoes, BackoffIsPaid, retry
  <2> QED BY <1>5, <2>1, <2>2, <2>4 DEF LinkIInv, PanelGoes, vars, retry
<1>6. CASE Watch
  <2>1. IInv'
    BY <1>6, NextIInv DEF Watch, LinkIInv
  <2>2. LinkTypeOK' /\ BackoffIsPaid'
    BY <1>6, <2>1 DEF LinkIInv, LinkTypeOK, IInv, Watch, BackoffIsPaid, retry, world
  <2> QED BY <1>6, <2>1, <2>2 DEF LinkIInv, Watch, retry, world
<1>7. CASE UNCHANGED linkVars
  <2>1. IInv'
    BY <1>7, SameIInv DEF linkVars, LinkIInv
  <2>2. LinkTypeOK' /\ BackoffIsPaid'
    BY <1>7, <2>1 DEF LinkIInv, LinkTypeOK, IInv, linkVars, BackoffIsPaid, retry, world
  <2> QED BY <1>7, <2>1, <2>2 DEF LinkIInv, linkVars, vars, retry, world
<1> QED BY <1>1, <1>2, <1>3, <1>4, <1>5, <1>6, <1>7, OpensLinkIInv, ClosedLinkIInv, ConnectFailsLinkIInv,
           LinkTickLinkIInv DEF LinkNext

THEOREM LinkInvariant == LinkSpec => []LinkIInv
BY LinkInitIInv, LinkNextIInv, PTL DEF LinkSpec

\* The bounds of the monitor hold of every open connection of a link.
THEOREM PunctualLinkIsKept == LinkSpec => [](PunctualIsKept /\ SilentIsNoticed)
<1>1. LinkIInv => PunctualIsKept /\ SilentIsNoticed
  BY DEF LinkIInv, IInv, TypeOK, AgedSinceCheck, AgedInSilence, SilentIsNoticed
<1> QED BY <1>1, LinkInvariant, PTL

\* No agent process gives up before it has waited out every delay of the series.
THEOREM AgentGivesUpLate == LinkSpec => []GivesUpLate
<1>1. LinkIInv => GivesUpLate
  BY DEF LinkIInv, BackoffIsPaid, GivesUpLate
<1> QED BY <1>1, LinkInvariant, PTL

\* The backoff at most doubles an outage, whatever its first delay and its length.
THEOREM AgentReturnsSoon == LinkSpec => []ReturnsSoon
<1>1. LinkIInv => ReturnsSoon
  <2> SUFFICES ASSUME LinkIInv, link \in {"waiting", "connecting"}
               PROVE  upFor <= (outage - upFor) + Delay[0] + ReconnectJitter + 3 * HandshakeTimeout
    BY DEF ReturnsSoon
  <2>1. /\ outage \in Nat /\ upFor \in Nat /\ upFor <= outage /\ timer \in Nat /\ Delay[0] \in Nat
        /\ ReconnectJitter \in Nat /\ HandshakeTimeout \in Nat
    BY Delays DEF LinkIInv, LinkTypeOK
  <2> QED BY <2>1 DEF LinkIInv, BackoffIsPaid
<1> QED BY <1>1, LinkInvariant, PTL
====
