---- MODULE CommandRelay ----
(***************************************************************************)
(* A command's way from the panel to an agent and back: sendCommand and    *)
(* handleCommandResult of src/src/api/services/websocket.ts, and the       *)
(* handleMessage of src/src/agent/services/ws-client.ts with its           *)
(* CommandDispatcher.  One panel process and one tenant's agent; how their *)
(* connection comes and goes is AgentGateway's, and only its effects on    *)
(* commands are kept here.                                                 *)
(***************************************************************************)
EXTENDS Naturals

CONSTANTS
    Commands,   \* calls of sendCommand, each with its own random commandId
    MaxBreaks   \* bound: connections that break

ASSUME BreaksAssumption == MaxBreaks \in Nat

VARIABLES
    caller,     \* what each caller of sendCommand has seen
    kind,       \* the type of its AgentCommand
    pending,    \* pendingCommands
    timers,     \* commands whose 60 s timer is running
    entry,      \* what the registry holds: nothing, the agent's socket, a dead one
    socket,     \* the agent's socket: open or closed
    toAgent,    \* commands under way to the agent
    toPanel,    \* results under way to the panel
    handler,    \* the agent's handler of each command
    breaks

connection == <<entry, socket, breaks>>
panel == <<caller, kind, pending, timers>>
wire == <<toAgent, toPanel>>
vars == <<panel, connection, wire, handler>>

\* The union AgentCommand of the shared types.
DeclaredTypes == {"sync", "userAction", "groupAction", "policyAction",
                  "configUpdate", "restart", "diagnostics"}

\* The types the agent registers a handler for.
HandledTypes == {"sync", "userAction", "groupAction", "policyAction", "intuneAction",
                 "diagnostics"}

Settled == {"resolved", "timedOut", "refused", "lost"}

TypeOK ==
    /\ caller \in [Commands -> {"idle", "waiting"} \cup Settled]
    /\ kind \in [Commands -> DeclaredTypes]
    /\ pending \subseteq Commands
    /\ timers \subseteq Commands
    /\ entry \in {"none", "current", "dead"}
    /\ socket \in {"open", "closed"}
    /\ toAgent \subseteq Commands
    /\ toPanel \subseteq Commands
    /\ handler \in [Commands -> {"none", "running", "done", "killed", "unknown"}]
    /\ breaks \in 0..MaxBreaks

Init ==
    /\ caller = [c \in Commands |-> "idle"]
    /\ kind \in [Commands -> DeclaredTypes]
    /\ pending = {}
    /\ timers = {}
    /\ entry = "none"
    /\ socket = "closed"
    /\ toAgent = {}
    /\ toPanel = {}
    /\ handler = [c \in Commands |-> "none"]
    /\ breaks = 0

----
(* The panel. *)

\* No agent of the tenant is in the registry.
SendRefused(c) ==
    /\ caller[c] = "idle"
    /\ entry = "none"
    /\ caller' = [caller EXCEPT ![c] = "refused"]
    /\ UNCHANGED <<kind, pending, timers, connection, wire, handler>>

\* What is written to a socket that is dead or closing goes nowhere, and the
\* caller is not told.
SendCommand(c) ==
    /\ caller[c] = "idle"
    /\ entry # "none"
    /\ caller' = [caller EXCEPT ![c] = "waiting"]
    /\ pending' = pending \cup {c}
    /\ timers' = timers \cup {c}
    /\ toAgent' = IF entry = "current" THEN toAgent \cup {c} ELSE toAgent
    /\ UNCHANGED <<kind, connection, toPanel, handler>>

\* A timeout that rejects and forgets to take the command out of the map.
CommandTimeoutLeaks(c) ==
    /\ c \in timers
    /\ timers' = timers \ {c}
    /\ caller' = [caller EXCEPT ![c] = IF @ = "waiting" THEN "timedOut" ELSE @]
    /\ UNCHANGED <<kind, pending, connection, wire, handler>>

\* A timeout that only tidies up.
CommandTimeoutSilent(c) ==
    /\ c \in timers
    /\ timers' = timers \ {c}
    /\ pending' = pending \ {c}
    /\ UNCHANGED <<caller, kind, connection, wire, handler>>

\* A settled promise ignores the rejection.
CommandTimeout(c) ==
    /\ c \in timers
    /\ timers' = timers \ {c}
    /\ pending' = pending \ {c}
    /\ caller' = [caller EXCEPT ![c] = IF @ = "waiting" THEN "timedOut" ELSE @]
    /\ UNCHANGED <<kind, connection, wire, handler>>

\* A result that settles whichever command is pending.
HandleResultOfAnother(c) ==
    /\ c \in toPanel
    /\ toPanel' = toPanel \ {c}
    /\ \/ /\ pending = {}
          /\ UNCHANGED panel
       \/ \E d \in pending :
          /\ timers' = timers \ {d}
          /\ pending' = pending \ {d}
          /\ caller' = [caller EXCEPT ![d] = "resolved"]
          /\ UNCHANGED kind
    /\ UNCHANGED <<connection, toAgent, handler>>

\* A result taken from a timed-out command: the caller sees a second outcome.
HandleResultLate(c) ==
    /\ c \in toPanel
    /\ toPanel' = toPanel \ {c}
    /\ timers' = timers \ {c}
    /\ pending' = pending \ {c}
    /\ caller' = [caller EXCEPT ![c] = "resolved"]
    /\ UNCHANGED <<kind, connection, toAgent, handler>>

\* Any connection may bring the result; a result nobody waits for is dropped.
HandleCommandResult(c) ==
    /\ c \in toPanel
    /\ toPanel' = toPanel \ {c}
    /\ \/ /\ c \in pending
          /\ timers' = timers \ {c}
          /\ pending' = pending \ {c}
          /\ caller' = [caller EXCEPT ![c] = "resolved"]
          /\ UNCHANGED kind
       \/ c \notin pending /\ UNCHANGED panel
    /\ UNCHANGED <<connection, toAgent, handler>>

\* The API process ends: its callers get no answer, and its sockets close.
PanelExit ==
    /\ breaks < MaxBreaks
    /\ breaks' = breaks + 1
    /\ caller' = [c \in Commands |-> IF caller[c] = "waiting" THEN "lost" ELSE caller[c]]
    /\ pending' = {}
    /\ timers' = {}
    /\ entry' = "none"
    /\ socket' = "closed"
    /\ toAgent' = {}
    /\ toPanel' = {}
    /\ UNCHANGED <<kind, handler>>

----
(* The agent. *)

\* dispatch: without a handler for the type it throws before anything is run, and
\* the error is the result.
ReceiveCommand(c) ==
    /\ c \in toAgent
    /\ toAgent' = toAgent \ {c}
    /\ IF kind[c] \in HandledTypes
       THEN handler' = [handler EXCEPT ![c] = "running"] /\ UNCHANGED toPanel
       ELSE handler' = [handler EXCEPT ![c] = "unknown"] /\ toPanel' = toPanel \cup {c}
    /\ UNCHANGED <<panel, connection>>

\* A handler succeeds or throws; either way its result is sent on the socket
\* the agent has by then, and dropped when that is not open.
FinishCommand(c) ==
    /\ handler[c] = "running"
    /\ handler' = [handler EXCEPT ![c] = "done"]
    /\ toPanel' = IF socket = "open" THEN toPanel \cup {c} ELSE toPanel
    /\ UNCHANGED <<panel, connection, toAgent>>

----
(* The connection, as AgentGateway has it. *)

\* The agent dials and is registered.
Register ==
    /\ socket = "closed"
    /\ socket' = "open"
    /\ entry' = "current"
    /\ UNCHANGED <<panel, wire, handler, breaks>>

\* The connection breaks, with what is under way on it lost but for the results
\* that arrived; the panel may go on holding the dead socket.
SocketBreaks(arrived) ==
    /\ socket = "open"
    /\ breaks < MaxBreaks
    /\ breaks' = breaks + 1
    /\ socket' = "closed"
    /\ entry' = IF entry = "current" THEN "dead" ELSE entry
    /\ toAgent' = {}
    /\ toPanel' = arrived
    /\ UNCHANGED panel

Break(arrived) == SocketBreaks(arrived) /\ UNCHANGED handler

\* A close event or the health check takes the entry out of the registry; the
\* stale close of an older socket takes out the current one.
Unregister ==
    /\ entry # "none"
    /\ entry' = "none"
    /\ UNCHANGED <<panel, wire, handler, socket, breaks>>

\* The agent process ends, with its connection if it has one.
AgentExit(arrived) ==
    /\ \/ SocketBreaks(arrived)
       \/ socket = "closed" /\ UNCHANGED <<panel, connection, wire>>
    /\ handler' = [c \in Commands |-> IF handler[c] = "running" THEN "killed" ELSE handler[c]]

Next ==
    \/ \E c \in Commands : SendRefused(c)
    \/ \E c \in Commands : SendCommand(c)
    \/ \E c \in Commands : CommandTimeout(c)
    \/ \E c \in Commands : HandleCommandResult(c)
    \/ \E c \in Commands : ReceiveCommand(c)
    \/ \E c \in Commands : FinishCommand(c)
    \/ PanelExit
    \/ Register
    \/ \E arrived \in SUBSET toPanel : Break(arrived)
    \/ Unregister
    \/ \E arrived \in SUBSET toPanel : AgentExit(arrived)

Spec == Init /\ [][Next]_vars

\* Node runs a timer that is due.  Nothing is assumed of the agent.
FairSpec == Spec /\ \A c \in Commands : WF_vars(CommandTimeout(c))

----
(* Correctness. *)

PromiseOf(seen) ==
    CASE seen = "idle"     -> "unsent"
      [] seen = "waiting"  -> "pending"
      [] seen = "resolved" -> "fulfilled"
      [] seen = "lost"     -> "abandoned"
      [] OTHER             -> "rejected"

Promise == INSTANCE CommandPromise WITH
    promise <- [c \in Commands |-> PromiseOf(caller[c])]

\* sendCommand keeps its promise: whatever is lost, late or delivered to no
\* one, each caller sees one outcome, and the first one stands.
SettlesOnce == Promise!Spec

\* ... and every caller sees one in time, though nothing is assumed of the
\* agent or of the connection.
SettlesInTime == Promise!FairSpec

\* pendingCommands and the timers are those of the callers still waiting: none
\* is left behind by a result, a timeout, or both in either order.
NothingLeftBehind ==
    /\ pending = {c \in Commands : caller[c] = "waiting"}
    /\ timers = pending

\* What the agent has to do with a command before it answers: run it to its end, or
\* find that it has no handler for it.
DealtWith(c) == handler[c] = IF kind[c] \in HandledTypes THEN "done" ELSE "unknown"

\* A caller is given the result of its own command, however late or out of order
\* the results arrive: one the agent has run to its end, or, of a type that it has
\* no handler for, its refusal and nothing run.
ResolvedMeansDone ==
    \A c \in Commands : caller[c] = "resolved" => DealtWith(c)

----
(* The inductive invariant. *)

\* A command is at most one of: not sent, under way, with the agent; a result
\* is under way only when the agent is done with its command.
OneWay ==
    /\ \A c \in Commands : caller[c] = "idle" => handler[c] = "none" /\ c \notin toAgent
    /\ \A c \in toAgent : handler[c] = "none"
    /\ \A c \in Commands : handler[c] = "running" => kind[c] \in HandledTypes
    /\ \A c \in toPanel : DealtWith(c)

\* ... and with it the map, the timers and the two directions of the wire agree on
\* where each command is.
IInv == TypeOK /\ NothingLeftBehind /\ OneWay /\ ResolvedMeansDone
====
