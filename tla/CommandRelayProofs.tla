---- MODULE CommandRelayProofs ----
(***************************************************************************)
(* CommandRelay implements CommandPromise for any number of commands and   *)
(* of breaks, and a caller that is given a result is given its own.        *)
(***************************************************************************)
EXTENDS CommandRelay, TLAPS

LEMMA InitIInv == Init => IInv
<1> SUFFICES ASSUME Init PROVE IInv
  OBVIOUS
<1>1. TypeOK
  BY BreaksAssumption DEF Init, TypeOK
<1>2. NothingLeftBehind /\ OneWay /\ ResolvedMeansDone
  BY DEF Init, NothingLeftBehind, OneWay, DealtWith, ResolvedMeansDone
<1> QED BY <1>1, <1>2 DEF IInv

LEMMA PanelIInv ==
  ASSUME IInv, NEW c \in Commands,
         SendRefused(c) \/ SendCommand(c) \/ CommandTimeout(c) \/ HandleCommandResult(c)
  PROVE  IInv'
<1>1. CASE SendRefused(c)
  BY <1>1 DEF SendRefused, IInv, TypeOK, NothingLeftBehind, OneWay, DealtWith, ResolvedMeansDone,
              Settled, connection, wire
<1>2. CASE SendCommand(c)
  BY <1>2 DEF SendCommand, IInv, TypeOK, NothingLeftBehind, OneWay, DealtWith, ResolvedMeansDone,
              Settled, connection
<1>3. CASE CommandTimeout(c)
  BY <1>3 DEF CommandTimeout, IInv, TypeOK, NothingLeftBehind, OneWay, DealtWith, ResolvedMeansDone,
              Settled, connection, wire
<1>4. CASE HandleCommandResult(c)
  <2>1. TypeOK'
    BY <1>4 DEF HandleCommandResult, connection, panel, Settled, IInv, TypeOK
  <2>2. NothingLeftBehind'
    BY <1>4 DEF HandleCommandResult, connection, panel, Settled, IInv, TypeOK, NothingLeftBehind
  <2>3. OneWay'
    BY <1>4 DEF HandleCommandResult, connection, panel, Settled, IInv, TypeOK, NothingLeftBehind, OneWay, DealtWith
  <2>4. ResolvedMeansDone'
    BY <1>4 DEF HandleCommandResult, connection, panel, Settled, IInv, TypeOK, NothingLeftBehind, OneWay, DealtWith, ResolvedMeansDone
  <2> QED BY <2>1, <2>2, <2>3, <2>4 DEF IInv
<1> QED BY <1>1, <1>2, <1>3, <1>4

LEMMA AgentIInv ==
  ASSUME IInv, NEW c \in Commands, ReceiveCommand(c) \/ FinishCommand(c)
  PROVE  IInv'
<1>1. CASE ReceiveCommand(c)
  BY <1>1 DEF ReceiveCommand, IInv, TypeOK, NothingLeftBehind, OneWay, DealtWith, ResolvedMeansDone,
              connection, panel
<1>2. CASE FinishCommand(c)
  BY <1>2 DEF FinishCommand, IInv, TypeOK, NothingLeftBehind, OneWay, DealtWith, ResolvedMeansDone,
              connection, panel
<1> QED BY <1>1, <1>2

LEMMA ConnectionIInv ==
  ASSUME IInv,
         \/ Register
         \/ Unregister
         \/ \E arrived \in SUBSET toPanel : Break(arrived) \/ AgentExit(arrived)
  PROVE  IInv'
<1>1. CASE Register \/ Unregister
  BY <1>1 DEF Register, Unregister, IInv, TypeOK, NothingLeftBehind, OneWay, DealtWith,
              ResolvedMeansDone, panel, wire
<1>2. ASSUME NEW arrived \in SUBSET toPanel, Break(arrived)
      PROVE  IInv'
  <2>1. TypeOK'
    BY <1>2, BreaksAssumption DEF Break, SocketBreaks, panel, IInv, TypeOK
  <2>2. NothingLeftBehind'
    BY <1>2 DEF Break, SocketBreaks, panel, IInv, TypeOK, NothingLeftBehind
  <2>3. OneWay'
    BY <1>2 DEF Break, SocketBreaks, panel, IInv, TypeOK, NothingLeftBehind, OneWay, DealtWith
  <2>4. ResolvedMeansDone'
    BY <1>2 DEF Break, SocketBreaks, panel, IInv, TypeOK, NothingLeftBehind, OneWay, DealtWith, ResolvedMeansDone
  <2> QED BY <2>1, <2>2, <2>3, <2>4 DEF IInv
<1>3. ASSUME NEW arrived \in SUBSET toPanel, AgentExit(arrived)
      PROVE  IInv'
  <2>1. CASE SocketBreaks(arrived)
    <3>1. TypeOK'
      BY <1>3, <2>1, BreaksAssumption DEF AgentExit, SocketBreaks, panel, IInv, TypeOK
    <3>2. NothingLeftBehind'
      BY <1>3, <2>1 DEF AgentExit, SocketBreaks, panel, IInv, TypeOK, NothingLeftBehind
    <3>3. OneWay'
      BY <1>3, <2>1 DEF AgentExit, SocketBreaks, panel, IInv, TypeOK, NothingLeftBehind, OneWay, DealtWith
    <3>4. ResolvedMeansDone'
      BY <1>3, <2>1 DEF AgentExit, SocketBreaks, panel, IInv, TypeOK, NothingLeftBehind, OneWay, DealtWith, ResolvedMeansDone
    <3> QED BY <3>1, <3>2, <3>3, <3>4 DEF IInv
  <2>2. CASE UNCHANGED <<panel, connection, wire>>
    BY <1>3, <2>2 DEF AgentExit, IInv, TypeOK, NothingLeftBehind, OneWay, DealtWith,
       ResolvedMeansDone, panel, connection, wire
  <2> QED BY <1>3, <2>1, <2>2 DEF AgentExit
<1> QED BY <1>1, <1>2, <1>3

LEMMA PanelExitIInv == IInv /\ PanelExit => IInv'
<1> SUFFICES ASSUME IInv, PanelExit PROVE IInv'
  OBVIOUS
<1>1. TypeOK'
  BY BreaksAssumption DEF PanelExit, Settled, IInv, TypeOK
<1>2. NothingLeftBehind'
  BY DEF PanelExit, Settled, IInv, TypeOK, NothingLeftBehind
<1>3. OneWay'
  BY DEF PanelExit, Settled, IInv, TypeOK, NothingLeftBehind, OneWay, DealtWith
<1>4. ResolvedMeansDone'
  BY DEF PanelExit, Settled, IInv, TypeOK, NothingLeftBehind, OneWay, DealtWith, ResolvedMeansDone
<1> QED BY <1>1, <1>2, <1>3, <1>4 DEF IInv

\* Every step of the relay maps to a step of the promise or to none.
LEMMA StepImplements ==
  ASSUME IInv, [Next]_vars
  PROVE  [Promise!Next]_([c \in Commands |-> PromiseOf(caller[c])])
<1> DEFINE bar == [c \in Commands |-> PromiseOf(caller[c])]
<1>1. ASSUME NEW c \in Commands, SendRefused(c) PROVE Promise!Refuse(c)
  BY <1>1 DEF SendRefused, IInv, TypeOK, PromiseOf, Promise!Refuse, Promise!Become
<1>2. ASSUME NEW c \in Commands, SendCommand(c) PROVE Promise!Send(c)
  BY <1>2 DEF SendCommand, IInv, TypeOK, PromiseOf, Promise!Send, Promise!Become
<1>3. ASSUME NEW c \in Commands, CommandTimeout(c) PROVE Promise!Reject(c)
  BY <1>3 DEF CommandTimeout, IInv, TypeOK, NothingLeftBehind, PromiseOf, Promise!Reject,
              Promise!Become
<1>4. ASSUME NEW c \in Commands, HandleCommandResult(c)
      PROVE  Promise!Fulfil(c) \/ UNCHANGED bar
  BY <1>4 DEF HandleCommandResult, IInv, TypeOK, NothingLeftBehind, PromiseOf, panel,
              Promise!Fulfil, Promise!Become
<1>5. ASSUME PanelExit PROVE Promise!Abandon
  BY <1>5 DEF PanelExit, IInv, TypeOK, PromiseOf, Promise!Abandon
<1>6. CASE UNCHANGED caller
  BY <1>6
<1> QED
  BY <1>1, <1>2, <1>3, <1>4, <1>5, <1>6 DEF Next, vars, panel, ReceiveCommand, FinishCommand,
     Register, Break, SocketBreaks, Unregister, AgentExit, Promise!Next

LEMMA NextIInv == IInv /\ [Next]_vars => IInv'
<1>1. CASE Next
  BY <1>1, PanelIInv, AgentIInv, ConnectionIInv, PanelExitIInv DEF Next
<1>2. CASE UNCHANGED vars
  BY <1>2 DEF vars, panel, connection, wire, IInv, TypeOK, NothingLeftBehind, OneWay, DealtWith,
              ResolvedMeansDone
<1> QED BY <1>1, <1>2

THEOREM RelayInvariant == Spec => []IInv
BY InitIInv, NextIInv, PTL DEF Spec

\* pendingCommands and the timers are exactly those of the waiting callers.
THEOREM NoCommandLeftBehind == Spec => []NothingLeftBehind
<1>1. IInv => NothingLeftBehind
  BY DEF IInv
<1> QED BY <1>1, RelayInvariant, PTL

\* A caller that is given a result is given that of its own command, which was run to
\* its end, or for which the agent has no handler.
THEOREM ResolvedIsDone == Spec => []ResolvedMeansDone
<1>1. IInv => ResolvedMeansDone
  BY DEF IInv
<1> QED BY <1>1, RelayInvariant, PTL

\* The relay implements the promise: one outcome a caller, and it stands.
THEOREM RelayKeepsPromise == Spec => SettlesOnce
<1>1. Init => Promise!Init
  BY DEF Init, PromiseOf, Promise!Init
<1> QED BY <1>1, StepImplements, RelayInvariant, PTL DEF Spec, SettlesOnce, Promise!Spec
====
