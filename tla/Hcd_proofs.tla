----------------------------- MODULE Hcd_proofs -----------------------------
(***************************************************************************)
(* Proofs that the root hub port of hcd.c forgets no end of a reset, and that   *)
(* it is connected as the last event said.                                      *)
(*                                                                              *)
(* bus_suspend and bus_resume write back a port that they read before (hcd.c,   *)
(* without the lock).  Both invariants are inductive only with what that copy   *)
(* is worth: CopyHasNoNewChange, it shows no change that the port does not,     *)
(* and CopyIsFresh, it is connected as the port is, if no event fell between.   *)
(***************************************************************************)
EXTENDS Hcd, TLAPS

Histories ==
  /\ remote \in BOOLEAN /\ heard \in BOOLEAN /\ told \in BOOLEAN
  /\ resume \in BOOLEAN /\ raced \in BOOLEAN

TypeOK ==
  /\ Histories /\ port \subseteq Flags /\ hub.port \subseteq Flags
  /\ state \in {"running", "suspended"} /\ event \in {"recv", "poll"}

InBus == hub.op \in {"suspend", "resume"}

CopyHasNoNewChange == InBus => hub.port \cap Changes \subseteq port

CopyIsFresh == InBus /\ ~raced => ("CONNECTION" \in hub.port <=> "CONNECTION" \in port)

\* The steps of the hub driver that write the port, under the lock.
Controls == ClearPortFeature \/ SuspendPort \/ PowerPort \/ ResetPort \/ ClearChange

-----------------------------------------------------------------------------
(* The values of the variables *)

\* Every variable keeps its type.
THEOREM HcdTypes == Spec => []TypeOK
<1>1. Init => TypeOK
  <2>1. Init => Histories
    BY Zenon DEF Init, Histories
  <2>2. Init => port \subseteq Flags /\ hub.port \subseteq Flags
    BY DEF Init, Flags
  <2> QED  BY <2>1, <2>2 DEF Init, TypeOK
<1>2. TypeOK /\ [Next]_vars => TypeOK'
  <2> SUFFICES ASSUME TypeOK, [Next]_vars
               PROVE  TypeOK'
    OBVIOUS
  <2>1. Histories'
    BY Zenon DEF Histories, TypeOK, Next, vars, Receive, EventPoll, Reports, Hub, ClearPortFeature,
       SuspendPort, PowerPort, ResetPort, TakeReport, ReadPort, ClearChange, HubPoll, Control,
       BusSuspend, BusResume, BusWrite, DeviceResume
  <2>2. state' \in {"running", "suspended"} /\ event' \in {"recv", "poll"}
    BY DEF TypeOK, Next, vars, Receive, After, EventPoll, Hub, ClearPortFeature,
       SuspendPort, PowerPort, ResetPort, TakeReport, ReadPort, ClearChange, HubPoll, Control,
       BusSuspend, BusResume, BusWrite, DeviceResume
  <2>3. port' \subseteq Flags
    <3>1. \A e \in Events : Applied(e) \subseteq Flags
      BY DEF TypeOK, Applied, Flags
    <3>2. ASSUME Controls
          PROVE  port' \subseteq Flags
      BY <3>2 DEF Controls, ClearPortFeature, SuspendPort, PowerPort, ResetPort,
                  ResetWhenConnected, ClearChange, Control, TypeOK, Flags
    <3> QED
      BY <3>1, <3>2 DEF TypeOK, Controls, Next, vars, Receive, EventPoll, Hub, TakeReport,
         ReadPort, HubPoll, BusSuspend, BusResume, BusWrite, DeviceResume
  <2>4. hub'.port \subseteq Flags
    <3>1. \A op : HubGoes(op) => hub'.port \subseteq Flags
      BY DEF HubGoes
    <3>2. BusSuspend \/ BusResume => hub'.port \subseteq Flags
      <4>1. BusSuspend => hub'.port = port \cup {"SUSPEND"}
        BY DEF BusSuspend
      <4>2. BusResume => hub'.port = port \ {"SUSPEND"}
        BY DEF BusResume
      <4>3. port \subseteq Flags
        BY DEF TypeOK
      <4> QED  BY <4>1, <4>2, <4>3 DEF Flags
    <3>3. UNCHANGED hub => hub'.port \subseteq Flags
      BY DEF TypeOK
    <3>4. Controls => HubGoes("poll")
      BY DEF Controls, ClearPortFeature, SuspendPort, PowerPort, ResetPort, ClearChange, Control
    <3>5. TakeReport \/ ReadPort \/ HubPoll \/ BusWrite => \E op : HubGoes(op)
      BY DEF TakeReport, ReadPort, HubPoll, BusWrite
    <3>6. (\E e \in Events : Receive(e)) \/ EventPoll \/ DeviceResume \/ UNCHANGED vars
            => UNCHANGED hub
      BY DEF Receive, EventPoll, DeviceResume, vars
    <3> QED  BY <3>1, <3>2, <3>3, <3>4, <3>5, <3>6 DEF Next, Hub, Controls
  <2> QED  BY <2>1, <2>2, <2>3, <2>4 DEF TypeOK
<1> QED  BY <1>1, <1>2, PTL DEF Spec

-----------------------------------------------------------------------------
(* No end of a reset is forgotten *)

\* The bit that the end of a reset sets is reported, or about to be reported or
\* cleared, whatever bus_suspend and bus_resume write back (hcd.c, RESET_DONE).
THEOREM ChangesAreReported == Spec => []ChangeReported
<1> DEFINE I == ChangeReported /\ CopyHasNoNewChange
<1>1. Init => I
  BY DEF Init, ChangeReported, CopyHasNoNewChange, InBus, Changes
<1>2. I /\ [Next]_vars => I'
  <2> SUFFICES ASSUME ChangeReported, CopyHasNoNewChange, [Next]_vars
               PROVE  ChangeReported' /\ CopyHasNoNewChange'
    OBVIOUS
  <2> USE DEF ChangeReported, CopyHasNoNewChange, InBus
  <2>1. ASSUME NEW e \in Events, Receive(e)
        PROVE  ChangeReported' /\ CopyHasNoNewChange'
    <3>1. port \cap Changes \subseteq Applied(e)
      BY DEF Applied, Changes
    <3> QED  BY <2>1, <3>1 DEF Receive, After
  <2>2. CASE EventPoll
    BY <2>2 DEF EventPoll, Reports
  <2>3. CASE Controls
    BY <2>3 DEF Controls, ClearPortFeature, SuspendPort, PowerPort, ResetPort, ClearChange,
                Control, HubGoes
  <2>4. CASE TakeReport \/ ReadPort
    BY <2>4 DEF TakeReport, ReadPort, HubGoes, HubAt
  <2>5. CASE HubPoll
    BY <2>5 DEF HubPoll, HubGoes, HubAt, Reports
  <2>6. CASE BusSuspend \/ BusResume
    BY <2>6 DEF BusSuspend, BusResume, HubIdle, HubAt, Changes
  <2>7. CASE BusWrite
    BY <2>7 DEF BusWrite, HubGoes
  <2>8. CASE DeviceResume
    BY <2>8 DEF DeviceResume, Reports
  <2>9. CASE UNCHANGED vars
    BY <2>9 DEF vars
  <2> QED
    BY <2>1, <2>2, <2>3, <2>4, <2>5, <2>6, <2>7, <2>8, <2>9 DEF Next, Hub, Controls
<1> QED  BY <1>1, <1>2, PTL DEF Spec

-----------------------------------------------------------------------------
(* The port follows the device's end *)

\* The port is connected as the last CONNECT or DISCONNECT said, however the hub
\* driver's requests fall between, until an event falls into an unlocked write.
THEOREM PortFollowsEvents == Spec => []PortFollows
<1> DEFINE I == PortFollows /\ CopyIsFresh
<1>1. Init => I
  BY DEF Init, PortFollows, CopyIsFresh, InBus
<1>2. TypeOK /\ I /\ [Next]_vars => I'
  <2> SUFFICES ASSUME TypeOK, PortFollows, CopyIsFresh, [Next]_vars
               PROVE  PortFollows' /\ CopyIsFresh'
    OBVIOUS
  <2> USE DEF PortFollows, CopyIsFresh, InBus
  <2>1. ASSUME NEW e \in Events, Receive(e)
        PROVE  PortFollows' /\ CopyIsFresh'
    <3> SUFFICES ASSUME ~raced'
                 PROVE  ("CONNECTION" \in port' <=> remote' \/ ~heard') /\ ~InBus'
      OBVIOUS
    <3>1. ~raced /\ hub.op \notin {"suspend", "resume"} /\ ~InBus'
      BY <2>1 DEF Receive
    <3>2. CASE e = "CONNECT"
      BY <2>1, <3>1, <3>2 DEF Receive, Applied
    <3>3. CASE e = "DISCONNECT"
      <4>1. "CONNECTION" \notin port' /\ ~remote'
        BY <2>1, <3>3 DEF Receive, Applied
      <4>2. heard'
        BY <2>1, <3>3, Zenon DEF Receive
      <4> QED  BY <3>1, <4>1, <4>2
    <3>4. CASE e \notin {"CONNECT", "DISCONNECT"}
      <4>1. ("CONNECTION" \in port' <=> "CONNECTION" \in port) /\ remote' = remote
        BY <2>1, <3>4 DEF Receive, Applied
      <4>2. heard' <=> heard
        BY <2>1, <3>4, Zenon DEF Receive
      <4> QED  BY <3>1, <4>1, <4>2
    <3> QED  BY <3>2, <3>3, <3>4
  <2>2. CASE EventPoll
    BY <2>2 DEF EventPoll
  <2>3. CASE Controls
    BY <2>3 DEF Controls, ClearPortFeature, SuspendPort, PowerPort, ResetPort, ResetWhenConnected,
                ClearChange, Control, HubGoes
  <2>4. CASE TakeReport \/ ReadPort
    BY <2>4 DEF TakeReport, ReadPort, HubGoes
  <2>5. CASE HubPoll
    BY <2>5 DEF HubPoll, HubGoes
  <2>6. CASE BusSuspend \/ BusResume
    BY <2>6 DEF BusSuspend, BusResume
  <2>7. CASE BusWrite
    BY <2>7 DEF BusWrite, HubGoes
  <2>8. CASE DeviceResume
    BY <2>8 DEF DeviceResume
  <2>9. CASE UNCHANGED vars
    BY <2>9 DEF vars
  <2> QED
    BY <2>1, <2>2, <2>3, <2>4, <2>5, <2>6, <2>7, <2>8, <2>9 DEF Next, Hub, Controls
<1> QED  BY <1>1, <1>2, HcdTypes, PTL DEF Spec
=============================================================================
