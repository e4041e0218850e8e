-------------------------------- MODULE Hcd ---------------------------------
(***************************************************************************)
(* The root hub port of the host controller of modules/dummy_usb (hcd.c): the    *)
(* event thread applies what the device's end sends, in whatever order UDP       *)
(* delivers it; the hub driver reads and changes the port; the bus is suspended  *)
(* and resumed without the lock.                                                 *)
(***************************************************************************)
EXTENDS Naturals, FiniteSets

VARIABLES
  port,    \* the bits of port_status that are set
  remote,  \* remote_connected
  heard,   \* history: a CONNECT or DISCONNECT was received
  event,   \* the event thread: "recv", or "poll" before usb_hcd_poll_rh_status
  hub,     \* the hub driver: "idle", "read", "clear", "poll", or [op, port] in a
           \* bus_suspend or bus_resume that has read port_status
  told,    \* a change was reported and not yet read
  state,   \* hcd->state: "running" or "suspended"
  resume,  \* usb_hcd_resume_root_hub was called
  raced    \* history: an event was applied within a bus_suspend or bus_resume

vars == <<port, remote, heard, event, hub, told, state, resume, raced>>

Flags == {"CONNECTION", "ENABLE", "SUSPEND", "RESET", "POWER", "C_RESET"}

Changes == {"C_RESET"}  \* nothing else sets a bit above the 16th

Events == {"CONNECT", "DISCONNECT", "RESET_DONE", "SUSPEND", "RESUME"}

\* uoe_hcd_start: the port starts as connected.
Init ==
  /\ port = {"POWER", "CONNECTION"} /\ remote = FALSE /\ heard = FALSE
  /\ event = "recv" /\ hub = [op |-> "idle", port |-> {}]
  /\ told = FALSE /\ state = "running" /\ resume = FALSE /\ raced = FALSE

HubAt(op) == hub.op = op

HubGoes(op) == hub' = [op |-> op, port |-> {}]

-----------------------------------------------------------------------------
(* The event thread *)

Applied(e) ==
  CASE e = "CONNECT" -> port \cup {"CONNECTION", "ENABLE"}
    [] e = "DISCONNECT" -> port \ {"CONNECTION", "ENABLE"}
    [] e = "RESET_DONE" -> (port \ {"RESET"}) \cup {"ENABLE", "C_RESET"}
    [] e = "SUSPEND" -> port \cup {"SUSPEND"}
    [] OTHER -> port \ {"SUSPEND"}

AfterQuiet(e) == IF e = "RESET_DONE" THEN "recv" ELSE "poll"

\* The thread reports every event once it has dropped the lock.
After(e) == "poll"

Receive(e) ==
  /\ event = "recv" /\ event' = After(e)
  /\ port' = Applied(e)
  /\ remote' = IF e = "CONNECT" THEN TRUE ELSE IF e = "DISCONNECT" THEN FALSE ELSE remote
  /\ heard' = (heard \/ e \in {"CONNECT", "DISCONNECT"})
  /\ raced' = (raced \/ hub.op \in {"suspend", "resume"})
  /\ UNCHANGED <<hub, told, state, resume>>

\* usb_hcd_poll_rh_status asks uoe_hcd_hub_status: a change is reported, and wakes a
\* suspended root hub.
Reports ==
  /\ told' = (told \/ port \cap Changes # {})
  /\ resume' = (resume \/ (port \cap Changes # {} /\ state = "suspended"))

EventPoll ==
  /\ event = "poll" /\ event' = "recv" /\ Reports
  /\ UNCHANGED <<port, remote, heard, hub, state, raced>>

-----------------------------------------------------------------------------
(* The hub driver: one thread, while the bus runs.  External but for hub_control. *)

HubIdle == HubAt("idle") /\ state = "running"

\* hub_control polls again, without the lock, when a change is pending.
Control(new) ==
  /\ port' = new /\ HubGoes("poll")
  /\ UNCHANGED <<remote, heard, event, told, state, resume, raced>>

ClearPortFeature == \E f \in {"SUSPEND", "POWER", "ENABLE"} : HubIdle /\ Control(port \ {f})

SuspendPort ==
  HubIdle /\ Control(IF "ENABLE" \in port THEN port \cup {"SUSPEND"} ELSE port)

PowerPort == HubIdle /\ Control(port \cup {"POWER"})

ResetDropping ==
  IF "CONNECTION" \in port THEN (port \cup {"RESET"}) \ {"ENABLE", "CONNECTION"} ELSE port

ResetWhenConnected == IF "CONNECTION" \in port THEN (port \cup {"RESET"}) \ {"ENABLE"} ELSE port

ResetPort == HubIdle /\ Control(ResetWhenConnected)

\* A report is answered by reading the port and clearing the changes found.
TakeReport ==
  /\ HubIdle /\ told /\ told' = FALSE /\ HubGoes("read")
  /\ UNCHANGED <<port, remote, heard, event, state, resume, raced>>

ReadPort ==
  /\ HubAt("read") /\ HubGoes(IF port \cap Changes # {} THEN "clear" ELSE "poll")
  /\ UNCHANGED <<port, remote, heard, event, told, state, resume, raced>>

ClearChange == HubAt("clear") /\ Control(port \ {"C_RESET"})

HubPoll ==
  /\ HubAt("poll") /\ HubGoes("idle")
  /\ IF port \cap Changes # {} THEN Reports ELSE UNCHANGED <<told, resume>>
  /\ UNCHANGED <<port, remote, heard, event, state, raced>>

-----------------------------------------------------------------------------
(* bus_suspend and bus_resume set the state, then read and write the port without *)
(* the lock.                                                                      *)

BusSuspend ==
  /\ HubIdle /\ state' = "suspended" /\ hub' = [op |-> "suspend", port |-> port \cup {"SUSPEND"}]
  /\ UNCHANGED <<port, remote, heard, event, told, resume, raced>>

BusResume ==
  /\ HubAt("idle") /\ state = "suspended" /\ state' = "running" /\ resume' = FALSE
  /\ hub' = [op |-> "resume", port |-> port \ {"SUSPEND"}]
  /\ UNCHANGED <<port, remote, heard, event, told, raced>>

BusWrite ==
  /\ hub.op \in {"suspend", "resume"} /\ port' = hub.port /\ HubGoes("idle")
  /\ UNCHANGED <<remote, heard, event, told, state, resume, raced>>

\* uoe_hcd_resume of the platform device.
DeviceResume == Reports /\ UNCHANGED <<port, remote, heard, event, hub, state, raced>>

Hub ==
  \/ ClearPortFeature \/ SuspendPort \/ PowerPort \/ ResetPort
  \/ TakeReport \/ ReadPort \/ ClearChange \/ HubPoll
  \/ BusSuspend \/ BusResume \/ BusWrite

Next == (\E e \in Events : Receive(e)) \/ EventPoll \/ Hub \/ DeviceResume

Spec == Init /\ [][Next]_vars

-----------------------------------------------------------------------------
\* No end of a reset is forgotten: while its bit is set it has been reported, or the
\* event thread or the hub driver is about to report it or to clear it.
ChangeReported ==
  port \cap Changes # {} => told \/ event = "poll" \/ hub.op \in {"read", "clear", "poll"}

\* The port is connected as the last CONNECT or DISCONNECT said, however the hub
\* driver's requests fall between the events, unless an event fell into the unlocked
\* write of a bus_suspend or bus_resume.
PortFollows == ~raced => ("CONNECTION" \in port <=> remote \/ ~heard)
=============================================================================
