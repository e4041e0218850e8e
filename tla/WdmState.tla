------------------------------ MODULE WdmState ------------------------------
(***************************************************************************)
(* The state of one struct wdm_device (cdc-wdm.c:106-145), the threads and *)
(* callbacks that touch it, and what the USB core, the workqueue and the   *)
(* mutexes do for it.  The modules WdmWrite, WdmRead, WdmFile, WdmHotplug  *)
(* and WdmWwan each add the handlers of one part of the driver over this   *)
(* state; CdcWdm puts them together.                                       *)
(*                                                                         *)
(* Grain.  One action is one stretch of code that no other context can see *)
(* the middle of: an iuspin section, one test_bit, one blocking call.      *)
(***************************************************************************)
EXTENDS Integers, Sequences, FiniteSets

CONSTANTS
  Procs,        \* user processes, each with at most one open file
  None,         \* no owner of a lock, no buffer
  wMaxCommand,  \* capacity of ubuf, in bytes
  ReadSizes,    \* byte counts a read() may ask for
  Responses,    \* what the device may answer: <<status, length>> pairs
  IntFaults,    \* faults of the interrupt endpoint: subset of {"stall", "other"}
  SubmitFaults, \* usb_submit_urb failures without a cause here: subset of {"ENOMEM"}
  CommandStatus,\* completion statuses of the command URB: subset of {"ok", "err"}
  CallsOf,      \* which calls a process makes: a set of names of Calls
  CoreOps,      \* what the USB core may ask of the driver
  HasWwan,      \* the subdriver registered a WWAN port (cdc-wdm.c:967)
  MaxNotes,     \* bound: RESPONSE_AVAILABLE notifications the device sends
  MaxCoreOps    \* bound: suspends, resets and disconnects

Calls == {"read", "write", "fsync", "close"}
Urbs == {"command", "validity", "response"}
Locks == {"wdm", "rlock", "wlock", "iuspin", "ops"}
Works == {"rx", "svc"}

\* Procs make system calls; "core" is the USB core thread that binds, suspends
\* and resets; "wwan" the WWAN core's caller; "rx" and "svc" the two work items;
\* "int" and "out" the completion handlers that run in more than one stretch.
Threads == Procs \cup {"core", "wwan", "rx", "svc", "int", "out"}

ASSUME ConstantsAssumption ==
  /\ IsFiniteSet(Procs)
  /\ Procs \cap {"core", "wwan", "rx", "svc", "int", "out", None} = {}
  /\ None \notin Threads
  /\ wMaxCommand \in Nat \ {0}
  /\ ReadSizes \subseteq Nat \ {0}
  /\ Responses \subseteq {"ok", "EPIPE", "EPROTO"} \X (0 .. wMaxCommand)
  /\ IntFaults \subseteq {"stall", "other"}
  /\ SubmitFaults \subseteq {"ENOMEM"}
  /\ CommandStatus \subseteq {"ok", "err"}
  /\ CallsOf \in [Procs -> SUBSET Calls]
  /\ CoreOps \subseteq {"suspend", "autosuspend", "reset", "disconnect"}
  /\ HasWwan \in BOOLEAN
  /\ MaxNotes \in Nat
  /\ MaxCoreOps \in Nat

VARIABLES
  pc,         \* where each thread is
  lock,       \* owner of wdm_mutex, rlock, wlock, iuspin and the WWAN port's ops_lock
  flags,      \* the set bits of desc->flags
  urb,        \* whether each URB is with the host controller
  poison,     \* how many usb_poison_urb calls are outstanding on it
  work,       \* the work items that are queued
  count, alive, listed,        \* open files; desc not yet freed; desc on wdm_device_list
  werr, outbuf,                \* pending write error; whose buffer desc->outbuf is
  handler, txoff,              \* who owns command->complete; the port's TX is off
  rerr, resp_count, reslength, \* pending read error; notifications owed; last length
  ubuf, cntr,                  \* unread bytes; the local cntr of each read
  sent, got, told,             \* last byte the device sent, a reader got, ENOBUFS covered
  avail, notesLeft,                \* messages the device holds; notifications it may send
  pm, pmUse, coreOp, opsLeft       \* power state, autopm references, the core's business

locking == <<pc, lock>>
usb     == <<urb, poison>>
life    == <<count, alive, listed>>
wr      == <<werr, outbuf, handler, txoff>>
rsp     == <<rerr, resp_count, reslength>>
buf     == <<ubuf, cntr, sent, got, told>>
dev     == <<avail, notesLeft>>
power   == <<pm, pmUse, coreOp, opsLeft>>
vars    == <<locking, flags, usb, work, life, wr, rsp, buf, dev, power>>

-----------------------------------------------------------------------------
(* Threads and locks *)

At(t, l) == pc[t] = l
Goto(t, l) == pc' = [pc EXCEPT ![t] = l]

Free(l) == lock[l] = None
Acquire(t, l) == Free(l) /\ lock' = [lock EXCEPT ![l] = t]
Release(ls) == lock' = [l \in Locks |-> IF l \in ls THEN None ELSE lock[l]]

Set(bits) == flags' = flags \cup bits
Clear(bits) == flags' = flags \ bits

-----------------------------------------------------------------------------
(* The USB core *)

\* usb_submit_urb: refused while the URB is active, poisoned or its device
\* asleep; a transient failure may also happen.
SubmitResults(u) ==
  LET refused == (IF urb[u] THEN {"EBUSY"} ELSE {})
                   \cup (IF poison[u] > 0 THEN {"EPERM"} ELSE {})
                   \cup (IF pm = "suspended" THEN {"EHOSTUNREACH"} ELSE {})
  IN  IF refused = {} THEN {"ok"} \cup SubmitFaults ELSE refused

\* urb' after a submission of u that returned rv.
Submitted(u, rv) == IF rv = "ok" THEN [urb EXCEPT ![u] = TRUE] ELSE urb

Complete(u) == urb' = [urb EXCEPT ![u] = FALSE]

\* The URB is not active and its completion handler is not running: what
\* usb_poison_urb waits for.
Quiet(u) ==
  /\ ~urb[u]
  /\ u = "validity" => At("int", "idle")
  /\ u = "command" => At("out", "idle")

\* poison_urbs, 381-387, run by thread t from "p1".  usb_poison_urb bars new
\* submissions, cancels the URB and waits until its handler has returned, so
\* the next URB is poisoned only when this one is quiet.
PoisonUrb(t, from, to, quiet, u) ==
  /\ At(t, from)
  /\ \A v \in quiet : Quiet(v)
  /\ poison' = [poison EXCEPT ![u] = @ + 1]
  /\ Goto(t, to)
  /\ UNCHANGED <<lock, flags, urb, work, life, wr, rsp, buf, dev, power>>

PoisonUrbs(t) ==
  \/ PoisonUrb(t, "p1", "p2", {}, "command")
  \/ PoisonUrb(t, "p2", "p3", {"command"}, "validity")
  \/ PoisonUrb(t, "p3", "p4", {"validity"}, "response")

Poisoned(t) == At(t, "p4") /\ Quiet("response")

\* unpoison_urbs, 389-398
UnpoisonUrbs == poison' = [u \in Urbs |-> poison[u] - 1]

\* usb_autopm_get_interface returns once the device is awake.
PmReady == pm = "active" /\ coreOp # "autosuspend"

-----------------------------------------------------------------------------
(* service_outstanding_interrupt, 530-562, is called with iuspin held.  Its *)
(* first stretch either returns at once (Settled, Refused) or marks the     *)
(* response URB busy and drops iuspin to submit it.                         *)

Settled == resp_count <= 1
Refused == ~Settled /\ flags \cap {"DISCONNECTING", "RESETTING"} # {}
Owed    == ~Settled /\ ~Refused

TakeOwed == resp_count' = IF resp_count = 0 THEN 0 ELSE resp_count - 1

\* The second stretch, without iuspin: from the submission to ok or fail.
SubmitOwed(t, from, ok, fail) ==
  /\ At(t, from)
  /\ \E rv \in SubmitResults("response") :
       /\ urb' = Submitted("response", rv)
       /\ Goto(t, IF rv = "ok" THEN ok ELSE fail)
  /\ UNCHANGED <<lock, flags, poison, work, life, wr, rsp, buf, dev, power>>

-----------------------------------------------------------------------------
\* wdm_create, 1062-1174: the device is registered and idle.
Init ==
  /\ pc = [t \in Threads |-> IF t \in Procs THEN "closed"
                             ELSE IF t = "wwan" THEN "stopped" ELSE "idle"]
  /\ lock = [l \in Locks |-> None]
  /\ flags = {}
  /\ urb = [u \in Urbs |-> FALSE]
  /\ poison = [u \in Urbs |-> 0]
  /\ work = {}
  /\ count = 0 /\ alive = TRUE /\ listed = TRUE
  /\ werr = 0 /\ outbuf = None /\ handler = "write" /\ txoff = FALSE
  /\ rerr = 0 /\ resp_count = 0 /\ reslength = 0
  /\ ubuf = <<>> /\ cntr = [p \in Procs |-> 0] /\ sent = 0 /\ got = 0 /\ told = 0
  /\ avail = 0 /\ notesLeft = MaxNotes
  /\ pm = "active" /\ pmUse = 0 /\ coreOp = "none" /\ opsLeft = MaxCoreOps
=============================================================================
