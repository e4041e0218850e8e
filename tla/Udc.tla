-------------------------------- MODULE Udc ---------------------------------
(***************************************************************************)
(* The USB device controller of modules/dummy_usb: udc.c, and what it uses of  *)
(* usb_over_net.c.  A gadget driver queues requests on endpoints; the poll       *)
(* thread answers each POLL datagram with the head of a queue and hands each     *)
(* SETUP to the gadget driver.  Datagrams may be lost, repeated and reordered:   *)
(* any packet may come next.  Every critical section of dum->lock is one step.   *)
(***************************************************************************)
EXTENDS Naturals, Sequences, SequencesExt

CONSTANTS
  Endpoints,  \* the endpoints in the order of ep_info, "ep0" first
  InEps,      \* those of direction IN
  Requests,   \* the requests of the gadget driver
  Large,      \* those longer than FIFO_SIZE
  Halts,      \* the endpoints that may be halted
  MaxQueues   \* bound: the calls of dummy_queue begun

ASSUME UdcAssumption ==
  /\ Endpoints \in Seq(Range(Endpoints)) /\ Endpoints # <<>> /\ Endpoints[1] = "ep0"
  /\ InEps \subseteq Range(Endpoints) \ {"ep0"}
  /\ Large \subseteq Requests /\ "fifo" \notin Requests /\ Halts \subseteq Range(Endpoints)
  /\ MaxQueues \in Nat

Ep == Range(Endpoints)

\* fn: a thread of the gadget driver; poll: uoe_udc_poll_loop, with the setup
\* callback in it; core: the USB core, which binds and unbinds the driver.
Thread == {"fn", "poll", "core"}

VARIABLES
  driver,   \* dum->driver is set
  pullup,
  setup,    \* the SETUP in hand: its stage, and whether the pullup was on when it came
  usage,    \* callback_usage
  desc,     \* the endpoints with a descriptor: those enabled
  halted, wedged,
  queue,    \* per endpoint: a sequence of [req, n, late]; req "fifo" is fifo_req
  fifo,     \* the n of the request whose bytes fifo_req points at, 0 for the stack
  owned,    \* the requests the gadget driver has: not queued, or given back
  pc,       \* per thread: what it does outside the lock
  phase,    \* the core: "unbound", "bound", "up", "draining", "down", "stopping"
  life,     \* probe and remove: "none", "socket", "server", "added", "running",
            \* "stopping", "deleting", "closing"
  sockets,  \* the sockets of dum->conn
  count     \* the calls of dummy_queue that were accepted

requests == <<queue, fifo, owned, count>>
device == <<life, sockets>>
state == <<driver, pullup, phase, device>>
endpoints == <<desc, halted, wedged>>
vars == <<state, setup, usage, endpoints, requests, pc>>

Idle == [at |-> "idle"]

NoSetup == [stage |-> "none", up |-> FALSE]

Init ==
  /\ driver = FALSE /\ pullup = FALSE /\ phase = "unbound"
  /\ life = "none" /\ sockets = {}
  /\ setup = NoSetup /\ usage = 0
  /\ desc = {} /\ halted = {} /\ wedged = {}
  /\ queue = [e \in Ep |-> <<>>] /\ fifo = 0 /\ owned = Requests
  /\ pc = [t \in Thread |-> Idle] /\ count = 0

Go(t, place) == pc' = [pc EXCEPT ![t] = place]

\* A driver that is being unbound has stopped its own threads; its setup callback
\* may still be called.
MayCall(t) ==
  /\ pc[t] = Idle
  /\ \/ t = "fn" /\ phase \in {"bound", "up", "draining"}
     \/ t = "poll" /\ setup.stage = "callback"

-----------------------------------------------------------------------------
(* Queueing *)

\* dummy_queue looks at the descriptor and the driver before it takes the lock.
QueueCheck(t, e, r) ==
  /\ MayCall(t) /\ count < MaxQueues
  /\ r \in owned /\ (e \in desc \/ e = "ep0") /\ driver
  /\ owned' = owned \ {r} /\ Go(t, [at |-> "queue", ep |-> e, req |-> r])
  /\ UNCHANGED <<state, setup, usage, endpoints, queue, fifo, count>>

\* A small request at an idle IN endpoint is copied to fifo_req.
FitsFifoAny(e, r) == e \in desc \cap InEps /\ queue[e] = <<>> /\ r \notin Large

FitsFifo(e, r) ==
  /\ e \in desc \cap InEps /\ queue[e] = <<>> /\ r \notin Large
  /\ \A f \in Ep : \A i \in DOMAIN queue[f] : queue[f][i].req # "fifo"

Giving(e, r, left) == [at |-> "give", ep |-> e, req |-> r, left |-> left]

\* A copied request is given back at once.
QueueAdd(t) ==
  LET e == pc[t].ep
      r == pc[t].req
      copied == FitsFifo(e, r)
      late == ~driver \/ phase = "stopping" \/ (e # "ep0" /\ e \notin desc)
  IN /\ pc[t].at = "queue" /\ count' = count + 1
     /\ queue' = [queue EXCEPT ![e] =
                    Append(@, [req |-> IF copied THEN "fifo" ELSE r, n |-> count', late |-> late])]
     /\ fifo' = IF copied THEN count' ELSE fifo
     /\ Go(t, IF copied THEN Giving(e, r, <<>>) ELSE Idle)
     /\ UNCHANGED <<state, setup, usage, endpoints, owned>>

TakenNot(q, i) == q

\* list_del_init.
Taken(q, i) == RemoveAt(q, i)

\* dummy_dequeue takes a request only from the queue of its endpoint, the first found.
Dequeue(t, e, r) ==
  /\ MayCall(t) /\ driver
  /\ \E i \in DOMAIN queue[e] :
       /\ queue[e][i].req = r /\ \A j \in 1 .. i - 1 : queue[e][j].req # r
       /\ queue' = [queue EXCEPT ![e] = Taken(@, i)]
  /\ Go(t, Giving(e, r, <<>>))
  /\ UNCHANGED <<state, setup, usage, endpoints, fifo, owned, count>>

-----------------------------------------------------------------------------
(* Emptying queues *)

Busy(eps) == \E k \in DOMAIN eps : queue[eps[k]] # <<>>

\* The queues left to empty once the head of the k-th is taken.
LeftOnce(eps, k) == SubSeq(eps, k + 1, Len(eps))

Left(eps, k) == SubSeq(eps, k, Len(eps))

\* nuke, over one queue or, in stop_activity, over all: the lock is dropped for each
\* giveback.
Nuke(t, eps) ==
  \/ ~Busy(eps) /\ Go(t, Idle) /\ UNCHANGED queue
  \/ \E k \in DOMAIN eps :
       /\ queue[eps[k]] # <<>> /\ \A j \in 1 .. k - 1 : queue[eps[j]] = <<>>
       /\ queue' = [queue EXCEPT ![eps[k]] = Tail(@)]
       /\ Go(t, Giving(eps[k], Head(queue[eps[k]]).req, Left(eps, k)))

NukeOn(t) ==
  /\ pc[t].at = "nuke" /\ Nuke(t, pc[t].left)
  /\ driver' = (driver /\ (t = "core" => Busy(pc[t].left)))
  /\ phase' = IF t = "core" /\ ~Busy(pc[t].left) THEN "unbound" ELSE phase
  /\ UNCHANGED <<pullup, device, setup, usage, endpoints, fifo, owned, count>>

\* usb_gadget_giveback_request, without the lock; fifo_complete does nothing.
Give(t) ==
  /\ pc[t].at = "give"
  /\ owned' = owned \cup ({pc[t].req} \cap Requests)
  /\ Go(t, IF pc[t].left = <<>> THEN Idle ELSE [at |-> "nuke", left |-> pc[t].left])
  /\ UNCHANGED <<state, setup, usage, endpoints, queue, fifo, count>>

-----------------------------------------------------------------------------
(* The other endpoint operations *)

Enable(t, e) ==
  /\ MayCall(t) /\ driver /\ e # "ep0" /\ e \notin desc
  /\ desc' = desc \cup {e} /\ halted' = halted \ {e} /\ wedged' = wedged \ {e}
  /\ UNCHANGED <<state, setup, usage, requests, pc>>

Disable(t, e) ==
  /\ MayCall(t) /\ e \in desc
  /\ desc' = desc \ {e} /\ Nuke(t, <<e>>)
  /\ UNCHANGED <<state, setup, usage, halted, wedged, fifo, owned, count>>

\* set_wedge passes 1 like usb_ep_set_halt: the 2 of a wedge has no caller.
SetHalt(t, e, value) ==
  /\ MayCall(t) /\ driver /\ e \in Halts
  /\ value = 0 \/ ~(e \in desc \cap InEps /\ queue[e] # <<>>)
  /\ halted' = IF value = 0 THEN halted \ {e} ELSE halted \cup {e}
  /\ wedged' = IF value = 0 THEN wedged \ {e} ELSE IF value = 2 THEN wedged \cup {e} ELSE wedged
  /\ UNCHANGED <<state, setup, usage, desc, requests, pc>>

-----------------------------------------------------------------------------
(* The poll thread *)

Waiting ==
  life \in {"running", "stopping"} /\ pc["poll"] = Idle /\ setup = NoSetup

\* A POLL takes the head of the queue; with none the answer is STALL or NAK.
Poll(e) ==
  /\ Waiting /\ (e \in desc \/ e = "ep0") /\ queue[e] # <<>>
  /\ queue' = [queue EXCEPT ![e] = Tail(@)]
  /\ Go("poll", Giving(e, Head(queue[e]).req, <<>>))
  /\ UNCHANGED <<state, setup, usage, endpoints, fifo, owned, count>>

\* handle_control_request: what it answers itself.
HostHalts(e) ==
  /\ Waiting /\ e \in desc \cap Halts /\ halted' = halted \cup {e}
  /\ UNCHANGED <<state, setup, usage, desc, wedged, requests, pc>>

HostClearsHalt(e) ==
  /\ Waiting /\ e \in desc /\ halted' = halted \ ({e} \ wedged)
  /\ UNCHANGED <<state, setup, usage, desc, wedged, requests, pc>>

\* GET_STATUS points fifo_req at its own stack, queued or not.
HostAsksStatus ==
  /\ Waiting /\ fifo' = 0
  /\ UNCHANGED <<state, setup, usage, endpoints, queue, owned, count, pc>>

UsageNone == 0

\* callback_usage, counted before the lock is dropped for the callback.
UsageDuring == 1

\* The other requests go to the driver, which is read again without the lock.
SetupComes ==
  /\ Waiting /\ driver
  /\ usage' = usage + UsageDuring /\ setup' = [stage |-> "entering", up |-> pullup]
  /\ UNCHANGED <<state, endpoints, requests, pc>>

SetupEnters ==
  /\ setup.stage = "entering"
  /\ setup' = [setup EXCEPT !.stage = IF driver THEN "callback" ELSE "oops"]
  /\ UNCHANGED <<state, usage, endpoints, requests, pc>>

SetupEnds ==
  /\ setup.stage = "callback" /\ pc["poll"] = Idle
  /\ setup' = NoSetup /\ usage' = usage - UsageDuring
  /\ UNCHANGED <<state, endpoints, requests, pc>>

-----------------------------------------------------------------------------
(* The USB core.  External: it starts the controller, turns the pullup on, and to *)
(* unbind turns it off, lets the driver unbind and stops the controller.          *)

Start ==
  /\ life \in {"added", "running", "stopping"}
  /\ phase = "unbound" /\ phase' = "bound" /\ driver' = TRUE
  /\ UNCHANGED <<pullup, device, setup, usage, endpoints, requests, pc>>

PullupOn ==
  /\ phase = "bound" /\ phase' = "up" /\ pullup' = TRUE
  /\ UNCHANGED <<driver, device, setup, usage, endpoints, requests, pc>>

\* dummy_pullup(0): the flag first, then it waits for the callbacks.
PullupOff ==
  /\ phase = "up" /\ phase' = "draining" /\ pullup' = FALSE
  /\ UNCHANGED <<driver, device, setup, usage, endpoints, requests, pc>>

PullupWait ==
  /\ phase = "draining" /\ usage = 0 /\ pc["fn"] = Idle /\ phase' = "down"
  /\ UNCHANGED <<driver, pullup, device, setup, usage, endpoints, requests, pc>>

Stop ==
  /\ phase = "down" /\ Nuke("core", Endpoints)
  /\ phase' = IF Busy(Endpoints) THEN "stopping" ELSE "unbound"
  /\ driver' = Busy(Endpoints)
  /\ UNCHANGED <<pullup, device, setup, usage, endpoints, fifo, owned, count>>

-----------------------------------------------------------------------------
(* uoe_udc_probe and uoe_udc_remove *)

\* The first socket of uoe_create_server.  A new dum is all zero; the requests of
\* the drivers of an earlier one went with them.
CreateData ==
  /\ life = "none" /\ life' = "socket" /\ sockets' = {"data"}
  /\ desc' = {} /\ halted' = {} /\ wedged' = {}
  /\ queue' = [e \in Ep |-> <<>>] /\ fifo' = 0 /\ owned' = Requests
  /\ UNCHANGED <<driver, pullup, phase, setup, usage, pc, count>>

others == <<driver, pullup, phase, setup, usage, endpoints, requests, pc>>

\* The second socket; without it the first is released.
CreateEvent ==
  /\ life = "socket"
  /\ \/ life' = "server" /\ sockets' = sockets \cup {"event"}
     \/ life' = "none" /\ sockets' = {}
  /\ UNCHANGED others

AddGadget ==
  /\ life = "server" /\ life' \in {"added", "closing"} /\ UNCHANGED <<sockets, others>>

\* device_create_file and kthread_run; without one of them the gadget goes again.
RunThread ==
  /\ life = "added" /\ life' \in {"running", "deleting"} /\ UNCHANGED <<sockets, others>>

Removal ==
  /\ life = "running" /\ life' = "stopping" /\ UNCHANGED <<sockets, others>>

ThreadEndsHasty ==
  /\ life = "stopping" /\ life' = "deleting" /\ UNCHANGED <<sockets, others>>

\* kthread_stop waits: the thread looks at it between two packets only.
ThreadEnds ==
  /\ life = "stopping" /\ Waiting /\ life' = "deleting" /\ UNCHANGED <<sockets, others>>

\* usb_del_gadget_udc returns when the driver is unbound.
DelGadget ==
  /\ life = "deleting" /\ phase = "unbound" /\ life' = "closing"
  /\ UNCHANGED <<sockets, others>>

Close ==
  /\ life = "closing" /\ life' = "none" /\ sockets' = {} /\ UNCHANGED others

Device ==
  \/ CreateData \/ CreateEvent \/ AddGadget \/ RunThread
  \/ Removal \/ ThreadEnds \/ DelGadget \/ Close

Operation(t) ==
  \E e \in Ep :
    \/ \E r \in Requests : QueueCheck(t, e, r) \/ Dequeue(t, e, r)
    \/ Enable(t, e) \/ Disable(t, e)
    \/ \E value \in {0, 1} : SetHalt(t, e, value)

Continue(t) == QueueAdd(t) \/ Give(t) \/ NukeOn(t)

Packet == SetupComes \/ HostAsksStatus \/ \E e \in Ep : Poll(e) \/ HostHalts(e) \/ HostClearsHalt(e)

Core == Start \/ PullupOn \/ PullupOff \/ PullupWait \/ Stop

Next ==
  \/ \E t \in {"fn", "poll"} : Operation(t)
  \/ \E t \in Thread : Continue(t)
  \/ Packet \/ SetupEnters \/ SetupEnds \/ Core \/ Device

Spec == Init /\ [][Next]_vars

-----------------------------------------------------------------------------
\* Where a request is held by the controller: in queues or on its way back.
Places(r) ==
  {p \in Ep \X (1 .. MaxQueues + 1) :
     p[2] <= Len(queue[p[1]]) /\ queue[p[1]][p[2]].req = r}
    \cup {<<t, 0>> : t \in {u \in Thread : pc[u].at \in {"queue", "give"} /\ pc[u].req = r}}

\* Whatever POLL, dequeue, disable and stop do to a queue while the others have
\* dropped the lock, each request is in one place, and given back exactly once.
HeldOnce ==
  \A r \in Requests :
    IF r \in owned THEN Places(r) = {} ELSE \E p \in Places(r) : Places(r) = {p}

\* A queue keeps the order of the calls of dummy_queue, and a copied request that waits
\* for its POLL still has its bytes in fifo_buf though its owner has it back, unless
\* GET_STATUS pointed fifo_req elsewhere.
BytesKept ==
  \A e \in Ep : \A i \in DOMAIN queue[e] :
    /\ \A j \in 1 .. i - 1 : queue[e][j].n < queue[e][i].n
    /\ queue[e][i].req = "fifo" => fifo \in {0, queue[e][i].n}

\* An endpoint that was disabled, and every endpoint after the stop, holds only what
\* a call of dummy_queue added that had looked at the descriptor and the driver
\* before, or was made by a callback while the controller stopped.
Emptying(e) == \E t \in Thread : pc[t].at \in {"nuke", "give"} /\ e \in Range(pc[t].left)

NothingStranded ==
  \A e \in Ep :
    (~driver \/ (e # "ep0" /\ e \notin desc)) /\ ~Emptying(e) =>
      \A i \in DOMAIN queue[e] : queue[e][i].late

\* dummy_pullup(0) returns when the setup callbacks that came before it are over, so
\* that none of them finds its driver gone, which is read again after the unlock.
CallbacksDrained ==
  setup.stage # "none" /\ setup.up => phase \in {"up", "draining"} /\ setup.stage # "oops"

\* The sockets are closed last: whatever fails in probe, and whenever the device is
\* removed, nothing that could send on them is left when uoe_close runs (743-749,
\* 756-761), neither the poll thread nor a pullup of the core.
ClosedLast ==
  pc["poll"] # Idle \/ setup # NoSetup \/ phase # "unbound" => sockets = {"data", "event"}
=============================================================================
