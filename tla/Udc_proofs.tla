----------------------------- MODULE Udc_proofs -----------------------------
(***************************************************************************)
(* Proofs that the controller of dummy_usb waits for the callbacks it counts *)
(* before a driver goes, and that its sockets outlive whatever sends on them,*)
(* for all endpoints and requests.                                           *)
(*                                                                           *)
(* Then about its requests: each is held once and given back once, a queue   *)
(* keeps its order, and nothing is left in the queues of a stopped or        *)
(* disabled endpoint.                                                        *)
(***************************************************************************)
EXTENDS Udc, SequenceTheorems, TLAPS

Driven == {"bound", "up", "draining", "down", "stopping"}

UdcTypes ==
  /\ driver \in BOOLEAN /\ pullup \in BOOLEAN /\ DOMAIN pc = Thread
  /\ setup \in [stage : {"none", "entering", "callback", "oops"}, up : BOOLEAN]
  /\ phase \in Driven \cup {"unbound"}

\* callback_usage counts the callback under way; there is one poll thread.
UsageCounts ==
  /\ usage = IF setup.stage = "none" THEN 0 ELSE 1
  /\ setup.stage = "none" => ~setup.up

\* The core drops the lock only while it stops the controller, and there is a
\* driver until it has.
CoreStops ==
  /\ pc["core"].at \in {"idle", "nuke", "give"}
  /\ pc["core"].at # "idle" => phase = "stopping"
  /\ phase \in Driven => driver
  /\ pullup => phase = "up"

CallbackInv == UdcTypes /\ UsageCounts /\ CoreStops /\ CallbacksDrained

\* A step of t's own, which leaves driver, pullup, phase and callbacks alone.
CallbackAside ==
  /\ UNCHANGED <<driver, pullup, phase, setup, usage>>
  /\ DOMAIN pc' = DOMAIN pc
  /\ \/ pc'["core"] = pc["core"]
     \/ pc["core"].at = "give" /\ pc'["core"].at \in {"idle", "nuke"}

\* Such a step is of no concern to the callbacks.
LEMMA CallbackAsideKeeps ==
  ASSUME CallbackInv, CallbackAside
  PROVE  CallbackInv'
  BY DEF CallbackInv, CallbackAside, UdcTypes, UsageCounts, CoreStops, CallbacksDrained

\* Where a thread may be after nuke.
LEMMA NukeGoes ==
  ASSUME NEW t \in Thread, NEW eps, DOMAIN pc = Thread, Nuke(t, eps)
  PROVE  /\ \E place : pc' = [pc EXCEPT ![t] = place] /\ place.at \in {"idle", "give"}
         /\ ~Busy(eps) => pc'[t].at = "idle"
<1>1. CASE ~Busy(eps) /\ Go(t, Idle)
  <2>1. pc' = [pc EXCEPT ![t] = Idle] /\ Idle.at = "idle"
    BY <1>1 DEF Go, Idle
  <2> QED  BY <1>1, <2>1
<1>2. ASSUME NEW k \in DOMAIN eps, queue[eps[k]] # <<>>,
             Go(t, Giving(eps[k], Head(queue[eps[k]]).req, Left(eps, k)))
      PROVE  Busy(eps) /\ \E place : pc' = [pc EXCEPT ![t] = place] /\ place.at \in {"idle", "give"}
  <2> DEFINE place == Giving(eps[k], Head(queue[eps[k]]).req, Left(eps, k))
  <2>1. pc' = [pc EXCEPT ![t] = place] /\ place.at = "give"
    BY <1>2 DEF Go, Giving
  <2> HIDE DEF place
  <2>2. Busy(eps)
    BY <1>2 DEF Busy
  <2> QED  BY <2>1, <2>2
<1> QED  BY <1>1, <1>2 DEF Nuke

\* The operations of an endpoint are such steps.
LEMMA OperationAside ==
  ASSUME CallbackInv, NEW t \in {"fn", "poll"}, Operation(t)
  PROVE  CallbackAside
<1> USE DEF CallbackInv, UdcTypes, CallbackAside, Thread, state, device, requests, endpoints
<1>1. PICK e \in Ep :
         \/ \E r \in Requests : QueueCheck(t, e, r) \/ Dequeue(t, e, r)
         \/ Enable(t, e) \/ Disable(t, e)
         \/ \E value \in {0, 1} : SetHalt(t, e, value)
  BY DEF Operation
<1>2. CASE \E r \in Requests : QueueCheck(t, e, r) \/ Dequeue(t, e, r)
  BY <1>2 DEF QueueCheck, Dequeue, Go
<1>3. CASE Disable(t, e)
  BY <1>3, NukeGoes DEF Disable
<1>4. CASE Enable(t, e) \/ \E value \in {0, 1} : SetHalt(t, e, value)
  BY <1>4 DEF Enable, SetHalt
<1> QED  BY <1>1, <1>2, <1>3, <1>4

-----------------------------------------------------------------------------
\* pullup, stop and the setup callbacks keep the count and what it means.
LEMMA CallbackStep ==
  ASSUME CallbackInv, [Next]_vars
  PROVE  CallbackInv'
<1> USE DEF state, device, requests, endpoints
<1>0. CallbackAside => CallbackInv'
  BY CallbackAsideKeeps
<1>1. CASE UNCHANGED vars
  BY <1>1, <1>0 DEF vars, CallbackAside
<1>2. CASE \E t \in {"fn", "poll"} : Operation(t)
  BY <1>2, <1>0, OperationAside
<1>3. ASSUME NEW t \in Thread, Continue(t)
      PROVE  CallbackInv'
  <2> USE DEF CallbackInv, UdcTypes, CoreStops
  <2>1. CASE QueueAdd(t)
    <3>1. t # "core"
      BY <2>1 DEF QueueAdd
    <3> QED  BY <2>1, <3>1, <1>0 DEF QueueAdd, Go, CallbackAside, Thread
  <2>2. CASE Give(t)
    BY <2>2, <1>0 DEF Give, Go, Idle, CallbackAside, Thread
  <2>3. CASE NukeOn(t) /\ t # "core"
    <3>1. UNCHANGED <<driver, phase>>
      BY <2>3 DEF NukeOn
    <3>2. pc'["core"] = pc["core"] /\ DOMAIN pc' = DOMAIN pc
      BY <2>3, NukeGoes DEF NukeOn, Thread
    <3> QED  BY <2>3, <3>1, <3>2, <1>0 DEF NukeOn, CallbackAside
  <2>4. CASE NukeOn(t) /\ t = "core"
    <3>1. phase = "stopping" /\ driver
      BY <2>4 DEF NukeOn, Driven
    <3>2. /\ pc'["core"].at \in {"idle", "give"} /\ DOMAIN pc' = DOMAIN pc
          /\ ~Busy(pc["core"].left) => pc'["core"].at = "idle"
      BY <2>4, NukeGoes DEF NukeOn, Thread
    <3>3. UNCHANGED <<pullup, setup, usage>>
      BY <2>4 DEF NukeOn
    <3>4. CASE Busy(pc["core"].left)
      <4>1. UNCHANGED <<driver, phase>>
        BY <2>4, <3>1, <3>4 DEF NukeOn
      <4> QED  BY <3>1, <3>2, <3>3, <4>1 DEF UsageCounts, CallbacksDrained
    <3>5. CASE ~Busy(pc["core"].left)
      <4>1. driver' = FALSE /\ phase' = "unbound"
        BY <2>4, <3>1, <3>5 DEF NukeOn
      <4> QED  BY <3>1, <3>2, <3>3, <3>5, <4>1 DEF UsageCounts, CallbacksDrained, Driven
    <3> QED  BY <3>4, <3>5
  <2> QED  BY <1>3, <2>1, <2>2, <2>3, <2>4 DEF Continue
<1>4. CASE Packet
  <2>1. CASE SetupComes
    BY <2>1 DEF SetupComes, Waiting, NoSetup, UsageDuring, CallbackInv, UdcTypes,
                UsageCounts, CoreStops, CallbacksDrained
  <2>2. CASE HostAsksStatus
    BY <2>2, <1>0 DEF HostAsksStatus, CallbackAside
  <2>3. CASE \E e \in Ep : Poll(e)
    BY <2>3, <1>0 DEF Poll, Go, CallbackAside, CallbackInv, UdcTypes, Thread
  <2>4. CASE \E e \in Ep : HostHalts(e) \/ HostClearsHalt(e)
    BY <2>4, <1>0 DEF HostHalts, HostClearsHalt, CallbackAside
  <2> QED  BY <1>4, <2>1, <2>2, <2>3, <2>4 DEF Packet
<1>5. CASE SetupEnters
  BY <1>5 DEF SetupEnters, CallbackInv, UdcTypes, UsageCounts, CoreStops, CallbacksDrained, Driven
<1>6. CASE SetupEnds
  BY <1>6 DEF SetupEnds, NoSetup, UsageDuring, CallbackInv, UdcTypes, UsageCounts, CoreStops,
              CallbacksDrained
<1>7. CASE Core
  <2> USE DEF CallbackInv, UdcTypes, UsageCounts, CoreStops, CallbacksDrained, Driven
  <2>1. CASE Start
    BY <2>1 DEF Start
  <2>2. CASE PullupOn
    BY <2>2 DEF PullupOn
  <2>3. CASE PullupOff
    BY <2>3 DEF PullupOff
  <2>4. CASE PullupWait
    BY <2>4 DEF PullupWait
  <2>5. CASE Stop
    <3>1. /\ pc'["core"].at \in {"idle", "give"} /\ DOMAIN pc' = DOMAIN pc
          /\ ~Busy(Endpoints) => pc'["core"].at = "idle"
      BY <2>5, NukeGoes DEF Stop, Thread
    <3>2. ~(setup.stage # "none" /\ setup.up)
      BY <2>5 DEF Stop
    <3>3. UNCHANGED <<pullup, setup, usage>> /\ phase = "down" /\ driver
      BY <2>5 DEF Stop
    <3>4. CASE Busy(Endpoints)
      <4>1. driver' /\ phase' = "stopping"
        BY <2>5, <3>4 DEF Stop
      <4> QED  BY <3>1, <3>2, <3>3, <4>1
    <3>5. CASE ~Busy(Endpoints)
      <4>1. driver' = FALSE /\ phase' = "unbound"
        BY <2>5, <3>5 DEF Stop
      <4> QED  BY <3>1, <3>2, <3>3, <3>5, <4>1
    <3> QED  BY <3>4, <3>5
  <2> QED  BY <1>7, <2>1, <2>2, <2>3, <2>4, <2>5 DEF Core
<1>8. CASE Device
  BY <1>8, <1>0 DEF Device, CreateData, CreateEvent, AddGadget, RunThread, Removal, ThreadEnds,
                    DelGadget, Close, others, CallbackAside
<1> QED
  BY <1>1, <1>2, <1>3, <1>4, <1>5, <1>6, <1>7, <1>8 DEF Next

\* Nothing is under way at first.
LEMMA CallbackInit == ASSUME Init PROVE CallbackInv
<1>1. setup = [stage |-> "none", up |-> FALSE] /\ pc["core"] = [at |-> "idle"]
  BY DEF Init, NoSetup, Idle, Thread
<1>2. UdcTypes
  <2>1. setup \in [stage : {"none", "entering", "callback", "oops"}, up : BOOLEAN]
    BY <1>1
  <2>2. DOMAIN pc = Thread
    BY DEF Init
  <2> QED  BY <2>1, <2>2 DEF Init, UdcTypes
<1>3. UsageCounts
  BY <1>1 DEF Init, UsageCounts
<1>4. CoreStops
  BY <1>1 DEF Init, CoreStops, Driven
<1>5. CallbacksDrained
  BY <1>1 DEF CallbacksDrained
<1> QED  BY <1>2, <1>3, <1>4, <1>5 DEF CallbackInv

\* dummy_pullup(0) returns after the setup callbacks that came before it, each of
\* which found its driver, though the lock was dropped for it (665-680).
THEOREM PullupDrains == Spec => []CallbacksDrained
<1>1. CallbackInv => CallbacksDrained
  BY DEF CallbackInv
<1> QED
  BY <1>1, CallbackInit, CallbackStep, PTL DEF Spec

-----------------------------------------------------------------------------
\* What is alive in each stage of probe and remove.
Polling == pc["poll"] # Idle \/ setup # NoSetup

LifeInv ==
  /\ DOMAIN pc = Thread
  /\ Polling => life \in {"running", "stopping"}
  /\ phase # "unbound" => life \in {"added", "running", "stopping", "deleting"}
  /\ life = "socket" => sockets = {"data"}
  /\ life \in {"server", "added", "running", "stopping", "deleting", "closing"} =>
       sockets = {"data", "event"}

\* A step that starts nothing.
LifeAside ==
  /\ UNCHANGED device /\ DOMAIN pc' = DOMAIN pc
  /\ phase' # "unbound" => phase # "unbound"
  /\ Polling' => Polling \/ life \in {"running", "stopping"}

\* Such a step is of no concern to probe and remove.
LEMMA LifeAsideKeeps ==
  ASSUME LifeInv, LifeAside
  PROVE  LifeInv'
  BY DEF LifeInv, LifeAside, device

\* Probe, its error paths and remove keep the stages.
LEMMA LifeStep ==
  ASSUME LifeInv, [Next]_vars
  PROVE  LifeInv'
<1> USE DEF state, requests, endpoints, Polling
<1>0. LifeAside => LifeInv'
  BY LifeAsideKeeps
<1>1. CASE UNCHANGED vars
  BY <1>1, <1>0 DEF vars, LifeAside
<1>2. ASSUME NEW t \in {"fn", "poll"}, Operation(t)
      PROVE  LifeInv'
  <2>1. MayCall(t)
    BY <1>2 DEF Operation, QueueCheck, Dequeue, Enable, Disable, SetHalt
  <2>4. t = "poll" => setup # NoSetup
    BY <2>1 DEF MayCall, NoSetup
  <2>2. UNCHANGED <<state, setup>>
    BY <1>2 DEF Operation, QueueCheck, Dequeue, Enable, Disable, SetHalt
  <2>3. \A u \in Thread \ {t} : pc'[u] = pc[u] /\ DOMAIN pc' = DOMAIN pc
    <3>1. CASE UNCHANGED pc \/ \E place : Go(t, place)
      BY <3>1 DEF Go, LifeInv, Thread
    <3>2. CASE \E e \in Ep : Nuke(t, <<e>>)
      BY <3>2, NukeGoes DEF LifeInv, Thread
    <3> QED
      BY <1>2, <3>1, <3>2 DEF Operation, QueueCheck, Dequeue, Enable, Disable, SetHalt
  <2> QED  BY <2>2, <2>3, <2>4, <1>0 DEF LifeAside, LifeInv, Thread
<1>3. ASSUME NEW t \in Thread, Continue(t)
      PROVE  LifeInv'
  <2>1. pc[t] # Idle
    BY <1>3 DEF Continue, QueueAdd, Give, NukeOn, Idle
  <2>2. UNCHANGED <<device, setup>> /\ (phase' # "unbound" => phase # "unbound")
    BY <1>3 DEF Continue, QueueAdd, Give, NukeOn
  <2>3. \E place : pc' = [pc EXCEPT ![t] = place]
    BY <1>3, NukeGoes DEF Continue, QueueAdd, Give, NukeOn, Go, LifeInv
  <2> QED  BY <2>1, <2>2, <2>3, <1>0 DEF LifeAside, LifeInv, Thread
<1>4. CASE Packet
  <2>1. life \in {"running", "stopping"}
    BY <1>4 DEF Packet, SetupComes, HostAsksStatus, Poll, HostHalts, HostClearsHalt, Waiting
  <2>2. UNCHANGED state /\ DOMAIN pc' = DOMAIN pc
    BY <1>4 DEF Packet, SetupComes, HostAsksStatus, Poll, HostHalts, HostClearsHalt, Go
  <2> QED  BY <2>1, <2>2, <1>0 DEF LifeAside
<1>5. CASE SetupEnters \/ SetupEnds
  BY <1>5, <1>0 DEF SetupEnters, SetupEnds, NoSetup, LifeAside
<1>6. CASE Start
  BY <1>6 DEF Start, LifeInv, device
<1>7. CASE PullupOn \/ PullupOff \/ PullupWait
  BY <1>7, <1>0 DEF PullupOn, PullupOff, PullupWait, LifeAside
<1>8. CASE Stop
  <2>1. \E place : pc' = [pc EXCEPT !["core"] = place]
    BY <1>8, NukeGoes DEF Stop, LifeInv, Thread
  <2> QED  BY <1>8, <2>1, <1>0 DEF Stop, LifeAside, LifeInv, Thread
<1>9. CASE Device
  <2> USE DEF LifeInv, others
  <2>1. CASE CreateData
    BY <2>1 DEF CreateData
  <2>2. CASE CreateEvent \/ AddGadget \/ RunThread
    <3>1. CASE CreateEvent
      BY <3>1 DEF CreateEvent
    <3>2. CASE AddGadget
      BY <3>2 DEF AddGadget
    <3>3. CASE RunThread
      BY <3>3 DEF RunThread
    <3> QED  BY <2>2, <3>1, <3>2, <3>3
  <2>3. CASE Removal \/ ThreadEnds
    BY <2>3 DEF Removal, ThreadEnds, Waiting
  <2>4. CASE DelGadget \/ Close
    BY <2>4 DEF DelGadget, Close
  <2> QED  BY <1>9, <2>1, <2>2, <2>3, <2>4 DEF Device
<1> QED
  BY <1>1, <1>2, <1>3, <1>4, <1>5, <1>6, <1>7, <1>8, <1>9 DEF Next, Core

\* No device at first.
LEMMA LifeInit == ASSUME Init PROVE LifeInv
<1>1. DOMAIN pc = Thread /\ ~Polling
  BY DEF Init, Polling, Thread
<1> QED  BY <1>1 DEF Init, LifeInv

\* Whatever fails in probe and whenever the device is removed, uoe_close runs when
\* neither the poll thread nor the core can send any more (743-761).
THEOREM SocketsLast == Spec => []ClosedLast
<1>1. LifeInv => ClosedLast
  BY DEF LifeInv, Polling, ClosedLast
<1> QED
  BY <1>1, LifeInit, LifeStep, PTL DEF Spec

-----------------------------------------------------------------------------
\* Where a thread of the driver or the core is, and what it holds there.
Place ==
  [at : {"idle"}] \cup [at : {"queue"}, ep : Ep, req : Requests]
    \cup [at : {"give"}, ep : Ep, req : Requests \cup {"fifo"}, left : Seq(Ep)]
    \cup [at : {"nuke"}, left : Seq(Ep)]

Queued == [req : Requests \cup {"fifo"}, n : Nat, late : BOOLEAN]

QueueTypes ==
  /\ queue \in [Ep -> Seq(Queued)] /\ count \in Nat /\ fifo \in Nat
  /\ owned \subseteq Requests /\ desc \subseteq Ep
  /\ pc \in [Thread -> Place]

\* A driver that is gone has no thread.
Stopped == phase \notin {"bound", "up", "draining"} => pc["fn"] = Idle

\* A call that is between its check and the lock has its place in the bound.
QueuesBounded ==
  /\ \A e \in Ep : Len(queue[e]) <= count
  /\ count <= MaxQueues + 1
  /\ \A t \in {"fn", "poll"} : pc[t].at = "queue" => count <= MaxQueues
  /\ (\A t \in {"fn", "poll"} : pc[t].at = "queue") => count < MaxQueues

\* The requests in each queue, and in each hand.
InQueue == [e \in Ep |-> {queue[e][i].req : i \in DOMAIN queue[e]}]

InHand == [t \in Thread |-> IF pc[t].at \in {"queue", "give"} THEN {pc[t].req} ELSE {}]

\* A request is with its owner, in a queue or in a hand, and not twice.
OneQueue ==
  /\ \A e \in Ep : \A i, j \in DOMAIN queue[e] : queue[e][i].req = queue[e][j].req => i = j
  /\ \A e, f \in Ep : \A r \in InQueue[e] : r \in InQueue[f] => e = f

OneHand ==
  \A t \in Thread : \A r \in InHand[t] \ {"fifo"} :
    /\ \A u \in Thread : r \in InHand[u] => t = u
    /\ \A e \in Ep : r \notin InQueue[e]

OwnedAway ==
  \A r \in owned :
    /\ \A t \in Thread : r \notin InHand[t]
    /\ \A e \in Ep : r \notin InQueue[e]

Somewhere ==
  \A r \in Requests \ owned :
    (\E t \in Thread : r \in InHand[t]) \/ (\E e \in Ep : r \in InQueue[e])

HeldInv ==
  QueueTypes /\ Stopped /\ QueuesBounded /\ OneQueue /\ OneHand /\ OwnedAway /\ Somewhere

\* Numbers are given out in the order of the calls.
NumberedInv == BytesKept /\ \A e \in Ep : \A i \in DOMAIN queue[e] : queue[e][i].n <= count

-----------------------------------------------------------------------------
\* What list_del_init leaves of a queue.
LEMMA TakenOf ==
  ASSUME NEW S, NEW q \in Seq(S), NEW i \in DOMAIN q
  PROVE  /\ Taken(q, i) \in Seq(S) /\ Len(Taken(q, i)) = Len(q) - 1
         /\ \A j \in 1 .. Len(q) - 1 : Taken(q, i)[j] = IF j < i THEN q[j] ELSE q[j + 1]
<1>1. i \in 1 .. Len(q) /\ Len(q) \in Nat
  BY LenProperties
<1>2. /\ SubSeq(q, 1, i - 1) \in Seq(S) /\ Len(SubSeq(q, 1, i - 1)) = i - 1
      /\ \A j \in 1 .. i - 1 : SubSeq(q, 1, i - 1)[j] = q[j]
  <2>1. \A j \in 1 .. i - 1 : q[j] \in S
    BY <1>1, ElementOfSeq
  <2> QED  BY <1>1, <2>1, SubSeqProperties
<1>3. /\ SubSeq(q, i + 1, Len(q)) \in Seq(S) /\ Len(SubSeq(q, i + 1, Len(q))) = Len(q) - i
      /\ \A j \in 1 .. Len(q) - i : SubSeq(q, i + 1, Len(q))[j] = q[i + j]
  <2>1. \A j \in i + 1 .. Len(q) : q[j] \in S
    BY <1>1, ElementOfSeq
  <2> QED  BY <1>1, <2>1, SubSeqProperties
<1> DEFINE a == SubSeq(q, 1, i - 1)
           b == SubSeq(q, i + 1, Len(q))
<1>4. Taken(q, i) = a \o b
  BY DEF Taken, RemoveAt, a, b
<1> HIDE DEF a, b
<1>5. /\ a \o b \in Seq(S) /\ Len(a \o b) = Len(a) + Len(b)
      /\ \A j \in 1 .. Len(a) + Len(b) :
           (a \o b)[j] = IF j <= Len(a) THEN a[j] ELSE b[j - Len(a)]
  <2>1. a \in Seq(S) /\ b \in Seq(S)
    BY <1>2, <1>3 DEF a, b
  <2> QED  BY <2>1, ConcatProperties
<1>6. ASSUME NEW j \in 1 .. Len(q) - 1
      PROVE  (a \o b)[j] = IF j < i THEN q[j] ELSE q[j + 1]
  <2>1. Len(a) = i - 1 /\ Len(b) = Len(q) - i
    BY <1>2, <1>3 DEF a, b
  <2>2. CASE j < i
    <3>1. (a \o b)[j] = a[j] /\ j \in 1 .. i - 1
      BY <1>1, <1>5, <2>1, <2>2, SMTT(20)
    <3> QED  BY <2>2, <3>1, <1>2 DEF a
  <2>3. CASE ~(j < i)
    <3> DEFINE k == j - Len(a)
    <3>1. /\ i \in Int /\ j \in Int /\ Len(q) \in Int /\ Len(a) = i - 1 /\ Len(b) = Len(q) - i
          /\ i <= Len(q) /\ j <= Len(q) - 1
      BY <1>1, <2>1
    <3>2. j \in 1 .. Len(a) + Len(b) /\ ~(j <= Len(a)) /\ k \in 1 .. Len(q) - i /\ i + k = j + 1
      BY <2>3, <3>1
    <3>3. (a \o b)[j] = b[k]
      BY <1>5, <3>2
    <3>4. b[k] = q[i + k]
      BY <1>3, <3>2 DEF b
    <3> QED  BY <2>3, <3>2, <3>3, <3>4
  <2> QED  BY <2>2, <2>3
<1>7. Len(a \o b) = Len(q) - 1
  <2>1. Len(a) = i - 1 /\ Len(b) = Len(q) - i
    BY <1>2, <1>3 DEF a, b
  <2>2. i \in Int /\ Len(q) \in Int
    BY <1>1
  <2> QED  BY <1>5, <2>1, <2>2
<1> QED  BY <1>4, <1>5, <1>6, <1>7

\* What is left of a queue without its head.
LEMMA TailOf ==
  ASSUME NEW S, NEW q \in Seq(S), q # <<>>
  PROVE  /\ Tail(q) \in Seq(S) /\ Len(Tail(q)) = Len(q) - 1 /\ Head(q) = q[1] /\ 1 \in DOMAIN q
         /\ \A j \in 1 .. Len(q) - 1 : Tail(q)[j] = IF j < 1 THEN q[j] ELSE q[j + 1]
  BY HeadTailProperties, LenProperties, EmptySeq

\* The i-th request of e is taken out, and t gives it back without the lock.
Takes(t, e, i, left) ==
  /\ i \in DOMAIN queue[e] /\ queue' \in [Ep -> Seq(Queued)]
  /\ \A f \in Ep \ {e} : queue'[f] = queue[f]
  /\ Len(queue'[e]) = Len(queue[e]) - 1
  /\ \A j \in 1 .. Len(queue[e]) - 1 :
       queue'[e][j] = IF j < i THEN queue[e][j] ELSE queue[e][j + 1]
  /\ pc' = [pc EXCEPT ![t] = Giving(e, queue[e][i].req, left)]

\* Dequeue, poll and nuke take a request out.
LEMMA TakesOne ==
  ASSUME HeldInv, NEW t \in Thread, NEW e \in Ep
  PROVE  /\ \A r \in Requests :
              Dequeue(t, e, r) => \E i \in Nat : Takes(t, e, i, <<>>) /\ queue[e][i].req = r
         /\ Poll(e) => Takes("poll", e, 1, <<>>)
         /\ \A left : queue[e] # <<>> /\ queue' = [queue EXCEPT ![e] = Tail(@)]
                        /\ Go(t, Giving(e, Head(queue[e]).req, left)) => Takes(t, e, 1, left)
<1> USE DEF HeldInv, QueueTypes
<1>1. queue[e] \in Seq(Queued) /\ DOMAIN queue[e] \subseteq Nat
  BY LenProperties
<1>2. ASSUME NEW r \in Requests, Dequeue(t, e, r)
      PROVE  \E i \in Nat : Takes(t, e, i, <<>>) /\ queue[e][i].req = r
  <2>1. PICK i \in DOMAIN queue[e] : queue[e][i].req = r /\ queue' = [queue EXCEPT ![e] = Taken(@, i)]
    BY <1>2 DEF Dequeue
  <2>2. pc' = [pc EXCEPT ![t] = Giving(e, queue[e][i].req, <<>>)]
    BY <1>2, <2>1 DEF Dequeue, Go
  <2>3. queue'[e] = Taken(queue[e], i) /\ \A f \in Ep \ {e} : queue'[f] = queue[f]
    BY <2>1
  <2>4. queue' \in [Ep -> Seq(Queued)]
    BY <1>1, <2>1, TakenOf
  <2>5. Takes(t, e, i, <<>>)
    BY <1>1, <2>1, <2>2, <2>3, <2>4, TakenOf DEF Takes
  <2> QED  BY <1>1, <2>1, <2>5
<1>3. ASSUME NEW u \in Thread, NEW left, queue[e] # <<>>, queue' = [queue EXCEPT ![e] = Tail(@)],
             Go(u, Giving(e, Head(queue[e]).req, left))
      PROVE  Takes(u, e, 1, left)
  <2>1. queue'[e] = Tail(queue[e]) /\ \A f \in Ep \ {e} : queue'[f] = queue[f]
    BY <1>3
  <2>2. queue' \in [Ep -> Seq(Queued)]
    BY <1>1, <1>3, TailOf
  <2> QED  BY <1>1, <1>3, <2>1, <2>2, TailOf DEF Takes, Go
<1>4. ASSUME Poll(e)
      PROVE  Takes("poll", e, 1, <<>>)
  BY <1>3, <1>4 DEF Poll, Thread
<1> QED  BY <1>2, <1>3, <1>4

\* What is left in the queues after one is taken out.
LEMMA TakesLeaves ==
  ASSUME QueueTypes, OneQueue, NEW t \in Thread, NEW e \in Ep, NEW i \in Nat, NEW left,
         Takes(t, e, i, left)
  PROVE  /\ queue[e][i].req \in InQueue[e]
         /\ InQueue' = [InQueue EXCEPT ![e] = @ \ {queue[e][i].req}]
         /\ \A f \in Ep : \A j, k \in DOMAIN queue'[f] : queue'[f][j].req = queue'[f][k].req => j = k
<1> USE DEF QueueTypes
<1>1. \A f \in Ep : DOMAIN queue[f] = 1 .. Len(queue[f]) /\ DOMAIN queue'[f] = 1 .. Len(queue'[f])
  BY LenProperties DEF Takes
<1>2. i \in 1 .. Len(queue[e]) /\ Len(queue[e]) \in Nat /\ DOMAIN queue'[e] = 1 .. Len(queue[e]) - 1
  BY <1>1, LenProperties DEF Takes
<1> DEFINE from == [j \in Nat |-> IF j < i THEN j ELSE j + 1]
<1>0. \A j \in Nat : from[j] = IF j < i THEN j ELSE j + 1
  OBVIOUS
<1> HIDE DEF from
<1>3. \A j \in DOMAIN queue'[e] :
         from[j] \in DOMAIN queue[e] /\ from[j] # i /\ queue'[e][j] = queue[e][from[j]]
  <2> TAKE j \in DOMAIN queue'[e]
  <2>1. j \in 1 .. Len(queue[e]) - 1 /\ from[j] \in 1 .. Len(queue[e]) /\ from[j] # i
    <3>1. j \in 1 .. Len(queue[e]) - 1
      BY <1>2
    <3>2. j \in Nat
      BY <1>2, <3>1
    <3>3. from[j] = IF j < i THEN j ELSE j + 1
      BY <1>0, <3>2
    <3>4. i \in Int /\ Len(queue[e]) \in Int
      BY <1>2
    <3> QED  BY <1>2, <3>1, <3>2, <3>3, <3>4
  <2>2. queue'[e][j] = queue[e][from[j]]
    <3>1. queue'[e][j] = IF j < i THEN queue[e][j] ELSE queue[e][j + 1]
      BY <2>1 DEF Takes
    <3> QED  BY <1>0, <2>1, <3>1
  <2> QED  BY <1>1, <2>1, <2>2
<1>4. ASSUME NEW j \in DOMAIN queue[e], j # i
      PROVE  \E k \in DOMAIN queue'[e] : queue'[e][k] = queue[e][j]
  <2>1. j \in 1 .. Len(queue[e])
    BY <1>1
  <2>2. CASE j < i
    <3>1. j \in DOMAIN queue'[e] /\ from[j] = j
      BY <1>0, <1>2, <2>1, <2>2
    <3> QED  BY <1>3, <3>1
  <2>3. CASE j > i
    <3>1. j - 1 \in 1 .. Len(queue[e]) - 1 /\ j - 1 \in Nat /\ ~(j - 1 < i) /\ (j - 1) + 1 = j
      BY <1>2, <2>1, <2>3
    <3>2. j - 1 \in DOMAIN queue'[e] /\ from[j - 1] = j
      BY <1>0, <1>2, <3>1
    <3> QED  BY <1>3, <3>2
  <2> QED  BY <1>2, <1>4, <2>1, <2>2, <2>3
<1>5. \A j, k \in Nat : from[j] = from[k] => j = k
  <2> TAKE j, k \in Nat
  <2>1. from[j] = (IF j < i THEN j ELSE j + 1) /\ from[k] = (IF k < i THEN k ELSE k + 1)
    BY <1>0
  <2>2. i \in Int /\ j \in Int /\ k \in Int
    OBVIOUS
  <2> QED  BY <2>1, <2>2
<1>6. DOMAIN queue'[e] \subseteq Nat
  BY <1>2
<1>7. \A f \in Ep : \A j, k \in DOMAIN queue'[f] : queue'[f][j].req = queue'[f][k].req => j = k
  <2>1. \A j, k \in DOMAIN queue'[e] : queue'[e][j].req = queue'[e][k].req => j = k
    BY <1>3, <1>5, <1>6, SMTT(20) DEF OneQueue
  <2> QED  BY <2>1 DEF Takes, OneQueue
<1>8. i \in DOMAIN queue[e] /\ queue[e][i].req \in InQueue[e]
  BY <1>1, <1>2 DEF InQueue
<1>9. InQueue'[e] = InQueue[e] \ {queue[e][i].req}
  <2>1. \A j \in DOMAIN queue'[e] : queue'[e][j].req \in InQueue[e] \ {queue[e][i].req}
    BY <1>3, <1>8 DEF OneQueue, InQueue
  <2>2. \A j \in DOMAIN queue[e] : queue[e][j].req # queue[e][i].req => queue[e][j].req \in InQueue'[e]
    BY <1>4 DEF InQueue
  <2> QED  BY <2>1, <2>2 DEF InQueue
<1>10. \A f \in Ep \ {e} : InQueue'[f] = InQueue[f]
  BY DEF InQueue, Takes
<1>11. InQueue' = [InQueue EXCEPT ![e] = @ \ {queue[e][i].req}]
  BY <1>9, <1>10 DEF InQueue
<1> QED  BY <1>7, <1>8, <1>11

\* What t holds after it took a request out.
LEMMA TakesHolds ==
  ASSUME QueueTypes, NEW t \in Thread, NEW e \in Ep, NEW i \in Nat, NEW left \in Seq(Ep),
         Takes(t, e, i, left)
  PROVE  /\ pc' \in [Thread -> Place] /\ \A u \in Thread \ {t} : pc'[u] = pc[u]
         /\ pc'[t].at = "give"
         /\ InHand' = [InHand EXCEPT ![t] = {queue[e][i].req}]
<1> USE DEF QueueTypes
<1>1. queue[e][i] \in Queued /\ i \in DOMAIN queue[e]
  BY LenProperties, ElementOfSeq DEF Takes
<1>2. Giving(e, queue[e][i].req, left) \in Place
  BY <1>1 DEF Giving, Place, Queued
<1>3. pc' \in [Thread -> Place]
  BY <1>2 DEF Takes
<1>4. /\ \A u \in Thread \ {t} : pc'[u] = pc[u]
      /\ pc'[t].at = "give" /\ pc'[t].req = queue[e][i].req
  BY DEF Takes, Giving
<1>5. \A u \in Thread : InHand'[u] = IF u = t THEN {queue[e][i].req} ELSE InHand[u]
  BY <1>4 DEF InHand
<1> QED  BY <1>3, <1>4, <1>5 DEF InHand

\* A request taken out goes from its queue to one hand.
LEMMA TakesKeeps ==
  ASSUME HeldInv, NEW t \in Thread, pc[t].at \in {"idle", "nuke"}, NEW e \in Ep, NEW i \in Nat,
         NEW left \in Seq(Ep), Takes(t, e, i, left), UNCHANGED <<owned, count, fifo>>,
         desc' \subseteq Ep, Stopped'
  PROVE  HeldInv'
<1> USE DEF HeldInv
<1> DEFINE q == queue[e][i].req
<1>1. /\ q \in InQueue[e] /\ InQueue' = [InQueue EXCEPT ![e] = @ \ {q}]
      /\ \A f \in Ep : \A j, k \in DOMAIN queue'[f] : queue'[f][j].req = queue'[f][k].req => j = k
  BY TakesLeaves
<1>2. /\ pc' \in [Thread -> Place] /\ \A u \in Thread \ {t} : pc'[u] = pc[u]
      /\ pc'[t].at = "give" /\ InHand' = [InHand EXCEPT ![t] = {q}]
  BY TakesHolds
<1>3. InHand[t] = {} /\ DOMAIN InHand = Thread /\ DOMAIN InQueue = Ep
  BY DEF InHand, InQueue
<1> HIDE DEF q
<1>4. QueueTypes'
  BY <1>2 DEF QueueTypes, Takes
<1>5. QueuesBounded'
  <2>1. /\ Len(queue'[e]) <= Len(queue[e]) /\ \A f \in Ep \ {e} : queue'[f] = queue[f]
    BY LenProperties DEF Takes, QueueTypes
  <2>2. \A f \in Ep : Len(queue'[f]) <= count
    <3>1. Len(queue'[e]) \in Nat /\ Len(queue[e]) \in Nat /\ count \in Nat
      BY LenProperties DEF Takes, QueueTypes
    <3> QED  BY <2>1, <3>1 DEF QueuesBounded
  <2>3. \A u \in {"fn", "poll"} : pc'[u].at = "queue" => pc[u].at = "queue"
    BY <1>2 DEF Thread
  <2> QED  BY <2>2, <2>3 DEF QueuesBounded
<1>6. OneQueue'
  BY <1>1, <1>3 DEF OneQueue
<1>7. OneHand'
  BY <1>1, <1>2, <1>3 DEF OneHand, OneQueue
<1>8. OwnedAway'
  BY <1>1, <1>2, <1>3 DEF OwnedAway
<1>9. Somewhere'
  BY <1>1, <1>2, <1>3 DEF Somewhere
<1> QED  BY <1>4, <1>5, <1>6, <1>7, <1>8, <1>9

\* What dummy_queue makes of a queue.
LEMMA AddsOne ==
  ASSUME QueueTypes, OneQueue, NEW e \in Ep, NEW x \in Queued, x.req \notin InQueue[e],
         queue' = [queue EXCEPT ![e] = Append(@, x)]
  PROVE  /\ queue' \in [Ep -> Seq(Queued)]
         /\ Len(queue'[e]) = Len(queue[e]) + 1 /\ \A f \in Ep \ {e} : queue'[f] = queue[f]
         /\ queue'[e][Len(queue[e]) + 1] = x
         /\ \A j \in DOMAIN queue[e] : queue'[e][j] = queue[e][j]
         /\ DOMAIN queue'[e] = DOMAIN queue[e] \cup {Len(queue[e]) + 1}
         /\ InQueue' = [InQueue EXCEPT ![e] = @ \cup {x.req}]
         /\ \A f \in Ep : \A j, k \in DOMAIN queue'[f] : queue'[f][j].req = queue'[f][k].req => j = k
<1> USE DEF QueueTypes
<1> DEFINE n == Len(queue[e]) + 1
<1>1. queue[e] \in Seq(Queued) /\ queue'[e] = Append(queue[e], x)
  OBVIOUS
<1>2. /\ Append(queue[e], x) \in Seq(Queued) /\ Len(queue'[e]) = n /\ queue'[e][n] = x
      /\ \A j \in 1 .. Len(queue[e]) : queue'[e][j] = queue[e][j]
  BY <1>1, AppendProperties
<1>3. queue' \in [Ep -> Seq(Queued)] /\ \A f \in Ep \ {e} : queue'[f] = queue[f]
  BY <1>2
<1>4. /\ DOMAIN queue[e] = 1 .. Len(queue[e]) /\ DOMAIN queue'[e] = 1 .. n
      /\ Len(queue[e]) \in Nat /\ n \notin DOMAIN queue[e]
  BY <1>1, <1>2, LenProperties
<1>5. DOMAIN queue'[e] = DOMAIN queue[e] \cup {n} /\ n \in DOMAIN queue'[e]
  BY <1>4
<1>6. \A j \in DOMAIN queue[e] : queue'[e][j] = queue[e][j]
  BY <1>2, <1>4
<1>7. queue'[e][n] = x
  BY <1>2
<1> HIDE DEF n
<1>8. InQueue'[e] = InQueue[e] \cup {x.req}
  BY <1>5, <1>6, <1>7 DEF InQueue
<1>9. \A f \in Ep \ {e} : InQueue'[f] = InQueue[f]
  BY <1>3 DEF InQueue
<1>10. InQueue' = [InQueue EXCEPT ![e] = @ \cup {x.req}]
  BY <1>8, <1>9 DEF InQueue
<1>11. \A j \in DOMAIN queue[e] : queue[e][j].req # x.req
  BY DEF InQueue
<1>12. \A f \in Ep : \A j, k \in DOMAIN queue'[f] : queue'[f][j].req = queue'[f][k].req => j = k
  <2>1. \A j, k \in DOMAIN queue'[e] : queue'[e][j].req = queue'[e][k].req => j = k
    BY <1>5, <1>6, <1>7, <1>11 DEF OneQueue
  <2> QED  BY <2>1, <1>3 DEF OneQueue
<1>13. Len(queue'[e]) = Len(queue[e]) + 1 /\ queue'[e][Len(queue[e]) + 1] = x
       /\ DOMAIN queue'[e] = DOMAIN queue[e] \cup {Len(queue[e]) + 1}
  BY <1>2, <1>5 DEF n
<1> QED  BY <1>3, <1>6, <1>10, <1>12, <1>13

\* The request queued, or fifo_req with its bytes.
LEMMA AddKeeps ==
  ASSUME HeldInv, NEW t \in {"fn", "poll"}, QueueAdd(t)
  PROVE  HeldInv'
<1> USE DEF HeldInv
<1>0. PICK e, r : e = pc[t].ep /\ r = pc[t].req
  OBVIOUS
<1>1. t \in Thread /\ pc[t].at = "queue" /\ e \in Ep /\ r \in Requests /\ "fifo" \notin Requests
  BY <1>0, UdcAssumption DEF QueueTypes, Place, QueueAdd, Thread
<1> DEFINE isLate == ~driver \/ phase = "stopping" \/ (e # "ep0" /\ e \notin desc)
<1>2. PICK copied, q, x : /\ copied = FitsFifo(e, r) /\ q = IF copied THEN "fifo" ELSE r
                          /\ x = [req |-> q, n |-> count + 1, late |-> isLate]
  OBVIOUS
<1>3. /\ queue' = [queue EXCEPT ![e] = Append(@, x)] /\ count' = count + 1 /\ count \in Nat
      /\ x \in Queued /\ x.req = q
  BY <1>0, <1>1, <1>2 DEF QueueAdd, QueueTypes, Queued
<1>4. InHand[t] = {r} /\ DOMAIN InHand = Thread /\ DOMAIN InQueue = Ep
  BY <1>0, <1>1 DEF InHand, InQueue
<1>5. copied => \A f \in Ep : "fifo" \notin InQueue[f]
  BY <1>2 DEF FitsFifo, InQueue
<1>6. \A f \in Ep : q \notin InQueue[f]
  BY <1>1, <1>2, <1>4, <1>5 DEF OneHand
<1>7. /\ pc' \in [Thread -> Place] /\ \A u \in Thread \ {t} : pc'[u] = pc[u]
      /\ pc'[t].at \in {"idle", "give"} /\ InHand' = [InHand EXCEPT ![t] = IF copied THEN {r} ELSE {}]
  <2> DEFINE place == IF copied THEN Giving(e, r, <<>>) ELSE Idle
  <2>1. pc' = [pc EXCEPT ![t] = place]
    BY <1>0, <1>2 DEF QueueAdd, Go
  <2>2. place \in Place /\ place.at \in {"idle", "give"}
    BY <1>1 DEF Giving, Idle, Place
  <2>3. (IF place.at \in {"queue", "give"} THEN {place.req} ELSE {}) = IF copied THEN {r} ELSE {}
    BY DEF Giving, Idle
  <2> HIDE DEF place
  <2>4. pc'[t] = place /\ \A u \in Thread \ {t} : pc'[u] = pc[u]
    BY <1>1, <2>1 DEF QueueTypes
  <2>5. \A u \in Thread : InHand'[u] = IF u = t THEN IF copied THEN {r} ELSE {} ELSE InHand[u]
    BY <2>3, <2>4 DEF InHand
  <2>6. InHand' = [InHand EXCEPT ![t] = IF copied THEN {r} ELSE {}]
    BY <2>5 DEF InHand
  <2> QED  BY <2>1, <2>2, <2>4, <2>6 DEF QueueTypes
<1>8. fifo' \in Nat /\ UNCHANGED <<phase, owned, desc>>
  BY <1>3 DEF QueueAdd, QueueTypes, state, endpoints
<1>9. /\ queue' \in [Ep -> Seq(Queued)]
      /\ Len(queue'[e]) = Len(queue[e]) + 1 /\ \A f \in Ep \ {e} : queue'[f] = queue[f]
      /\ InQueue' = [InQueue EXCEPT ![e] = @ \cup {q}]
      /\ \A f \in Ep : \A j, k \in DOMAIN queue'[f] : queue'[f][j].req = queue'[f][k].req => j = k
  BY <1>1, <1>3, <1>6, AddsOne
<1>10. QueueTypes'
  BY <1>3, <1>7, <1>8, <1>9 DEF QueueTypes
<1>11. Stopped'
  <2>1. pc[t] # Idle
    BY <1>1 DEF Idle
  <2> QED  BY <1>1, <1>7, <1>8, <2>1 DEF Stopped, Thread
<1>12. QueuesBounded'
  <2>1. \A f \in Ep : Len(queue'[f]) <= count'
    <3>1. \A f \in Ep : Len(queue[f]) \in Nat /\ Len(queue[f]) <= count
      BY LenProperties DEF QueueTypes, QueuesBounded
    <3>2. \A f \in Ep : Len(queue'[f]) \in {Len(queue[f]), Len(queue[f]) + 1}
      BY <1>1, <1>9
    <3> QED  BY <1>3, <3>1, <3>2
  <2>2. MaxQueues \in Nat /\ count <= MaxQueues
    BY <1>1, UdcAssumption DEF QueuesBounded
  <2>3. \A u \in {"fn", "poll"} : pc'[u].at = "queue" => u # t /\ pc[u].at = "queue"
    BY <1>7 DEF Thread
  <2>4. (\E u \in {"fn", "poll"} : pc'[u].at = "queue") => count < MaxQueues
    BY <1>1, <2>3 DEF QueuesBounded
  <2> QED  BY <1>3, <2>1, <2>2, <2>3, <2>4 DEF QueuesBounded
<1>13. OneQueue' /\ OneHand' /\ OwnedAway' /\ Somewhere'
  <2> DEFINE hand == IF copied THEN {r} ELSE {}
  <2>1. \/ q = "fifo" /\ hand = {r} /\ \A f \in Ep : "fifo" \notin InQueue[f]
        \/ q = r /\ hand = {}
    BY <1>2, <1>5
  <2>2. owned' = owned /\ e \in Ep /\ r \in Requests /\ InHand[t] = {r} /\ t \in Thread
    BY <1>1, <1>4, <1>8
  <2>3. InHand' = [InHand EXCEPT ![t] = hand]
    BY <1>7
  <2> HIDE DEF hand
  <2>4. /\ DOMAIN InHand = Thread /\ DOMAIN InQueue = Ep
        /\ "fifo" \notin Requests /\ owned \subseteq Requests
    BY UdcAssumption DEF InHand, InQueue, QueueTypes
  <2>5. /\ \A f \in Ep : InQueue'[f] = IF f = e THEN InQueue[f] \cup {q} ELSE InQueue[f]
        /\ \A u \in Thread : InHand'[u] = IF u = t THEN hand ELSE InHand[u]
    BY <1>9, <2>2, <2>3, <2>4
  <2>6. \A f \in Ep : q \notin InQueue[f] /\ r \notin InQueue[f]
    BY <1>6, <2>2, <2>4 DEF OneHand
  <2>7. \A u \in Thread : r \in InHand[u] => u = t
    BY <2>2, <2>4 DEF OneHand
  <2>8. r \notin owned
    BY <2>2 DEF OwnedAway
  <2> DEFINE same == \A u \in Thread : InHand'[u] = InHand[u]
  <2>9. (q = "fifo" /\ same) \/ (q = r /\ InHand'[t] = {})
    BY <2>1, <2>2, <2>5
  <2>10. OneQueue'
    BY <1>9, <2>5, <2>6 DEF OneQueue
  <2>11. OneHand'
    <3>1. ASSUME NEW u \in Thread, NEW s \in InHand'[u] \ {"fifo"}
          PROVE  /\ s \in InHand[u] \ {"fifo"} /\ s # q
                 /\ \A v \in Thread : s \in InHand'[v] => s \in InHand[v]
                 /\ \A f \in Ep : s \in InQueue'[f] => s \in InQueue[f]
      <4>1. s \in InHand[u]
        BY <2>2, <2>5, <2>9
      <4>2. s # q
        BY <2>2, <2>5, <2>7, <2>9, <4>1
      <4> QED  BY <2>2, <2>5, <2>9, <4>1, <4>2
    <3> QED  BY <3>1 DEF OneHand
  <2>12. OwnedAway'
    <3>1. ASSUME NEW s \in owned
          PROVE  /\ \A v \in Thread : s \in InHand'[v] => s \in InHand[v]
                 /\ \A f \in Ep : s \in InQueue'[f] => s \in InQueue[f]
      <4>1. s # q
        BY <2>1, <2>4, <2>8
      <4> QED  BY <2>2, <2>5, <2>9, <4>1
    <3> QED  BY <2>2, <3>1 DEF OwnedAway
  <2>13. Somewhere'
    BY <2>1, <2>2, <2>4, <2>5 DEF Somewhere
  <2> QED  BY <2>10, <2>11, <2>12, <2>13
<1> QED  BY <1>10, <1>11, <1>12, <1>13

\* A step that moves no request.
LEMMA QuietKeeps ==
  ASSUME HeldInv, NEW t \in Thread, UNCHANGED <<queue, owned, count>>, fifo' \in Nat,
         desc' \subseteq Ep, Stopped',
         \/ pc' = pc
         \/ pc[t].at \in {"idle", "nuke"} /\ pc' = [pc EXCEPT ![t] = Idle]
  PROVE  HeldInv'
<1> USE DEF HeldInv
<1>1. Idle \in Place /\ Idle.at = "idle"
  BY DEF Idle, Place
<1>2. pc' \in [Thread -> Place] /\ \A u \in Thread : pc'[u] = pc[u] \/ (pc'[u] = Idle /\ u = t)
  BY <1>1 DEF QueueTypes
<1>3. InQueue' = InQueue
  BY DEF InQueue
<1>4. \A u \in Thread : InHand'[u] = InHand[u]
  <2>1. CASE pc' = pc
    BY <2>1 DEF InHand
  <2>2. CASE pc[t].at \in {"idle", "nuke"} /\ pc' = [pc EXCEPT ![t] = Idle]
    BY <1>1, <1>2, <2>2 DEF InHand
  <2> QED  BY <2>1, <2>2
<1>5. \A u \in {"fn", "poll"} : pc'[u].at = "queue" => pc[u].at = "queue"
  BY <1>1, <1>2 DEF Thread
<1>6. QueueTypes'
  BY <1>2 DEF QueueTypes
<1>7. QueuesBounded'
  BY <1>5 DEF QueuesBounded
<1>8. OneQueue' /\ OneHand' /\ OwnedAway' /\ Somewhere'
  BY <1>3, <1>4 DEF OneQueue, OneHand, OwnedAway, Somewhere
<1> QED  BY <1>6, <1>7, <1>8

\* nuke gives back what it takes out.
LEMMA NukeKeeps ==
  ASSUME HeldInv, NEW t \in Thread, pc[t].at \in {"idle", "nuke"}, NEW eps \in Seq(Ep), Nuke(t, eps),
         UNCHANGED <<owned, count, fifo>>, desc' \subseteq Ep, Stopped'
  PROVE  HeldInv'
<1>1. CASE ~Busy(eps) /\ Go(t, Idle) /\ UNCHANGED queue
  BY <1>1, QuietKeeps DEF Go, HeldInv, QueueTypes
<1>2. ASSUME NEW k \in DOMAIN eps, queue[eps[k]] # <<>>, queue' = [queue EXCEPT ![eps[k]] = Tail(@)],
             Go(t, Giving(eps[k], Head(queue[eps[k]]).req, Left(eps, k)))
      PROVE  HeldInv'
  <2>1. eps[k] \in Ep /\ k \in 1 .. Len(eps) /\ Len(eps) \in Nat
    BY LenProperties, ElementOfSeq
  <2>2. Takes(t, eps[k], 1, Left(eps, k))
    BY <1>2, <2>1, TakesOne
  <2>3. Left(eps, k) \in Seq(Ep)
    BY <2>1, SubSeqProperties, ElementOfSeq DEF Left
  <2> QED  BY <2>1, <2>2, <2>3, TakesKeeps
<1> QED  BY <1>1, <1>2 DEF Nuke

\* dummy_queue before the lock: the request is the driver's no more.
LEMMA CheckKeeps ==
  ASSUME HeldInv, NEW t \in {"fn", "poll"}, NEW e \in Ep, NEW r \in Requests, QueueCheck(t, e, r)
  PROVE  HeldInv'
<1> USE DEF HeldInv
<1>1. /\ t \in Thread /\ pc[t] = Idle /\ r \in owned /\ owned' = owned \ {r} /\ count < MaxQueues
      /\ pc' = [pc EXCEPT ![t] = [at |-> "queue", ep |-> e, req |-> r]]
      /\ UNCHANGED <<phase, queue, desc, count, fifo>>
      /\ t = "fn" => phase \in {"bound", "up", "draining"}
  BY DEF QueueCheck, MayCall, Go, Thread, state, endpoints
<1>2. /\ pc' \in [Thread -> Place] /\ \A u \in Thread \ {t} : pc'[u] = pc[u]
      /\ pc'[t].at = "queue" /\ pc'[t].req = r
  <2>1. [at |-> "queue", ep |-> e, req |-> r] \in Place
    BY DEF Place
  <2> QED  BY <1>1, <2>1 DEF QueueTypes
<1>3. InQueue' = InQueue /\ InHand[t] = {}
  BY <1>1 DEF InQueue, InHand, Idle
<1>4. \A u \in Thread : InHand'[u] = IF u = t THEN {r} ELSE InHand[u]
  BY <1>2 DEF InHand
<1>5. QueueTypes'
  BY <1>1, <1>2 DEF QueueTypes
<1>6. Stopped'
  BY <1>1, <1>2 DEF Stopped, Thread
<1>7. QueuesBounded'
  <2>1. MaxQueues \in Nat /\ count \in Nat
    BY UdcAssumption DEF QueueTypes
  <2> QED  BY <1>1, <2>1 DEF QueuesBounded
<1>8. OneQueue'
  BY <1>1, <1>3 DEF OneQueue
<1>9. OneHand'
  BY <1>1, <1>3, <1>4 DEF OneHand, OwnedAway
<1>10. OwnedAway'
  BY <1>1, <1>3, <1>4 DEF OwnedAway
<1>11. Somewhere'
  BY <1>1, <1>3, <1>4 DEF Somewhere
<1> QED  BY <1>5, <1>6, <1>7, <1>8, <1>9, <1>10, <1>11

\* The giveback: the request is the driver's again.
LEMMA GiveKeeps ==
  ASSUME HeldInv, NEW t \in Thread, Give(t), Stopped'
  PROVE  HeldInv'
<1> USE DEF HeldInv
<1>1. PICK r, place : /\ r = pc[t].req
                      /\ place = IF pc[t].left = <<>> THEN Idle ELSE [at |-> "nuke", left |-> pc[t].left]
  OBVIOUS
<1>2. /\ pc[t].at = "give" /\ owned' = owned \cup ({r} \cap Requests) /\ pc' = [pc EXCEPT ![t] = place]
      /\ UNCHANGED <<queue, desc, fifo, count>>
  BY <1>1 DEF Give, Go, endpoints
<1>3. place \in Place /\ place.at \in {"idle", "nuke"} /\ r \in Requests \cup {"fifo"}
  BY <1>1, <1>2 DEF Place, Idle, QueueTypes
<1>4. pc' \in [Thread -> Place] /\ pc'[t] = place /\ \A u \in Thread \ {t} : pc'[u] = pc[u]
  BY <1>2, <1>3 DEF QueueTypes
<1>5. InQueue' = InQueue /\ InHand[t] = {r} /\ "fifo" \notin Requests
  BY <1>1, <1>2, UdcAssumption DEF InQueue, InHand
<1>6. \A u \in Thread : InHand'[u] = IF u = t THEN {} ELSE InHand[u]
  BY <1>3, <1>4 DEF InHand
<1>7. QueueTypes'
  BY <1>2, <1>4 DEF QueueTypes
<1>8. QueuesBounded'
  <2>1. \A u \in {"fn", "poll"} : pc'[u].at = "queue" => pc[u].at = "queue"
    BY <1>3, <1>4 DEF Thread
  <2> QED  BY <1>2, <2>1 DEF QueuesBounded
<1>9. OneQueue'
  BY <1>2, <1>5 DEF OneQueue
<1>10. OneHand'
  BY <1>5, <1>6 DEF OneHand
<1>11. OwnedAway'
  BY <1>2, <1>5, <1>6 DEF OwnedAway, OneHand
<1>12. Somewhere'
  BY <1>2, <1>5, <1>6 DEF Somewhere
<1> QED  BY <1>7, <1>8, <1>9, <1>10, <1>11, <1>12

-----------------------------------------------------------------------------
\* The endpoints of one call, and all of them.
LEMMA Endpoint == \A e \in Ep : <<e>> \in Seq(Ep)
  OBVIOUS

\* The endpoints of the controller.
LEMMA AllEndpoints == Endpoints \in Seq(Ep)
  BY UdcAssumption DEF Ep

\* The operations of an endpoint keep each request in its place.
LEMMA HeldOperation ==
  ASSUME HeldInv, NEW t \in {"fn", "poll"}, Operation(t)
  PROVE  HeldInv'
<1> USE DEF state, endpoints, requests
<1>1. PICK e \in Ep :
         \/ \E r \in Requests : QueueCheck(t, e, r) \/ Dequeue(t, e, r)
         \/ Enable(t, e) \/ Disable(t, e)
         \/ \E value \in {0, 1} : SetHalt(t, e, value)
  BY DEF Operation
<1>2. MayCall(t) /\ UNCHANGED phase /\ t \in Thread
  BY <1>1 DEF QueueCheck, Dequeue, Enable, Disable, SetHalt, Thread
<1>3. pc[t].at = "idle" /\ (t = "fn" => phase \in {"bound", "up", "draining"})
  BY <1>2 DEF MayCall, Idle
<1>4. (\A u \in Thread \ {t} : pc'[u] = pc[u]) => Stopped'
  BY <1>2, <1>3 DEF Stopped, HeldInv, Thread
<1>5. CASE \E r \in Requests : QueueCheck(t, e, r)
  BY <1>5, CheckKeeps
<1>6. ASSUME NEW r \in Requests, Dequeue(t, e, r)
      PROVE  HeldInv'
  <2>1. PICK i \in Nat : Takes(t, e, i, <<>>)
    BY <1>2, <1>6, TakesOne
  <2>2. UNCHANGED <<owned, count, fifo, desc>> /\ \A u \in Thread \ {t} : pc'[u] = pc[u]
    BY <1>6 DEF Dequeue, Go, HeldInv, QueueTypes
  <2>3. <<>> \in Seq(Ep) /\ desc' \subseteq Ep
    BY <2>2 DEF HeldInv, QueueTypes
  <2> QED  BY <1>2, <1>3, <1>4, <2>1, <2>2, <2>3, TakesKeeps
<1>7. CASE Disable(t, e)
  <2>1. Nuke(t, <<e>>) /\ UNCHANGED <<owned, count, fifo>> /\ desc' \subseteq Ep
    BY <1>7 DEF Disable, HeldInv, QueueTypes
  <2>2. \A u \in Thread \ {t} : pc'[u] = pc[u]
    BY <1>2, <2>1, NukeGoes DEF HeldInv, QueueTypes
  <2> QED  BY <1>2, <1>3, <1>4, <2>1, <2>2, Endpoint, NukeKeeps
<1>8. CASE Enable(t, e) \/ \E value \in {0, 1} : SetHalt(t, e, value)
  <2>1. UNCHANGED <<queue, owned, count, fifo, pc>> /\ desc' \subseteq Ep
    BY <1>8 DEF Enable, SetHalt, HeldInv, QueueTypes
  <2> QED  BY <1>2, <1>4, <2>1, QuietKeeps DEF HeldInv, QueueTypes
<1> QED  BY <1>1, <1>5, <1>6, <1>7, <1>8

\* Every step keeps each request in one place.
LEMMA HeldStep ==
  ASSUME HeldInv, CallbackInv, LifeInv, [Next]_vars
  PROVE  HeldInv'
<1> USE DEF state, device, endpoints, requests
<1>0. /\ fifo \in Nat /\ desc \subseteq Ep /\ Stopped /\ DOMAIN pc = Thread /\ 0 \in Nat
      /\ "core" \in Thread /\ "poll" \in Thread /\ "fn" \in Thread
  BY DEF HeldInv, QueueTypes, Thread
<1>1. CASE UNCHANGED vars
  <2>1. UNCHANGED <<queue, owned, count, fifo, desc, pc, phase>>
    BY <1>1 DEF vars
  <2>2. Stopped'
    BY <1>0, <2>1 DEF Stopped
  <2> QED  BY <1>0, <2>1, <2>2, QuietKeeps
<1>2. CASE \E t \in {"fn", "poll"} : Operation(t)
  BY <1>2, HeldOperation
<1>3. ASSUME NEW t \in Thread, Continue(t)
      PROVE  HeldInv'
  <2>1. pc[t] # Idle /\ (t = "fn" => phase \in {"bound", "up", "draining"})
    BY <1>0, <1>3 DEF Continue, QueueAdd, Give, NukeOn, Idle, Stopped
  <2>2. CASE QueueAdd(t)
    <3>1. t # "core"
      BY <2>2 DEF QueueAdd, CallbackInv, CoreStops
    <3> QED  BY <2>2, <3>1, AddKeeps DEF Thread
  <2>3. CASE Give(t)
    <3>1. Stopped'
      BY <1>0, <2>1, <2>3 DEF Give, Go, Stopped
    <3> QED  BY <2>3, <3>1, GiveKeeps
  <2>4. CASE NukeOn(t)
    <3>1. /\ pc[t].at = "nuke" /\ Nuke(t, pc[t].left) /\ UNCHANGED <<owned, count, fifo, desc>>
          /\ t # "core" => UNCHANGED phase
      BY <2>4 DEF NukeOn
    <3>2. pc[t].left \in Seq(Ep)
      BY <3>1 DEF HeldInv, QueueTypes, Place
    <3>3. t = "core" => phase = "stopping"
      BY <3>1 DEF CallbackInv, CoreStops
    <3>4. \A u \in Thread \ {t} : pc'[u] = pc[u]
      BY <1>0, <3>1, NukeGoes
    <3>5. Stopped'
      BY <1>0, <2>1, <3>1, <3>3, <3>4 DEF Stopped
    <3> QED  BY <1>0, <3>1, <3>2, <3>5, NukeKeeps
  <2> QED  BY <1>3, <2>2, <2>3, <2>4 DEF Continue
<1>4. ASSUME NEW e \in Ep, Poll(e)
      PROVE  HeldInv'
  <2>0. Takes("poll", e, 1, <<>>)
    BY <1>0, <1>4, TakesOne
  <2>1. Takes("poll", e, 1, <<>>) /\ UNCHANGED <<owned, count, fifo, desc, phase>> /\ pc["poll"].at = "idle"
    BY <2>0, <1>4 DEF Poll, Waiting, Idle
  <2>2. Stopped'
    BY <1>0, <1>4 DEF Poll, Go, Stopped
  <2>3. <<>> \in Seq(Ep)
    OBVIOUS
  <2> QED  BY <1>0, <2>1, <2>2, <2>3, TakesKeeps
<1>5. CASE \/ SetupComes \/ HostAsksStatus \/ SetupEnters \/ SetupEnds
           \/ \E e \in Ep : HostHalts(e) \/ HostClearsHalt(e)
  <2>1. UNCHANGED <<queue, owned, count, desc, phase, pc>> /\ fifo' \in {fifo, 0}
    BY <1>5 DEF SetupComes, HostAsksStatus, SetupEnters, SetupEnds, HostHalts, HostClearsHalt
  <2>2. Stopped'
    BY <1>0, <2>1 DEF Stopped
  <2> QED  BY <1>0, <2>1, <2>2, QuietKeeps
<1>6. CASE Start \/ PullupOn \/ PullupOff \/ PullupWait
  <2>1. UNCHANGED <<queue, owned, count, desc, fifo, pc>>
    BY <1>6 DEF Start, PullupOn, PullupOff, PullupWait
  <2>2. Stopped'
    BY <1>0, <1>6, <2>1 DEF Stopped, Start, PullupOn, PullupOff, PullupWait
  <2> QED  BY <1>0, <2>1, <2>2, QuietKeeps
<1>7. CASE Stop
  <2>1. Nuke("core", Endpoints) /\ UNCHANGED <<owned, count, fifo, desc>> /\ phase = "down"
    BY <1>7 DEF Stop
  <2>2. pc["core"].at = "idle" /\ pc["fn"] = Idle
    BY <1>0, <2>1 DEF CallbackInv, CoreStops, Stopped
  <2>3. pc'["fn"] = pc["fn"]
    BY <1>0, <2>1, NukeGoes
  <2>4. Stopped'
    BY <2>2, <2>3 DEF Stopped
  <2> QED  BY <1>0, <2>1, <2>2, <2>4, AllEndpoints, NukeKeeps
<1>8. CASE CreateData
  <2>1. /\ UNCHANGED <<count, phase, pc>> /\ desc' = {} /\ queue' = [e \in Ep |-> <<>>] /\ fifo' = 0
        /\ owned' = Requests /\ life = "none"
    BY <1>8 DEF CreateData
  <2>2. phase = "unbound" /\ pc["poll"] = Idle
    BY <2>1 DEF LifeInv, Polling
  <2>3. pc["fn"] = Idle /\ pc["core"].at = "idle"
    BY <1>0, <2>2 DEF Stopped, CallbackInv, CoreStops
  <2>4. \A t \in Thread : InHand'[t] = {} /\ pc'[t].at = "idle"
    BY <2>1, <2>2, <2>3 DEF InHand, Thread, Idle
  <2>5. /\ \A e \in Ep : InQueue'[e] = {} /\ DOMAIN queue'[e] = {} /\ Len(queue'[e]) = 0
        /\ queue' \in [Ep -> Seq(Queued)]
    BY <2>1 DEF InQueue
  <2>6. QueueTypes'
    BY <1>0, <2>1, <2>5 DEF QueueTypes, HeldInv
  <2>7. Stopped'
    BY <1>0, <2>1 DEF Stopped
  <2>8. QueuesBounded'
    <3>1. count \in Nat /\ count <= MaxQueues + 1
      BY DEF HeldInv, QueueTypes, QueuesBounded
    <3> QED  BY <2>1, <2>4, <2>5, <3>1 DEF QueuesBounded, Thread
  <2>9. OneQueue' /\ OneHand' /\ OwnedAway' /\ Somewhere'
    BY <2>1, <2>4, <2>5 DEF OneQueue, OneHand, OwnedAway, Somewhere
  <2> QED  BY <2>6, <2>7, <2>8, <2>9 DEF HeldInv
<1>9. CASE CreateEvent \/ AddGadget \/ RunThread \/ Removal \/ ThreadEnds \/ DelGadget \/ Close
  <2>1. UNCHANGED <<queue, owned, count, desc, fifo, pc, phase>>
    BY <1>9 DEF CreateEvent, AddGadget, RunThread, Removal, ThreadEnds, DelGadget, Close, others
  <2>2. Stopped'
    BY <1>0, <2>1 DEF Stopped
  <2> QED  BY <1>0, <2>1, <2>2, QuietKeeps
<1> QED
  BY <1>1, <1>2, <1>3, <1>4, <1>5, <1>6, <1>7, <1>8, <1>9 DEF Next, Packet, Core, Device

\* At first every request is the driver's.
LEMMA HeldInit == ASSUME Init PROVE HeldInv
<1>1. /\ queue = [e \in Ep |-> <<>>] /\ owned = Requests /\ count = 0 /\ fifo = 0 /\ desc = {}
      /\ pc = [t \in Thread |-> Idle] /\ phase = "unbound" /\ MaxQueues \in Nat
  BY UdcAssumption DEF Init
<1>2. /\ Idle \in Place /\ Idle.at = "idle"
      /\ \A e \in Ep : InQueue[e] = {} /\ DOMAIN queue[e] = {} /\ Len(queue[e]) = 0
      /\ \A t \in Thread : InHand[t] = {} /\ pc[t] = Idle
  BY <1>1 DEF Idle, Place, InQueue, InHand
<1>3. QueueTypes /\ Stopped
  BY <1>1, <1>2 DEF QueueTypes, Stopped, Thread
<1>4. QueuesBounded
  BY <1>1, <1>2 DEF QueuesBounded, Thread
<1>5. OneQueue /\ OneHand /\ OwnedAway /\ Somewhere
  BY <1>1, <1>2 DEF OneQueue, OneHand, OwnedAway, Somewhere
<1> QED  BY <1>3, <1>4, <1>5 DEF HeldInv

\* The places of a request, of which there are not more than the queues are long.
LEMMA HeldPlaces ==
  ASSUME HeldInv
  PROVE  HeldOnce
<1> USE DEF HeldInv
<1>1. \A r \in Requests : \A p \in Places(r) :
         \/ p[1] \in Ep /\ p[2] \in DOMAIN queue[p[1]] /\ queue[p[1]][p[2]].req = r /\ p = <<p[1], p[2]>>
         \/ p[1] \in Thread /\ p[2] = 0 /\ r \in InHand[p[1]] /\ p = <<p[1], 0>>
  BY LenProperties DEF Places, InHand, QueueTypes
<1>2. \A r \in Requests, e \in Ep, i \in Nat :
         i \in DOMAIN queue[e] /\ queue[e][i].req = r => <<e, i>> \in Places(r)
  <2>1. \A e \in Ep : DOMAIN queue[e] = 1 .. Len(queue[e]) /\ Len(queue[e]) \in Nat
    BY LenProperties DEF QueueTypes
  <2>2. \A e \in Ep : Len(queue[e]) <= MaxQueues + 1
    BY <2>1, UdcAssumption DEF QueuesBounded, QueueTypes
  <2> QED  BY <2>1, <2>2, UdcAssumption DEF Places
<1>3. \A r \in Requests, t \in Thread : r \in InHand[t] => <<t, 0>> \in Places(r)
  BY DEF Places, InHand
<1>4. \A e \in Ep : DOMAIN queue[e] \subseteq Nat
  BY LenProperties DEF QueueTypes
<1>5. \A e \in Ep : \A i \in DOMAIN queue[e] : queue[e][i].req \in InQueue[e]
  BY DEF InQueue
<1>6. "fifo" \notin Requests
  BY UdcAssumption
<1>7. ASSUME NEW r \in Requests, r \in owned
      PROVE  Places(r) = {}
  BY <1>1, <1>5, <1>7 DEF OwnedAway
<1>8. ASSUME NEW r \in Requests, r \notin owned
      PROVE  \E p \in Places(r) : Places(r) = {p}
  <2>1. CASE \E t \in Thread : r \in InHand[t]
    <3>1. PICK t \in Thread : r \in InHand[t]
      BY <2>1
    <3>2. \A p \in Places(r) : p = <<t, 0>>
      BY <1>1, <1>5, <1>6, <3>1 DEF OneHand
    <3> QED  BY <1>3, <3>1, <3>2
  <2>2. CASE ~\E t \in Thread : r \in InHand[t]
    <3>1. PICK e \in Ep : \E i \in DOMAIN queue[e] : queue[e][i].req = r
      BY <1>8, <2>2 DEF Somewhere, InQueue
    <3>2. PICK i \in DOMAIN queue[e] : queue[e][i].req = r
      BY <3>1
    <3>3. ASSUME NEW p \in Places(r)
          PROVE  p = <<e, i>>
      <4>1. p[1] \in Ep /\ p[2] \in DOMAIN queue[p[1]] /\ queue[p[1]][p[2]].req = r /\ p = <<p[1], p[2]>>
        BY <1>1, <2>2
      <4>2. p[1] = e
        BY <1>5, <3>2, <4>1 DEF OneQueue
      <4> QED  BY <3>2, <4>1, <4>2 DEF OneQueue
    <3> QED  BY <1>2, <1>4, <3>2, <3>3
  <2> QED  BY <2>1, <2>2
<1> QED  BY <1>7, <1>8 DEF HeldOnce

\* The three invariants hold together.
LEMMA RequestsInvariant == Spec => [](HeldInv /\ CallbackInv /\ LifeInv)
<1>1. Init => HeldInv /\ CallbackInv /\ LifeInv
  BY HeldInit, CallbackInit, LifeInit
<1>2. HeldInv /\ CallbackInv /\ LifeInv /\ [Next]_vars => (HeldInv /\ CallbackInv /\ LifeInv)'
  BY HeldStep, CallbackStep, LifeStep
<1> QED  BY <1>1, <1>2, PTL DEF Spec

\* However POLL, dequeue, disable and the stop meet while the lock is dropped for a
\* giveback, no request is lost and none is given back twice.
THEOREM RequestsHeldOnce == Spec => []HeldOnce
<1>1. HeldInv => HeldOnce
  BY HeldPlaces
<1> QED
  BY <1>1, RequestsInvariant, PTL

-----------------------------------------------------------------------------
\* The numbers of the requests.
LEMMA NumbersTyped ==
  ASSUME QueueTypes
  PROVE  \A f \in Ep : /\ DOMAIN queue[f] = 1 .. Len(queue[f]) /\ Len(queue[f]) \in Nat
                       /\ \A j \in DOMAIN queue[f] : queue[f][j].n \in Nat
<1>1. ASSUME NEW f \in Ep
      PROVE  /\ DOMAIN queue[f] = 1 .. Len(queue[f]) /\ Len(queue[f]) \in Nat
             /\ \A j \in DOMAIN queue[f] : queue[f][j].n \in Nat
  <2>1. queue[f] \in Seq(Queued)
    BY DEF QueueTypes
  <2>2. DOMAIN queue[f] = 1 .. Len(queue[f]) /\ Len(queue[f]) \in Nat
    BY <2>1, LenProperties
  <2>3. \A j \in DOMAIN queue[f] : queue[f][j] \in Queued
    BY <2>1, <2>2, ElementOfSeq
  <2> QED  BY <2>2, <2>3 DEF Queued
<1> QED  BY <1>1

\* Taking a request out keeps the order of the others.
LEMMA NumberedTakes ==
  ASSUME HeldInv, NumberedInv, NEW t \in Thread, NEW e \in Ep, NEW i \in Nat, NEW left,
         Takes(t, e, i, left), UNCHANGED <<count, fifo>>
  PROVE  NumberedInv'
<1>1. \A f \in Ep : /\ DOMAIN queue[f] = 1 .. Len(queue[f]) /\ Len(queue[f]) \in Nat
                    /\ DOMAIN queue'[f] = 1 .. Len(queue'[f])
  BY LenProperties DEF HeldInv, QueueTypes, Takes
<1>2. \A f \in Ep : \A j \in DOMAIN queue[f] : queue[f][j].n \in Nat
  BY NumbersTyped DEF HeldInv
<1>3. ASSUME NEW j \in DOMAIN queue'[e]
      PROVE  LET a == IF j < i THEN j ELSE j + 1
             IN  a \in DOMAIN queue[e] /\ queue'[e][j] = queue[e][a]
  <2>1. j \in 1 .. Len(queue[e]) - 1
    BY <1>1 DEF Takes
  <2>2. j \in DOMAIN queue[e] /\ j + 1 \in DOMAIN queue[e]
    BY <1>1, <2>1
  <2>3. queue'[e][j] = IF j < i THEN queue[e][j] ELSE queue[e][j + 1]
    BY <2>1 DEF Takes
  <2> QED  BY <2>2, <2>3
<1>4. ASSUME NEW j \in DOMAIN queue'[e], NEW k \in 1 .. j - 1
      PROVE  queue'[e][k].n < queue'[e][j].n
  <2>1. j \in Nat /\ k \in Nat /\ k < j /\ k \in DOMAIN queue'[e]
    BY <1>1
  <2> DEFINE a == IF j < i THEN j ELSE j + 1
             b == IF k < i THEN k ELSE k + 1
  <2>2. a \in DOMAIN queue[e] /\ queue'[e][j] = queue[e][a] /\ queue'[e][k] = queue[e][b]
    BY <1>3, <2>1
  <2>3. b \in 1 .. a - 1
    BY <2>1
  <2> HIDE DEF a, b
  <2> QED  BY <2>2, <2>3 DEF NumberedInv, BytesKept
<1>5. \A j \in DOMAIN queue'[e] : \E a \in DOMAIN queue[e] : queue'[e][j] = queue[e][a]
  BY <1>3
<1>6. \A f \in Ep \ {e} : queue'[f] = queue[f]
  BY DEF Takes
<1> QED  BY <1>4, <1>5, <1>6 DEF NumberedInv, BytesKept

\* dummy_queue numbers a request higher than those before it, and fifo_req is free
\* when it copies one.
LEMMA NumberedAdd ==
  ASSUME HeldInv, NumberedInv, NEW t \in {"fn", "poll"}, QueueAdd(t)
  PROVE  NumberedInv'
<1>0. PICK e, r : e = pc[t].ep /\ r = pc[t].req
  OBVIOUS
<1> DEFINE isLate == ~driver \/ phase = "stopping" \/ (e # "ep0" /\ e \notin desc)
<1>1. t \in Thread /\ pc[t].at = "queue" /\ e \in Ep /\ r \in Requests /\ "fifo" \notin Requests
  BY <1>0, UdcAssumption DEF HeldInv, QueueTypes, Place, QueueAdd, Thread
<1>2. PICK copied, q, x, n : /\ copied = FitsFifo(e, r) /\ q = IF copied THEN "fifo" ELSE r
                             /\ n = count + 1 /\ x = [req |-> q, n |-> n, late |-> isLate]
  OBVIOUS
<1>3. /\ queue' = [queue EXCEPT ![e] = Append(@, x)] /\ count' = n /\ count \in Nat
      /\ x \in Queued /\ x.req = q /\ x.n = n /\ fifo' = IF copied THEN n ELSE fifo
  BY <1>0, <1>1, <1>2 DEF QueueAdd, HeldInv, QueueTypes, Queued
<1>4. copied => \A f \in Ep : \A j \in DOMAIN queue[f] : queue[f][j].req # "fifo"
  BY <1>2 DEF FitsFifo
<1>5. q \notin InQueue[e]
  BY <1>0, <1>1, <1>2, <1>4 DEF HeldInv, OneHand, InHand, InQueue
<1> DEFINE z == Len(queue[e]) + 1
<1>6. /\ \A f \in Ep \ {e} : queue'[f] = queue[f]
      /\ queue'[e][z] = x /\ \A j \in DOMAIN queue[e] : queue'[e][j] = queue[e][j]
      /\ DOMAIN queue'[e] = DOMAIN queue[e] \cup {z}
  BY <1>1, <1>3, <1>5, AddsOne DEF HeldInv
<1>7. \A f \in Ep : /\ DOMAIN queue[f] = 1 .. Len(queue[f]) /\ Len(queue[f]) \in Nat
                    /\ \A j \in DOMAIN queue[f] : queue[f][j].n \in Nat
  BY NumbersTyped DEF HeldInv
<1>8. \A f \in Ep : \A j \in DOMAIN queue[f] : queue[f][j].n <= count /\ queue[f][j].n < n
  BY <1>2, <1>3, <1>7 DEF NumberedInv
<1>9. /\ \A j \in 1 .. z - 1 : j \in DOMAIN queue[e]
      /\ \A i \in DOMAIN queue[e] : \A j \in 1 .. i - 1 : j \in DOMAIN queue[e]
  BY <1>1, <1>7
<1> HIDE DEF z, isLate
<1>10. ASSUME NEW f \in Ep, NEW i \in DOMAIN queue'[f]
       PROVE  /\ \A j \in 1 .. i - 1 : queue'[f][j].n < queue'[f][i].n
              /\ queue'[f][i].req = "fifo" => fifo' \in {0, queue'[f][i].n}
              /\ queue'[f][i].n <= count'
  <2>1. CASE f = e /\ i = z
    BY <1>1, <1>2, <1>3, <1>6, <1>8, <1>9, <2>1
  <2>2. CASE i \in DOMAIN queue[f]
    <3>1. queue'[f][i] = queue[f][i] /\ \A j \in 1 .. i - 1 : queue'[f][j] = queue[f][j]
      BY <1>6, <1>9, <2>2
    <3>2. queue[f][i].req = "fifo" => ~copied
      BY <1>4, <2>2
    <3>3. queue'[f][i].n <= count'
      BY <1>2, <1>3, <1>7, <1>8, <2>2, <3>1
    <3> QED  BY <1>3, <2>2, <3>1, <3>2, <3>3 DEF NumberedInv, BytesKept
  <2> QED  BY <1>6, <2>1, <2>2
<1> QED  BY <1>10 DEF NumberedInv, BytesKept

\* A step leaves the queues alone, empties them, adds to one or takes from one.
LEMMA QueueSteps ==
  ASSUME HeldInv, CallbackInv, [Next]_vars
  PROVE  \/ UNCHANGED <<queue, count>> /\ fifo' \in {fifo, 0}
         \/ queue' = [e \in Ep |-> <<>>] /\ UNCHANGED count
         \/ \E t \in {"fn", "poll"} : QueueAdd(t)
         \/ /\ UNCHANGED <<count, fifo>>
            /\ \E t \in Thread, e \in Ep, i \in Nat, left \in Seq(Ep) : Takes(t, e, i, left)
<1> USE DEF requests
<1> DEFINE Same == UNCHANGED <<queue, count>> /\ fifo' \in {fifo, 0}
           Out  == /\ UNCHANGED <<count, fifo>>
                   /\ \E t \in Thread, e \in Ep, i \in Nat, left \in Seq(Ep) : Takes(t, e, i, left)
<1>1. ASSUME NEW t \in Thread, NEW eps \in Seq(Ep), Nuke(t, eps), UNCHANGED <<count, fifo>>
      PROVE  Same \/ Out
  <2>1. ASSUME NEW k \in DOMAIN eps, queue[eps[k]] # <<>>, queue' = [queue EXCEPT ![eps[k]] = Tail(@)],
               Go(t, Giving(eps[k], Head(queue[eps[k]]).req, Left(eps, k)))
        PROVE  Out
    <3>1. eps[k] \in Ep /\ k \in 1 .. Len(eps) /\ Len(eps) \in Nat
      BY LenProperties, ElementOfSeq
    <3>2. Takes(t, eps[k], 1, Left(eps, k))
      BY <2>1, <3>1, TakesOne
    <3>3. Left(eps, k) \in Seq(Ep)
      BY <3>1, SubSeqProperties, ElementOfSeq DEF Left
    <3> QED  BY <1>1, <3>1, <3>2, <3>3
  <2> QED  BY <1>1, <2>1 DEF Nuke
<1>2. ASSUME NEW t \in {"fn", "poll"}, Operation(t)
      PROVE  Same \/ Out
  <2>0. t \in Thread
    BY DEF Thread
  <2>1. PICK e \in Ep :
           \/ \E r \in Requests : QueueCheck(t, e, r) \/ Dequeue(t, e, r)
           \/ Enable(t, e) \/ Disable(t, e)
           \/ \E value \in {0, 1} : SetHalt(t, e, value)
    BY <1>2 DEF Operation
  <2>2. CASE \E r \in Requests : Dequeue(t, e, r)
    <3>1. PICK r \in Requests : Dequeue(t, e, r)
      BY <2>2
    <3>2. PICK i \in Nat : Takes(t, e, i, <<>>)
      BY <2>0, <3>1, TakesOne
    <3>3. UNCHANGED <<count, fifo>> /\ <<>> \in Seq(Ep)
      BY <3>1 DEF Dequeue
    <3> QED  BY <2>0, <3>2, <3>3
  <2>3. CASE Disable(t, e)
    BY <1>1, <2>0, <2>3, Endpoint DEF Disable
  <2> QED  BY <2>1, <2>2, <2>3 DEF QueueCheck, Enable, SetHalt
<1>3. ASSUME NEW t \in Thread, Continue(t)
      PROVE  Same \/ Out \/ \E u \in {"fn", "poll"} : QueueAdd(u)
  <2>1. CASE QueueAdd(t)
    <3>1. t # "core"
      BY <2>1 DEF QueueAdd, CallbackInv, CoreStops
    <3> QED  BY <2>1, <3>1 DEF Thread
  <2>2. CASE NukeOn(t)
    <3>1. pc[t].at = "nuke" /\ Nuke(t, pc[t].left) /\ UNCHANGED <<count, fifo>>
      BY <2>2 DEF NukeOn
    <3>2. pc[t].left \in Seq(Ep)
      BY <3>1 DEF HeldInv, QueueTypes, Place
    <3> QED  BY <1>1, <3>1, <3>2
  <2> QED  BY <1>3, <2>1, <2>2 DEF Continue, Give
<1>4. ASSUME NEW e \in Ep, Poll(e)
      PROVE  Out
  <2>1. "poll" \in Thread /\ 1 \in Nat /\ <<>> \in Seq(Ep)
    BY DEF Thread
  <2>2. Takes("poll", e, 1, <<>>)
    BY <1>4, <2>1, TakesOne
  <2> QED  BY <1>4, <2>1, <2>2 DEF Poll
<1>5. CASE Stop
  BY <1>1, <1>5, AllEndpoints DEF Stop, Thread
<1>6. CASE CreateData
  BY <1>6 DEF CreateData
<1>7. CASE \/ SetupComes \/ HostAsksStatus \/ SetupEnters \/ SetupEnds
           \/ \E e \in Ep : HostHalts(e) \/ HostClearsHalt(e)
  BY <1>7 DEF SetupComes, HostAsksStatus, SetupEnters, SetupEnds, HostHalts, HostClearsHalt
<1>8. CASE \/ Start \/ PullupOn \/ PullupOff \/ PullupWait
           \/ CreateEvent \/ AddGadget \/ RunThread \/ Removal \/ ThreadEnds \/ DelGadget \/ Close
  BY <1>8 DEF Start, PullupOn, PullupOff, PullupWait, CreateEvent, AddGadget, RunThread, Removal,
              ThreadEnds, DelGadget, Close, others
<1>9. CASE UNCHANGED vars
  BY <1>9 DEF vars
<1> QED
  BY <1>2, <1>3, <1>4, <1>5, <1>6, <1>7, <1>8, <1>9 DEF Next, Packet, Core, Device

\* Every step keeps the order.
LEMMA NumberedStep ==
  ASSUME HeldInv, CallbackInv, NumberedInv, [Next]_vars
  PROVE  NumberedInv'
<1>1. CASE UNCHANGED <<queue, count>> /\ fifo' \in {fifo, 0}
  BY <1>1 DEF NumberedInv, BytesKept
<1>2. CASE queue' = [e \in Ep |-> <<>>] /\ UNCHANGED count
  BY <1>2 DEF NumberedInv, BytesKept
<1>3. CASE \E t \in {"fn", "poll"} : QueueAdd(t)
  BY <1>3, NumberedAdd
<1>4. CASE /\ UNCHANGED <<count, fifo>>
           /\ \E t \in Thread, e \in Ep, i \in Nat, left \in Seq(Ep) : Takes(t, e, i, left)
  BY <1>4, NumberedTakes
<1> QED  BY <1>1, <1>2, <1>3, <1>4, QueueSteps

\* A queue keeps the order of the calls of dummy_queue, and fifo_buf the bytes of the
\* request that waits in it, unless GET_STATUS pointed fifo_req elsewhere.
THEOREM QueuesKeepOrder == Spec => []BytesKept
<1>1. Init => NumberedInv
  BY DEF Init, NumberedInv, BytesKept
<1>2. HeldInv /\ CallbackInv /\ NumberedInv /\ [Next]_vars => NumberedInv'
  BY NumberedStep
<1>3. NumberedInv => BytesKept
  BY DEF NumberedInv
<1> QED
  BY <1>1, <1>2, <1>3, RequestsInvariant, PTL DEF Spec

-----------------------------------------------------------------------------
AllLate(e) == \A i \in DOMAIN queue[e] : queue[e][i].late

\* What t still has to empty.
ToEmpty(t) == IF pc[t].at \in {"nuke", "give"} THEN Range(pc[t].left) ELSE {}

Exposed(e) == ~driver \/ (e # "ep0" /\ e \notin desc)

\* While the controller stops, what the core has still to empty is in its hand.
StrandInv ==
  /\ \A e \in Ep : Exposed(e) => AllLate(e) \/ \E t \in Thread : e \in ToEmpty(t)
  /\ phase = "stopping" =>
       /\ pc["core"].at \in {"nuke", "give"} /\ pc["core"].left # <<>>
       /\ \A e \in Ep : AllLate(e) \/ e \in ToEmpty("core")

\* What t takes out leaves late requests late.
LEMMA TakesLate ==
  ASSUME QueueTypes, NEW t \in Thread, NEW e \in Ep, NEW i \in Nat, NEW left, Takes(t, e, i, left)
  PROVE  /\ \A f \in Ep : AllLate(f) => AllLate(f)'
         /\ ToEmpty(t)' = Range(left) /\ pc'[t].at = "give" /\ pc'[t].left = left
         /\ \A u \in Thread \ {t} : pc'[u] = pc[u] /\ ToEmpty(u)' = ToEmpty(u)
<1>1. \A j \in DOMAIN queue'[e] : \E a \in DOMAIN queue[e] : queue'[e][j] = queue[e][a]
  <2>1. /\ DOMAIN queue[e] = 1 .. Len(queue[e]) /\ Len(queue[e]) \in Nat
        /\ DOMAIN queue'[e] = 1 .. Len(queue'[e])
    BY LenProperties DEF QueueTypes, Takes
  <2> TAKE j \in DOMAIN queue'[e]
  <2>2. j \in 1 .. Len(queue[e]) - 1
    BY <2>1 DEF Takes
  <2>3. j \in DOMAIN queue[e] /\ j + 1 \in DOMAIN queue[e]
    BY <2>1, <2>2
  <2> QED  BY <2>2, <2>3 DEF Takes
<1>2. \A f \in Ep \ {e} : queue'[f] = queue[f]
  BY DEF Takes
<1>3. \A f \in Ep : AllLate(f) => AllLate(f)'
  BY <1>1, <1>2 DEF AllLate
<1>4. pc' = [pc EXCEPT ![t] = Giving(e, queue[e][i].req, left)] /\ DOMAIN pc = Thread
  BY DEF Takes, QueueTypes
<1>5. pc'[t].at = "give" /\ pc'[t].left = left /\ \A u \in Thread \ {t} : pc'[u] = pc[u]
  BY <1>4 DEF Giving
<1> QED  BY <1>3, <1>5 DEF ToEmpty

\* What nuke has not emptied it goes on emptying.
LEMMA NukeEmpties ==
  ASSUME QueueTypes, NEW t \in Thread, NEW eps \in Seq(Ep), Nuke(t, eps)
  PROVE  /\ \A f \in Ep : AllLate(f) => AllLate(f)'
         /\ \A f \in Range(eps) : AllLate(f)' \/ f \in ToEmpty(t)'
         /\ \A u \in Thread \ {t} : pc'[u] = pc[u] /\ ToEmpty(u)' = ToEmpty(u)
         /\ Busy(eps) => pc'[t].at = "give" /\ pc'[t].left # <<>>
<1> USE DEF QueueTypes
<1>0. DOMAIN eps = 1 .. Len(eps) /\ Len(eps) \in Nat /\ \A k \in DOMAIN eps : eps[k] \in Ep
  BY LenProperties, ElementOfSeq
<1>1. CASE ~Busy(eps) /\ Go(t, Idle) /\ UNCHANGED queue
  <2>1. \A u \in Thread \ {t} : pc'[u] = pc[u]
    BY <1>1 DEF Go
  <2>2. \A f \in Range(eps) : queue[f] = <<>>
    BY <1>1 DEF Busy, Range
  <2> QED  BY <1>1, <2>1, <2>2 DEF AllLate, ToEmpty
<1>2. ASSUME NEW k \in DOMAIN eps, queue[eps[k]] # <<>>, \A j \in 1 .. k - 1 : queue[eps[j]] = <<>>,
             queue' = [queue EXCEPT ![eps[k]] = Tail(@)],
             Go(t, Giving(eps[k], Head(queue[eps[k]]).req, Left(eps, k)))
      PROVE  /\ \A f \in Ep : AllLate(f) => AllLate(f)'
             /\ \A f \in Range(eps) : AllLate(f)' \/ f \in ToEmpty(t)'
             /\ \A u \in Thread \ {t} : pc'[u] = pc[u] /\ ToEmpty(u)' = ToEmpty(u)
             /\ pc'[t].at = "give" /\ pc'[t].left # <<>>
  <2>1. Takes(t, eps[k], 1, Left(eps, k))
    <3>1. queue[eps[k]] \in Seq(Queued) /\ eps[k] \in Ep
      BY <1>0
    <3>2. queue'[eps[k]] = Tail(queue[eps[k]]) /\ \A f \in Ep \ {eps[k]} : queue'[f] = queue[f]
      BY <1>0, <1>2
    <3>3. queue' \in [Ep -> Seq(Queued)]
      BY <1>2, <3>1, TailOf
    <3> DEFINE q == queue[eps[k]]
    <3>4. q \in Seq(Queued) /\ q # <<>> /\ queue'[eps[k]] = Tail(q)
      BY <1>2, <3>1, <3>2
    <3>5. pc' = [pc EXCEPT ![t] = Giving(eps[k], Head(q).req, Left(eps, k))]
      BY <1>2 DEF Go
    <3> HIDE DEF q
    <3>6. /\ 1 \in DOMAIN q /\ Len(queue'[eps[k]]) = Len(q) - 1
          /\ \A j \in 1 .. Len(q) - 1 : queue'[eps[k]][j] = IF j < 1 THEN q[j] ELSE q[j + 1]
          /\ pc' = [pc EXCEPT ![t] = Giving(eps[k], q[1].req, Left(eps, k))]
      <4>1. /\ 1 \in DOMAIN q /\ Len(Tail(q)) = Len(q) - 1 /\ Head(q) = q[1]
            /\ \A j \in 1 .. Len(q) - 1 : Tail(q)[j] = IF j < 1 THEN q[j] ELSE q[j + 1]
        BY <3>4, TailOf, Zenon
      <4> QED  BY <3>4, <3>5, <4>1
    <3> DEFINE e == eps[k]
               left == Left(eps, k)
    <3>7. /\ 1 \in DOMAIN queue[e] /\ queue' \in [Ep -> Seq(Queued)]
          /\ \A f \in Ep \ {e} : queue'[f] = queue[f]
          /\ Len(queue'[e]) = Len(queue[e]) - 1
          /\ \A j \in 1 .. Len(queue[e]) - 1 :
               queue'[e][j] = IF j < 1 THEN queue[e][j] ELSE queue[e][j + 1]
          /\ pc' = [pc EXCEPT ![t] = Giving(e, queue[e][1].req, left)]
      BY <3>2, <3>3, <3>6, Zenon DEF q
    <3> HIDE DEF e, left
    <3>8. Takes(t, e, 1, left)
      BY <3>7, Zenon DEF Takes
    <3> QED  BY <3>8, Zenon DEF e, left
  <2>2. /\ \A f \in Ep : AllLate(f) => AllLate(f)'
        /\ ToEmpty(t)' = Range(Left(eps, k)) /\ pc'[t].at = "give" /\ pc'[t].left = Left(eps, k)
        /\ \A u \in Thread \ {t} : pc'[u] = pc[u] /\ ToEmpty(u)' = ToEmpty(u)
    <3>1. eps[k] \in Ep /\ 1 \in Nat
      BY <1>0
    <3> QED  BY <2>1, <3>1, TakesLate
  <2>3. /\ k \in 1 .. Len(eps) /\ Left(eps, k) \in Seq(Ep) /\ Len(Left(eps, k)) = Len(eps) - k + 1
        /\ \A j \in 1 .. Len(eps) - k + 1 : Left(eps, k)[j] = eps[k + j - 1]
    BY <1>0, SubSeqProperties DEF Left
  <2>4. DOMAIN Left(eps, k) = 1 .. Len(eps) - k + 1
    BY <2>3, LenProperties
  <2>5. Left(eps, k) # <<>>
    BY <1>0, <2>3, <2>4
  <2>6. ASSUME NEW j \in DOMAIN eps, j >= k
        PROVE  eps[j] \in Range(Left(eps, k))
    <3>1. j - k + 1 \in 1 .. Len(eps) - k + 1 /\ k + (j - k + 1) - 1 = j
      BY <1>0, <2>3, <2>6
    <3>2. Left(eps, k)[j - k + 1] = eps[j] /\ j - k + 1 \in DOMAIN Left(eps, k)
      BY <2>3, <2>4, <3>1
    <3> QED  BY <3>2 DEF Range
  <2>7. ASSUME NEW j \in DOMAIN eps, ~(j >= k)
        PROVE  AllLate(eps[j])'
    <3>1. j \in 1 .. k - 1
      BY <1>0, <2>3, <2>7
    <3>2. queue[eps[j]] = <<>> /\ eps[j] # eps[k] /\ eps[j] \in Ep
      BY <1>0, <1>2, <3>1
    <3>3. queue'[eps[j]] = <<>>
      BY <1>2, <3>2
    <3> QED  BY <3>3 DEF AllLate
  <2>8. \A f \in Range(eps) : AllLate(f)' \/ f \in ToEmpty(t)'
    <3> TAKE f \in Range(eps)
    <3>1. PICK j \in DOMAIN eps : f = eps[j]
      BY DEF Range
    <3> QED  BY <2>2, <2>6, <2>7, <3>1
  <2> QED  BY <2>2, <2>5, <2>8
<1> QED  BY <1>1, <1>2 DEF Nuke

\* A step that stops, disables and adds nothing.
StrandAside ==
  /\ phase' = "stopping" =>
       /\ phase = "stopping" /\ pc'["core"].at \in {"nuke", "give"}
       /\ pc'["core"].left = pc["core"].left
  /\ driver => driver'
  /\ desc \subseteq desc'
  /\ \A f \in Ep : AllLate(f) => AllLate(f)'
  /\ \A t \in Thread : ToEmpty(t)' = ToEmpty(t)

\* Such a step strands nothing.
LEMMA StrandAsideKeeps ==
  ASSUME StrandInv, StrandAside
  PROVE  StrandInv'
<1>1. \A e \in Ep : Exposed(e)' => Exposed(e)
  BY DEF Exposed, StrandAside
<1>2. "core" \in Thread
  BY DEF Thread
<1> QED  BY <1>1, <1>2 DEF StrandInv, StrandAside

\* What dummy_queue adds to an endpoint that is disabled or stopping is late.
LEMMA StrandAdd ==
  ASSUME HeldInv, CallbackInv, StrandInv, NEW t \in {"fn", "poll"}, QueueAdd(t)
  PROVE  StrandInv'
<1> USE DEF state, endpoints
<1>0. PICK e, r : e = pc[t].ep /\ r = pc[t].req
  OBVIOUS
<1>1. t \in Thread /\ pc[t].at = "queue" /\ e \in Ep /\ r \in Requests /\ DOMAIN pc = Thread
  BY <1>0 DEF HeldInv, QueueTypes, Place, QueueAdd, Thread
<1> DEFINE isLate == ~driver \/ phase = "stopping" \/ (e # "ep0" /\ e \notin desc)
<1>2. PICK x : queue' = [queue EXCEPT ![e] = Append(@, x)] /\ x.late = isLate
  <2> DEFINE q == IF FitsFifo(e, r) THEN "fifo" ELSE r
             x == [req |-> q, n |-> count + 1, late |-> isLate]
  <2>1. queue' = [queue EXCEPT ![e] = Append(@, x)]
    BY <1>0 DEF QueueAdd
  <2>2. x.late = isLate
    OBVIOUS
  <2> HIDE DEF x, isLate
  <2> QED  BY <2>1, <2>2
<1>3. UNCHANGED <<phase, driver, desc>>
  BY DEF QueueAdd
<1>4. queue[e] \in Seq(Queued) /\ queue'[e] = Append(queue[e], x) /\ \A f \in Ep \ {e} : queue'[f] = queue[f]
  BY <1>1, <1>2 DEF HeldInv, QueueTypes
<1>5. \A j \in DOMAIN queue'[e] : queue'[e][j] = x \/ \E k \in DOMAIN queue[e] : queue'[e][j] = queue[e][k]
  BY <1>4
<1>6. \A f \in Ep : AllLate(f) /\ (f = e => x.late) => AllLate(f)'
  BY <1>4, <1>5 DEF AllLate
<1>7. \A u \in Thread : ToEmpty(u)' = ToEmpty(u)
  <2>1. PICK place : pc' = [pc EXCEPT ![t] = place] /\ (place = Idle \/ place = Giving(e, r, <<>>))
    BY <1>0 DEF QueueAdd, Go
  <2>2. pc'[t] = place /\ \A u \in Thread \ {t} : pc'[u] = pc[u]
    BY <1>1, <2>1
  <2>3. (IF place.at \in {"nuke", "give"} THEN Range(place.left) ELSE {}) = {}
    BY <2>1 DEF Idle, Giving, Range
  <2>4. ToEmpty(t) = {} /\ ToEmpty(t)' = {}
    BY <1>1, <2>2, <2>3 DEF ToEmpty
  <2> QED  BY <2>2, <2>4 DEF ToEmpty
<1>8. t # "core" /\ "core" \in Thread /\ pc'["core"] = pc["core"]
  BY <1>1 DEF QueueAdd, Go, Thread
<1>9. \A f \in Ep : Exposed(f)' <=> Exposed(f)
  BY <1>3 DEF Exposed
<1>10. Exposed(e) \/ phase = "stopping" => x.late
  BY <1>2 DEF Exposed
<1> QED  BY <1>3, <1>6, <1>7, <1>8, <1>9, <1>10 DEF StrandInv

\* Every step keeps what StrandInv says.
LEMMA StrandStep ==
  ASSUME HeldInv, CallbackInv, StrandInv, [Next]_vars
  PROVE  StrandInv'
<1> USE DEF state, device, endpoints, requests
<1>0. DOMAIN pc = Thread /\ QueueTypes /\ "core" \in Thread /\ "poll" \in Thread /\ Range(<<>>) = {}
  BY DEF HeldInv, QueueTypes, Thread, Range
<1>1. StrandAside => StrandInv'
  BY StrandAsideKeeps
<1>2. ASSUME UNCHANGED <<queue, pc>>, phase' = "stopping" => phase = "stopping", driver => driver',
             desc \subseteq desc'
      PROVE  StrandInv'
  <2>1. /\ \A f \in Ep : AllLate(f) => AllLate(f)'
        /\ \A t \in Thread : ToEmpty(t)' = ToEmpty(t)
    BY <1>2 DEF AllLate, ToEmpty
  <2> QED  BY <1>1, <1>2, <2>1 DEF StrandAside, StrandInv
<1>3. ASSUME NEW t \in {"fn", "poll"}, NEW e \in Ep, NEW i \in Nat, Takes(t, e, i, <<>>),
             pc[t].at = "idle", UNCHANGED <<phase, driver, desc>>
      PROVE  StrandInv'
  <2>1. t \in Thread /\ t # "core"
    BY DEF Thread
  <2>2. /\ \A f \in Ep : AllLate(f) => AllLate(f)'
        /\ ToEmpty(t)' = Range(<<>>)
        /\ \A u \in Thread \ {t} : pc'[u] = pc[u] /\ ToEmpty(u)' = ToEmpty(u)
    BY <1>0, <1>3, <2>1, TakesLate
  <2>3. ToEmpty(t) = {}
    BY <1>3 DEF ToEmpty
  <2> QED  BY <1>0, <1>1, <1>3, <2>1, <2>2, <2>3 DEF StrandAside, StrandInv
<1>4. ASSUME NEW t \in {"fn", "poll"}, Operation(t)
      PROVE  StrandInv'
  <2>0. t \in Thread /\ t # "core"
    BY DEF Thread
  <2>1. PICK e \in Ep :
           \/ \E r \in Requests : QueueCheck(t, e, r) \/ Dequeue(t, e, r)
           \/ Enable(t, e) \/ Disable(t, e)
           \/ \E value \in {0, 1} : SetHalt(t, e, value)
    BY <1>4 DEF Operation
  <2>2. MayCall(t) /\ UNCHANGED <<phase, driver>>
    BY <2>1 DEF QueueCheck, Dequeue, Enable, Disable, SetHalt
  <2>3. pc[t].at = "idle"
    BY <2>2 DEF MayCall, Idle
  <2>4. ASSUME NEW r \in Requests, QueueCheck(t, e, r)
        PROVE  StrandInv'
    <3>1. /\ pc' = [pc EXCEPT ![t] = [at |-> "queue", ep |-> e, req |-> r]] /\ UNCHANGED <<queue, desc>>
      BY <2>4 DEF QueueCheck, Go
    <3>2. pc'[t].at = "queue" /\ \A u \in Thread \ {t} : pc'[u] = pc[u]
      BY <1>0, <2>0, <3>1
    <3>3. /\ \A f \in Ep : AllLate(f) => AllLate(f)'
          /\ \A u \in Thread : ToEmpty(u)' = ToEmpty(u)
      BY <2>3, <3>1, <3>2 DEF AllLate, ToEmpty
    <3> QED  BY <1>0, <1>1, <2>0, <2>2, <3>1, <3>2, <3>3 DEF StrandAside, StrandInv
  <2>5. ASSUME NEW r \in Requests, Dequeue(t, e, r)
        PROVE  StrandInv'
    <3>1. PICK i \in Nat : Takes(t, e, i, <<>>)
      BY <2>0, <2>5, TakesOne
    <3>2. UNCHANGED desc
      BY <2>5 DEF Dequeue
    <3> QED  BY <1>3, <2>2, <2>3, <3>1, <3>2
  <2>6. CASE Disable(t, e)
    <3>1. desc' = desc \ {e} /\ Nuke(t, <<e>>)
      BY <2>6 DEF Disable
    <3>2. /\ \A f \in Ep : AllLate(f) => AllLate(f)'
          /\ \A f \in Range(<<e>>) : AllLate(f)' \/ f \in ToEmpty(t)'
          /\ \A u \in Thread \ {t} : pc'[u] = pc[u] /\ ToEmpty(u)' = ToEmpty(u)
      BY <1>0, <2>0, <3>1, Endpoint, NukeEmpties
    <3>3. e \in Range(<<e>>)
      BY DEF Range
    <3>4. \A f \in Ep \ {e} : Exposed(f)' => Exposed(f)
      BY <2>2, <3>1 DEF Exposed
    <3>5. ToEmpty(t) = {}
      BY <2>3 DEF ToEmpty
    <3> QED  BY <1>0, <2>0, <2>2, <3>2, <3>3, <3>4, <3>5 DEF StrandInv
  <2>7. CASE Enable(t, e) \/ \E value \in {0, 1} : SetHalt(t, e, value)
    BY <1>2, <2>7 DEF Enable, SetHalt
  <2> QED  BY <2>1, <2>4, <2>5, <2>6, <2>7
<1>5. ASSUME NEW t \in Thread, Continue(t)
      PROVE  StrandInv'
  <2>1. CASE QueueAdd(t)
    <3>1. t # "core"
      BY <2>1 DEF QueueAdd, CallbackInv, CoreStops
    <3> QED  BY <2>1, <3>1, StrandAdd DEF Thread
  <2>2. CASE Give(t)
    <3>1. PICK place : /\ pc' = [pc EXCEPT ![t] = place]
                       /\ place = IF pc[t].left = <<>> THEN Idle ELSE [at |-> "nuke", left |-> pc[t].left]
      BY <2>2 DEF Give, Go
    <3>2. pc'[t] = place /\ (\A u \in Thread \ {t} : pc'[u] = pc[u]) /\ pc[t].at = "give"
      BY <1>0, <2>2, <3>1 DEF Give
    <3>3. UNCHANGED <<queue, desc, driver, phase>>
      BY <2>2 DEF Give
    <3>4. /\ \A f \in Ep : AllLate(f) => AllLate(f)'
          /\ \A u \in Thread \ {t} : ToEmpty(u)' = ToEmpty(u)
      BY <3>2, <3>3 DEF AllLate, ToEmpty
    <3>5. CASE pc[t].left = <<>>
      <4>1. ToEmpty(t)' = ToEmpty(t)
        BY <1>0, <3>1, <3>2, <3>5 DEF ToEmpty, Idle
      <4> QED  BY <1>0, <1>1, <3>2, <3>3, <3>4, <3>5, <4>1 DEF StrandAside, StrandInv
    <3>6. CASE pc[t].left # <<>>
      <4>1. pc'[t].at = "nuke" /\ pc'[t].left = pc[t].left
        BY <3>1, <3>2, <3>6
      <4>2. ToEmpty(t)' = ToEmpty(t)
        BY <3>2, <4>1 DEF ToEmpty
      <4> QED  BY <1>0, <1>1, <3>2, <3>3, <3>4, <4>1, <4>2 DEF StrandAside, StrandInv
    <3> QED  BY <3>5, <3>6
  <2>3. CASE NukeOn(t)
    <3>1. /\ pc[t].at = "nuke" /\ Nuke(t, pc[t].left) /\ UNCHANGED desc
          /\ driver' = (driver /\ (t = "core" => Busy(pc[t].left)))
          /\ phase' = IF t = "core" /\ ~Busy(pc[t].left) THEN "unbound" ELSE phase
      BY <2>3 DEF NukeOn
    <3>2. pc[t].left \in Seq(Ep)
      BY <3>1 DEF HeldInv, QueueTypes, Place
    <3>3. /\ \A f \in Ep : AllLate(f) => AllLate(f)'
          /\ \A f \in Range(pc[t].left) : AllLate(f)' \/ f \in ToEmpty(t)'
          /\ \A u \in Thread \ {t} : pc'[u] = pc[u] /\ ToEmpty(u)' = ToEmpty(u)
          /\ Busy(pc[t].left) => pc'[t].at = "give" /\ pc'[t].left # <<>>
      BY <1>0, <3>1, <3>2, NukeEmpties
    <3>4. ToEmpty(t) = Range(pc[t].left)
      BY <3>1 DEF ToEmpty
    <3>5. \A f \in Ep, u \in Thread : AllLate(f) \/ f \in ToEmpty(u) => AllLate(f)' \/ f \in ToEmpty(u)'
      BY <3>3, <3>4
    <3>6. CASE t # "core" \/ Busy(pc[t].left)
      <4>1. \A f \in Ep : Exposed(f)' => Exposed(f)
        BY <3>1, <3>6 DEF Exposed
      <4>2. phase' = phase
        BY <3>1, <3>6
      <4>3. phase = "stopping" => pc'["core"].at \in {"nuke", "give"} /\ pc'["core"].left # <<>>
        BY <1>0, <3>3, <3>6 DEF StrandInv
      <4>4. \A f \in Ep : Exposed(f)' => AllLate(f)' \/ \E u \in Thread : f \in ToEmpty(u)'
        BY <3>5, <4>1 DEF StrandInv
      <4>5. phase = "stopping" => \A f \in Ep : AllLate(f)' \/ f \in ToEmpty("core")'
        BY <1>0, <3>5 DEF StrandInv
      <4> QED  BY <4>2, <4>3, <4>4, <4>5 DEF StrandInv
    <3>7. CASE t = "core" /\ ~Busy(pc[t].left)
      <4>1. phase = "stopping" /\ phase' = "unbound"
        BY <3>1, <3>7 DEF CallbackInv, CoreStops
      <4> QED  BY <1>0, <3>5, <4>1 DEF StrandInv
    <3> QED  BY <3>6, <3>7
  <2> QED  BY <1>5, <2>1, <2>2, <2>3 DEF Continue
<1>6. ASSUME NEW e \in Ep, Poll(e)
      PROVE  StrandInv'
  <2>1. Takes("poll", e, 1, <<>>)
    BY <1>0, <1>6, TakesOne
  <2>2. pc["poll"].at = "idle" /\ UNCHANGED <<phase, driver, desc>>
    BY <1>6 DEF Poll, Waiting, Idle
  <2> QED  BY <1>3, <2>1, <2>2
<1>7. CASE Stop
  <2>1. Nuke("core", Endpoints) /\ phase' = (IF Busy(Endpoints) THEN "stopping" ELSE "unbound")
    BY <1>7 DEF Stop
  <2>2. /\ \A f \in Range(Endpoints) : AllLate(f)' \/ f \in ToEmpty("core")'
        /\ Busy(Endpoints) => pc'["core"].at = "give" /\ pc'["core"].left # <<>>
    BY <1>0, <2>1, AllEndpoints, NukeEmpties
  <2> QED  BY <1>0, <2>1, <2>2 DEF StrandInv, Ep
<1>8. CASE CreateData
  <2>1. queue' = [e \in Ep |-> <<>>] /\ UNCHANGED <<pc, phase>>
    BY <1>8 DEF CreateData
  <2>2. \A f \in Ep : AllLate(f)'
    BY <2>1 DEF AllLate
  <2> QED  BY <2>1, <2>2 DEF StrandInv
<1>9. CASE \/ SetupComes \/ HostAsksStatus \/ SetupEnters \/ SetupEnds
           \/ \E e \in Ep : HostHalts(e) \/ HostClearsHalt(e)
  BY <1>2, <1>9 DEF SetupComes, HostAsksStatus, SetupEnters, SetupEnds, HostHalts, HostClearsHalt
<1>10. CASE \/ Start \/ PullupOn \/ PullupOff \/ PullupWait
            \/ CreateEvent \/ AddGadget \/ RunThread \/ Removal \/ ThreadEnds \/ DelGadget \/ Close
  BY <1>2, <1>10 DEF Start, PullupOn, PullupOff, PullupWait, CreateEvent, AddGadget, RunThread,
              Removal, ThreadEnds, DelGadget, Close, others
<1>11. CASE UNCHANGED vars
  BY <1>2, <1>11 DEF vars
<1> QED
  BY <1>4, <1>5, <1>6, <1>7, <1>8, <1>9, <1>10, <1>11 DEF Next, Packet, Core, Device

\* Disable and the stop empty what they say they empty, though each giveback lets the
\* others at the queues: what is left there was added too late to be found.
THEOREM QueuesEmptied == Spec => []NothingStranded
<1>1. Init => StrandInv
  BY DEF Init, StrandInv, AllLate, Thread
<1>2. HeldInv /\ CallbackInv /\ StrandInv /\ [Next]_vars => StrandInv'
  BY StrandStep
<1>3. StrandInv => NothingStranded
  BY DEF StrandInv, NothingStranded, Emptying, ToEmpty, AllLate, Exposed
<1> QED
  BY <1>1, <1>2, <1>3, RequestsInvariant, PTL DEF Spec
============================================================================
