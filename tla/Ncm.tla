-------------------------------- MODULE Ncm --------------------------------
(***************************************************************************)
(* The NCM network driver (modules/ncm/cdc_ncm.c) over one function: bind    *)
(* and unbind, transmission with its timer and tasklet, the sysfs stores     *)
(* that change sizes while it runs, and reception.                           *)
(***************************************************************************)
EXTENDS NcmBlock

CONSTANTS
  FrameLens,   \* lengths of the frames the stack sends
  RxMaxes, TxMaxes,  \* values written to rx_max and tx_max
  Mtus,        \* values of an MTU change
  Stores,      \* which sysfs stores run: "rx", "tx", "minpkt", "timer", "end", "mtu"
  Blocks,      \* the blocks a device sends
  Memory,      \* what alloc_skb may answer: {TRUE} or BOOLEAN
  RxMemory,    \* how many datagram allocations of a block may succeed
  NdpToEnd,    \* values of CDC_NCM_FLAG_NDP_TO_END in the driver's table
  Notices,     \* what the device notifies: "up", "down", "speed", "halves", "short"
  MaxEvents    \* bound: frames, stores and received blocks together

\* What a device sends: every size and every offset in it is unsigned.
BlockTyped(b) ==
  /\ b # None /\ b.ndp16 \in BOOLEAN /\ b.sign \in BOOLEAN
  /\ b.len \in Nat /\ b.block \in Nat /\ b.ndp \in Nat
  /\ \A o \in DOMAIN b.tables :
       LET t == b.tables[o]
       IN /\ o \in Nat /\ t.sign \in BOOLEAN /\ t.next \in Nat /\ t.wLength \in Nat
          /\ t.entries \in Seq([id : Nat, off : Nat, len : Nat])

\* The sizes a device asks for and those written by a store are unsigned; an
\* endpoint without a packet size is not used; a frame has an Ethernet header.
ASSUME NcmAssumption ==
  /\ \A d \in Devices :
       /\ d.dwNtbInMaxSize \in Nat /\ d.dwNtbOutMaxSize \in Nat /\ d.wMaxSegmentSize \in Nat
       /\ d.wNdpOutDivisor \in Nat /\ d.wNdpOutPayloadRemainder \in Nat
       /\ d.wNdpOutAlignment \in Nat
  /\ RxMaxes \subseteq Nat /\ TxMaxes \subseteq Nat
  /\ FrameLens \subseteq Nat \ {0} /\ (\A len \in FrameLens : EthHlen <= len)
  /\ (\A b \in Blocks : BlockTyped(b)) /\ RxMemory \subseteq Nat /\ LoopMax \in Nat
  /\ NdpToEnd \subseteq BOOLEAN
  /\ MaxPacket \in Nat \ {0} /\ InitialMtu \in Nat

VARIABLES
  phase,   \* "none", "claim", "bound" (netdev down), "up", "stop", "cancel", "kill",
           \* "gone"
  device,  \* the descriptors, once bound
  claimed, \* the data interface is claimed
  ctx,     \* the sizes of NcmParams
  tx,      \* the transmit side of NcmBlock
  out,     \* the block sent by the last call that could send one
  sent,    \* history: the frames sent, in order
  issued,  \* history: the number of frames taken
  pending, \* tx_timer_pending
  timer,   \* tx_timer is running
  sched,   \* the tasklet is scheduled
  bh,      \* the tasklet: "idle", "start" (between 1480 and 1481), "flush" (1508)
  stop,    \* ctx->stop
  sysfs,   \* a store between 463 and 471
  up,      \* history: the last block received and what rx_fixup made of it
  link,    \* the interrupt endpoint, see NoLink
  events

vars == <<phase, device, claimed, ctx, tx, out, sent, issued, pending, timer,
          sched, bh, stop, sysfs, up, link, events>>

NoCtx == [is_ndp16 |-> TRUE]
NoUp == [block |-> None, ok |-> TRUE, got |-> <<>>, mem |-> 0, max |-> 0]

\* split: EVENT_STS_SPLIT.  carrier: netif_carrier_ok.  The device: said is the
\* state it announced last, half "first" or "second" if it has to send that half of
\* a speed change, since counts the announcements after a half was lost, up to 2.
NoLink == [split |-> FALSE, carrier |-> FALSE, said |-> FALSE, half |-> "none", since |-> 2]

Init ==
  /\ phase = "none" /\ device = None /\ claimed = FALSE /\ ctx = NoCtx
  /\ tx = NewTx /\ out = None /\ sent = <<>> /\ issued = 0
  /\ pending = 0 /\ timer = FALSE /\ sched = FALSE /\ bh = "idle" /\ stop = FALSE
  /\ sysfs = FALSE /\ up = NoUp /\ link = NoLink /\ events = 0

timing == <<pending, timer, sched, bh, stop>>
wire == <<out, sent>>

Event == events < MaxEvents /\ events' = events + 1

-----------------------------------------------------------------------------
(* Binding *)

\* cdc_ncm_bind leaves a function that prefers MBIM alone.
Binds(d) == \E prefer \in BOOLEAN : SelectAltsetting(d, prefer) = 0

\* cdc_ncm_bind_common claims the data interface; a failure before that leaves
\* nothing behind.
BindClaims ==
  /\ phase = "none" /\ phase' = "claim" /\ claimed' = TRUE
  /\ \E d \in Devices : Binds(d) /\ device' = d
  /\ UNCHANGED <<ctx, tx, issued, sysfs, up, link, events>>
  /\ UNCHANGED timing /\ UNCHANGED wire

\* error2: whatever fails after that releases it and frees the context.
BindFails ==
  /\ phase = "claim" /\ Event /\ phase' = "none" /\ claimed' = FALSE
  /\ UNCHANGED <<device, ctx, tx, issued, sysfs, up, link>>
  /\ UNCHANGED timing /\ UNCHANGED wire

\* prefer32, formatSet: the driver flag and the answer to SET_NTB_FORMAT; heard:
\* the device took SET_NTB_INPUT_SIZE.
Bind ==
  /\ phase = "claim" /\ phase' = "bound"
  /\ \A k \in {"status", "in", "out"} : Endpoints(device)[k] # 0
  /\ \E prefer32, formatSet, heard \in BOOLEAN, toEnd \in NdpToEnd :
       ctx' = Setup(InitCtx(device, prefer32, formatSet, toEnd), device, heard)
  /\ tx' = NewTx /\ stop' = FALSE
  /\ UNCHANGED <<device, claimed, issued, pending, timer, sched, bh, sysfs, up, link, events>>
  /\ UNCHANGED wire

Open ==
  /\ phase = "bound" /\ phase' = "up"
  /\ UNCHANGED <<device, claimed, ctx, tx, issued, sysfs, up, link, events>>
  /\ UNCHANGED timing /\ UNCHANGED wire

\* The netdev is unregistered first: no frame, no store from here on.
UnbindStop ==
  /\ phase \in {"bound", "up"} /\ ~sysfs
  /\ phase' = "stop" /\ stop' = TRUE
  /\ UNCHANGED <<device, claimed, ctx, tx, issued, pending, timer, sched, bh, sysfs,
                 up, link, events>> /\ UNCHANGED wire

HrtimerCancel ==
  /\ phase = "stop" /\ phase' = "cancel" /\ timer' = FALSE
  /\ UNCHANGED <<device, claimed, ctx, tx, issued, pending, sched, bh, stop, sysfs,
                 up, link, events>> /\ UNCHANGED wire

TaskletKillHasty ==
  /\ phase = "cancel" /\ bh = "idle" /\ phase' = "kill"
  /\ UNCHANGED <<device, claimed, ctx, tx, issued, sysfs, up, link, events>>
  /\ UNCHANGED timing /\ UNCHANGED wire

\* tasklet_kill waits for a scheduled tasklet to run.
TaskletKill ==
  /\ phase = "cancel" /\ ~sched /\ bh = "idle" /\ phase' = "kill"
  /\ UNCHANGED <<device, claimed, ctx, tx, issued, sysfs, up, link, events>>
  /\ UNCHANGED timing /\ UNCHANGED wire

\* The interfaces are released and cdc_ncm_free drops what was not sent.
UnbindFree ==
  /\ phase = "kill" /\ phase' = "gone"
  /\ claimed' = FALSE /\ tx' = NewTx
  /\ UNCHANGED <<device, ctx, issued, sysfs, up, link, events>>
  /\ UNCHANGED timing /\ UNCHANGED wire

-----------------------------------------------------------------------------
(* Transmission: every call runs under netif_tx_lock and ctx->mtx *)

\* hrtimer_active() || stop
MayArm == ~timer /\ ~stop

\* The block r.out, if any, goes to the device.
Sends(r) ==
  /\ out' = r.out
  /\ sent' = IF r.out = None THEN sent
             ELSE sent \o [i \in DOMAIN r.out.dgrams |-> r.out.dgrams[i].id]

\* The pending count and the timer that go with n collected datagrams.
Paces(n) ==
  /\ pending' = IF n \in 1 .. 2 THEN 2 ELSE pending
  /\ timer' = (timer \/ (n > 0 /\ MayArm))

Held(t) == IF t.cur = None THEN 0 ELSE Len(t.cur.dgrams)

Filled(r) == tx' = r.t /\ Sends(r) /\ Paces(Held(r.t))

\* The block's header has an index.
Indexed(s) == s # None /\ s.ndp # 0

\* What a call of cdc_ncm_fill_tx_frame leaves.  c: the sizes in force.
Fill(c, skb) ==
  \E first, second \in Memory : Filled(FillTxFrame(c, tx, skb, first, second))

Xmit ==
  /\ phase = "up" /\ Event /\ bh # "start"
  /\ \E len \in FrameLens :
       /\ len <= ctx.mtu + EthHlen
       /\ Fill(ctx, [id |-> issued + 1, len |-> len])
  /\ issued' = issued + 1
  /\ UNCHANGED <<phase, device, claimed, ctx, sched, bh, stop, sysfs, up, link>>

TimerFires ==
  /\ timer /\ timer' = FALSE
  /\ sched' = (sched \/ ~stop)
  /\ UNCHANGED <<phase, device, claimed, ctx, tx, issued, pending, bh, stop, sysfs,
                 up, link, events>> /\ UNCHANGED wire

\* cdc_ncm_txpath_bh: wait another turn, or flush.
WaitTurnIdle == pending' = pending - 1 /\ bh' = "idle"

WaitTurnAgain == pending' = pending /\ bh' = IF MayArm THEN "start" ELSE "idle"

WaitTurn == pending' = pending - 1 /\ bh' = IF MayArm THEN "start" ELSE "idle"

BhRuns ==
  /\ sched /\ bh = "idle" /\ sched' = FALSE
  /\ IF pending # 0 THEN WaitTurn ELSE bh' = "flush" /\ UNCHANGED pending
  /\ UNCHANGED <<phase, device, claimed, ctx, tx, issued, timer, stop, sysfs,
                 up, link, events>> /\ UNCHANGED wire

BhStartsTimer ==
  /\ bh = "start" /\ bh' = "idle" /\ timer' = TRUE
  /\ UNCHANGED <<phase, device, claimed, ctx, tx, issued, pending, sched, stop, sysfs,
                 up, link, events>> /\ UNCHANGED wire

BhFlushes ==
  /\ bh = "flush" /\ bh' = "idle"
  /\ Fill(ctx, None)
  /\ UNCHANGED <<phase, device, claimed, ctx, issued, sched, stop, sysfs, up, link, events>>

-----------------------------------------------------------------------------
(* The sysfs stores *)

Storing(s) == phase \in {"bound", "up"} /\ s \in Stores /\ ~sysfs /\ Event

\* cdc_ncm_update_rxtx_max.  A larger tx_max while the net device runs flushes
\* what was collected and drops an empty block under netif_tx_lock.
Flushed(r) == tx' = [r.t EXCEPT !.cur = None] /\ Sends(r)

Resized(c) ==
  /\ ctx' = c
  /\ IF phase = "up" /\ c.tx_max > ctx.tx_max
     THEN bh # "start" /\ \E first, second \in Memory :
                            Flushed(FillTxFrame(ctx, tx, None, first, second))
     ELSE UNCHANGED <<tx, out, sent>>

UpdateRxTxMax(rx, txMax) ==
  /\ \E heard \in BOOLEAN : Resized(UpdateMax(ctx, device, rx, txMax, heard))
  /\ sysfs' = TRUE
  /\ UNCHANGED <<phase, device, claimed, issued, up, link>> /\ UNCHANGED timing

RxMaxStore ==
  /\ Storing("rx")
  /\ \E val \in RxMaxes : CheckRxMax(device, val) = val /\ UpdateRxTxMax(val, ctx.tx_max)

TxMaxStore ==
  /\ Storing("tx")
  /\ \E val \in TxMaxes : CheckTxMax(ctx, device, val) = val /\ UpdateRxTxMax(ctx.rx_max, val)

\* The last statement of cdc_ncm_update_rxtx_max runs without a lock.
StoreEnds ==
  /\ sysfs /\ sysfs' = FALSE /\ ctx' = UpdateMinTxPkt(ctx)
  /\ UNCHANGED <<phase, device, claimed, tx, issued, up, link, events>>
  /\ UNCHANGED timing /\ UNCHANGED wire

MinTxPktStore ==
  /\ Storing("minpkt") /\ ctx' = [ctx EXCEPT !.min_tx_pkt = 0]
  /\ UNCHANGED <<phase, device, claimed, tx, issued, sysfs, up, link>>
  /\ UNCHANGED timing /\ UNCHANGED wire

\* Coalescing off or on; off forgets the pending count.
TimerStore ==
  /\ Storing("timer") /\ bh # "start"
  /\ ctx' = [ctx EXCEPT !.timer = ~@]
  /\ pending' = IF ctx'.timer THEN pending ELSE 0
  /\ UNCHANGED <<phase, device, claimed, tx, issued, timer, sched, bh, stop, sysfs, up, link>>
  /\ UNCHANGED wire

\* What was collected goes out under the old flag, also when it was on already: the
\* test for no change compares a bool with the bit.  An empty block stays.
NdpToEndStore ==
  /\ Storing("end") /\ bh # "start"
  /\ \E enable \in BOOLEAN, first, second \in Memory :
       LET r == FillTxFrame(ctx, tx, None, first, second)
       IN /\ (enable \/ ctx.toEnd) /\ ctx' = [ctx EXCEPT !.toEnd = enable]
          /\ tx' = [r.t EXCEPT !.turned = @ \/ (enable # ctx.toEnd /\ Indexed(r.t.cur))]
          /\ Sends(r) /\ Paces(Held(r.t))
  /\ UNCHANGED <<phase, device, claimed, issued, sched, bh, stop, sysfs, up, link>>

ChangeMtu ==
  /\ Storing("mtu")
  /\ \E mtu \in Mtus :
       /\ mtu \in 0 .. (device.wMaxSegmentSize - EthHlen)
       /\ ctx' = SetDgramSize([ctx EXCEPT !.mtu = mtu], device, mtu + EthHlen)
  /\ UNCHANGED <<phase, device, claimed, tx, issued, sysfs, up, link>>
  /\ UNCHANGED timing /\ UNCHANGED wire

-----------------------------------------------------------------------------
(* Reception *)

Taken(c, b, mem, r) ==
  [block |-> b, ok |-> r.ok, got |-> r.up, mem |-> mem, max |-> c.rx_max]

\* A block in the format that was agreed on, of which mem datagrams find memory.
Receive ==
  /\ phase = "up" /\ Event
  /\ \E b \in {x \in Blocks : x.ndp16 = ctx.is_ndp16}, mem \in RxMemory :
       up' = Taken(ctx, b, mem, RxFixup(ctx, b, mem))
  /\ UNCHANGED <<phase, device, claimed, ctx, tx, issued, sysfs, link>>
  /\ UNCHANGED timing /\ UNCHANGED wire

Speaks(half) == phase = "up" /\ link.half = half

NotifyConnectionSticky ==
  /\ Speaks("none")
  /\ \E state \in Notices \cap {"up", "down"} :
       link' = [link EXCEPT !.said = (state = "up"), !.since = Lower(@ + 1, 2),
                            !.carrier = IF link.split THEN @ ELSE state = "up"]

\* cdc_ncm_status: the network connection.  After a half speed change the
\* notification is taken for the other half, whatever it is.
NotifyConnection ==
  /\ Speaks("none")
  /\ \E state \in Notices \cap {"up", "down"} :
       link' = [link EXCEPT !.said = (state = "up"), !.split = FALSE,
                            !.carrier = IF link.split THEN @ ELSE state = "up",
                            !.since = Lower(@ + 1, 2)]

\* A speed change in one piece, a notification of another type, and one that is
\* too short and not even looked at.
NotifyOther ==
  /\ Speaks("none")
  /\ \/ "speed" \in Notices /\ link' = [link EXCEPT !.split = FALSE]
     \/ "short" \in Notices /\ link' = link

\* A device with 8 byte packets sends the speed change in two; the second half
\* alone is of no known type.
NotifyHalf ==
  \/ /\ Speaks("none") /\ "halves" \in Notices
     /\ link' = [link EXCEPT !.half = "first"]
  \/ /\ Speaks("first")
     /\ link' = [link EXCEPT !.half = "second", !.split = ~@]
  \/ /\ Speaks("second")
     /\ link' = [link EXCEPT !.half = "none", !.split = FALSE]

\* The transfer of a half fails.
LoseHalf ==
  /\ phase = "up" /\ link.half # "none"
  /\ link' = [link EXCEPT !.half = IF @ = "first" THEN "second" ELSE "none", !.since = 0]

Status ==
  /\ NotifyConnection \/ NotifyOther \/ NotifyHalf \/ LoseHalf
  /\ UNCHANGED <<phase, device, claimed, ctx, tx, issued, sysfs, up, events>>
  /\ UNCHANGED timing /\ UNCHANGED wire

Store == RxMaxStore \/ TxMaxStore \/ StoreEnds \/ MinTxPktStore \/ TimerStore
         \/ NdpToEndStore \/ ChangeMtu

Bh == BhRuns \/ BhStartsTimer \/ BhFlushes

Next ==
  \/ BindClaims \/ BindFails \/ Bind \/ Open
  \/ UnbindStop \/ HrtimerCancel \/ TaskletKill \/ UnbindFree
  \/ Xmit \/ TimerFires \/ Bh \/ Store \/ Receive \/ Status

Spec == Init /\ [][Next]_vars

\* Timers expire and tasklets run.  Frames and stores come as they like.
FairSpec == Spec /\ WF_vars(TimerFires) /\ WF_vars(Bh)

-----------------------------------------------------------------------------
Bound == phase \in {"bound", "up", "stop", "cancel", "kill"}

Collected == IF tx.cur = None THEN <<>> ELSE [i \in DOMAIN tx.cur.dgrams |-> tx.cur.dgrams[i].id]

Kept == IF tx.rem = None THEN <<>> ELSE <<tx.rem.id>>

\* Every type that is not fixed by construction: counters stay in their range.  A
\* device that refuses the new input size keeps the one it asked for, of any value.
TypeOK ==
  /\ phase \in {"none", "claim", "bound", "up", "stop", "cancel", "kill", "gone"}
  /\ tx.lowVal \in 0 .. 10 /\ tx.lowMax \in 0 .. 10 /\ pending \in 0 .. 2
  /\ phase \in {"bound", "up"} =>
       /\ ctx.rx_max \in Nat /\ ctx.tx_max \in 0 .. NtbMax + 1
       /\ ctx.min_tx_pkt \in 0 .. NtbMax - 1

\* No frame is lost, sent twice or overtaken: what was taken is sent, collected,
\* kept for the next block or counted in tx_dropped, whatever fails to be
\* allocated, flushed early or resized under way (1228-1374, 450-463).
FramesAccounted ==
  Bound =>
    LET all == sent \o Collected \o Kept
    IN /\ \A i, j \in 1 .. Len(all) : i < j => all[i] < all[j]
       /\ {all[i] : i \in 1 .. Len(all)} \cup tx.dropped = 1 .. issued
       /\ \A i \in 1 .. Len(all) : all[i] \notin tx.dropped

Ends(d) == d.off + d.len

\* The payload itself (behind its Ethernet header) sits where the device's
\* wNdpOutPayloadRemainder asks for it.
PayloadAt(d) ==
  LET mod == ctx.tx_modulus
      rem == device.wNdpOutPayloadRemainder
  IN (d.off + EthHlen) % mod = IF rem < mod THEN rem ELSE 0

\* A block that is sent is no longer than was allocated, its payloads and its
\* table are aligned as the device asked and do not overlap, and there are no
\* more datagrams than the device takes (1295-1446).  Two exceptions.  A table that
\* ends the block may miss its alignment: the room kept for it is reckoned without
\* the alignment of a frame that then found no room (1219-1223, 1314).  And the header
\* may not lead to the table, if ndp_to_end was changed under a block in which
\* nothing had found room: the flush of the store (342-344) sends no empty block.
BlockWellFormed ==
  out # None /\ Bound =>
    /\ out.len <= out.size
    /\ Len(out.dgrams) \in 1 .. ctx.tx_max_datagrams
    /\ ~tx.turned => out.ndp = out.table
    /\ \/ out.table % ctx.tx_ndp_modulus = 0
       \/ out.table + ctx.max_ndp_size = out.size
    /\ out.table >= Nth(ctx) /\ out.table + ctx.max_ndp_size <= out.len
    /\ \A i \in DOMAIN out.dgrams :
         LET d == out.dgrams[i]
         IN /\ PayloadAt(d)
            /\ Ends(d) <= out.len
            /\ d.off >= out.table + ctx.max_ndp_size \/ Ends(d) <= out.table
            /\ i > 1 => Ends(out.dgrams[i - 1]) <= d.off
            /\ d.off >= Nth(ctx)

\* Reader and writer agree on the format: what cdc_ncm_rx_fixup would take from a
\* block that cdc_ncm_fill_tx_frame built is the frames that went into it, if the
\* reader takes blocks of that size.
ReadBack ==
  out # None /\ Bound /\ ~tx.turned =>
    RxFixup([ctx EXCEPT !.rx_max = out.size], Received(ctx, out), 100) =
      [ok |-> TRUE, up |-> out.dgrams]

\* The largest datagram the device may ever be sent, and what it takes in a block
\* with the header, the table, wherever it goes, and every alignment.
LargestDatagram == Clamp(device.wMaxSegmentSize, MinDatagram, MaxDatagram)

Needed(c) ==
  Nth(c) + c.max_ndp_size + Upper(c.tx_ndp_modulus, c.tx_modulus + c.tx_remainder)
  + c.tx_modulus + c.tx_remainder + LargestDatagram

\* The size of the block in hand or of the next one.
BlockSize == IF tx.cur = None THEN ctx.tx_max ELSE tx.cur.size

\* A frame is dropped for want of memory, or because a block is smaller than a frame
\* with its alignments, which the minimum of cdc_ncm_check_tx_max leaves out: never
\* because two frames are in the way of each other (1318-1334, 1362-1366).
NothingDropped ==
  [][tx'.dropped # tx.dropped /\ Bound' => tx'.starved \/ BlockSize < Needed(ctx)]_vars

\* Collected frames wait for a timer that runs, or for the tasklet: none is left
\* without somebody to send it, but for those kept when memory ran out (1468).
NeverStranded ==
  phase = "up" /\ ~tx.starved /\ Collected \o Kept # <<>> =>
    timer \/ sched \/ bh # "idle"

\* The largest block the device was told it may send, the receive URBs and the
\* limit of cdc_ncm_rx_verify_nth16 agree, also when the device refuses the size
\* (413-430) and when it asked for less than the specification allows.
SizesAgree ==
  Bound => ctx.told <= ctx.rx_urb_size /\ ctx.told <= ctx.rx_max

\* A half speed change that never came costs at most one network connection
\* notification: the carrier follows the announcements again from the second on
\* (1861-1876).
CarrierFollows == link.since = 2 => link.carrier = link.said

\* Once unbound the tasklet neither runs nor will run (1001-1005).
UnbindQuiet == phase \in {"kill", "gone"} => ~sched /\ bh = "idle"

\* A block as the specification wants it: the header and every table signed and in
\* the block, the tables linked to each other, every entry a frame in the block.
Conforming(c, b) ==
  /\ b.sign /\ b.block <= c.rx_max /\ b.ndp \in DOMAIN b.tables
  /\ \A o \in DOMAIN b.tables :
       LET t == b.tables[o]
       IN /\ t.sign /\ t.entries # <<>> /\ t.next \in DOMAIN b.tables \cup {0}
          /\ t.wLength = Ndp(c) + (Len(t.entries) + 1) * Dpe(c)
          /\ o >= Nth(c) /\ o + t.wLength <= b.len
          /\ \A i \in DOMAIN t.entries :
               /\ t.entries[i].off > 0 /\ Ends(t.entries[i]) <= b.len
               /\ t.entries[i].len \in EthHlen .. c.rx_max

\* The datagrams of a chain of tables, in order: of the first table and of at most
\* LoopMax more.
Further(b, s) ==
  IF s.at = 0 THEN s
  ELSE [at |-> b.tables[s.at].next, dgrams |-> s.dgrams \o b.tables[s.at].entries]

Announced(b) ==
  LET read[k \in 0 .. LoopMax + 1] ==
        IF k = 0 THEN [at |-> b.ndp, dgrams |-> <<>>] ELSE Further(b, read[k - 1])
  IN read[LoopMax + 1].dgrams

\* What comes up from a block, whatever the block is, are frames that lie in it and
\* that the driver said it takes, no more than find memory.  From a sound one
\* everything comes, in order: up to where memory ended, or, if a table points back,
\* until the turns are counted out (1749-1846).
DeliveredFrom(u) ==
  u.block # None =>
    LET b == u.block
        c == [is_ndp16 |-> b.ndp16, rx_max |-> u.max]
    IN /\ \A i \in DOMAIN u.got :
            Ends(u.got[i]) <= b.len /\ u.got[i].len \in EthHlen .. u.max
       /\ Len(u.got) <= u.mem
       /\ Conforming(c, b) =>
            /\ u.ok = (Len(Announced(b)) <= u.mem)
            /\ u.got = SubSeq(Announced(b), 1, Lower(u.mem, Len(Announced(b))))

Delivered == DeliveredFrom(up)

\* What has been collected is sent before long, although nothing more comes.
CollectedIsSent ==
  phase = "up" /\ Collected # <<>> ~> phase # "up" \/ Collected = <<>>
=============================================================================
