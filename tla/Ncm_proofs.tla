----------------------------- MODULE Ncm_proofs -----------------------------
(***************************************************************************)
(* Proofs that, whatever the devices, the stores and the frames are, the     *)
(* driver and its device agree on the size of received blocks, and that no   *)
(* tasklet is left when the driver is unbound.                               *)
(*                                                                           *)
(* And that, whatever allocations fail, every frame taken is sent,           *)
(* collected, kept for the next block or counted as dropped, in order, and   *)
(* that collected frames have somebody to send them.  A call of              *)
(* cdc_ncm_fill_tx_frame has up to two frames in hand, the one kept from     *)
(* before and the new one.  Accounts says where every frame is at any point  *)
(* of the call; a turn of the loop moves one frame out of the hand           *)
(* (AddFrameKeeps), and the end of the call moves the block (FillKeeps).     *)
(***************************************************************************)
EXTENDS Ncm, TLAPS, SequenceTheorems

\* What cdc_ncm_update_rxtx_max keeps: the receive URBs have the size rx_max, and
\* the device was told no more.
RxKept(c) ==
  /\ {"rx_max", "rx_urb_size", "told"} \subseteq DOMAIN c
  /\ c.rx_max \in Nat /\ c.told \in Nat
  /\ c.rx_urb_size = c.rx_max /\ c.told <= c.rx_max

\* The sizes of transmission, once they have been set.
TxNumbers(c) ==
  /\ {"tx_max", "min_tx_pkt", "max_datagram_size", "max_ndp_size", "tx_max_datagrams"}
       \subseteq DOMAIN c
  /\ c.max_datagram_size \in Nat /\ c.max_ndp_size \in Nat
  /\ c.tx_max_datagrams \in 1 .. DatagramsMax
  /\ c.min_tx_pkt \in 0 .. NtbMax - 1

SizesKept(c) == RxKept(c) /\ TxNumbers(c) /\ c.tx_max \in 0 .. NtbMax + 1

SizesInv ==
  /\ phase \in {"none", "claim", "bound", "up", "stop", "cancel", "kill", "gone"}
  /\ phase # "none" => device \in Devices
  /\ Bound => SizesKept(ctx)

\* A step that leaves the sizes alone.
SizesAside ==
  /\ UNCHANGED device
  /\ phase' \in {"none", "claim", "bound", "up", "stop", "cancel", "kill", "gone"}
  /\ phase = "none" => phase' = "none"
  /\ Bound' => Bound
  /\ SizesKept(ctx) => SizesKept(ctx')

\* The limits, without their values: the provers would spell the ranges out.
LEMMA NtbLimits ==
  /\ NtbMin \in Nat /\ NtbMax \in Nat /\ NtbMin <= NtbMax
  /\ \A x \in Int : x < 65536 => x <= NtbMax - 1
  BY DEF NtbMin, NtbMax

\* The clamp gives a natural number.
LEMMA CheckRxMaxNat ==
  ASSUME NEW d \in Devices, NEW n \in Nat
  PROVE  CheckRxMax(d, n) \in Nat
  BY NcmAssumption, NtbLimits DEF CheckRxMax, Clamp, Upper, Lower

\* So does the one for blocks that are sent, and it stays in the kernel's range.
LEMMA CheckTxMaxRange ==
  ASSUME NEW c, NEW d \in Devices, NEW n \in Nat, TxNumbers(c)
  PROVE  CheckTxMax(c, d, n) \in 0 .. NtbMax
<1> DEFINE max == IF d.dwNtbOutMaxSize = 0 THEN NtbMax ELSE Clamp(d.dwNtbOutMaxSize, NtbMin, NtbMax)
           min == c.max_datagram_size + c.max_ndp_size + Nth(c)
<1>1. max \in 0 .. NtbMax
  BY NcmAssumption, NtbLimits DEF Clamp, Upper, Lower
<1>2. Nth(c) \in Nat
  BY DEF Nth
<1>3. min \in Nat
  BY <1>2 DEF TxNumbers
<1> HIDE DEF max, min
<1>4. Clamp(n, Lower(min, max), max) \in 0 .. NtbMax
  BY <1>1, <1>3, NtbLimits DEF Clamp, Upper, Lower
<1> QED  BY <1>4 DEF CheckTxMax, max, min

\* The two sizes of reception change together, or not at all; the one of
\* transmission grows by the pad byte at most.
LEMMA UpdateMaxSets ==
  ASSUME NEW c, NEW d \in Devices, NEW rx \in Nat, NEW txMax \in Nat, NEW heard \in BOOLEAN,
         TxNumbers(c), {"rx_max", "rx_urb_size", "told"} \subseteq DOMAIN c,
         c.rx_max \in Nat, c.told \in Nat, c.told <= c.rx_max
  PROVE  SizesKept(UpdateMax(c, d, rx, txMax, heard))
<1> DEFINE u == UpdateMax(c, d, rx, txMax, heard)
           val == CheckTxMax(c, d, txMax)
<1>1. CheckRxMax(d, rx) \in Nat
  BY CheckRxMaxNat
<1>2. RxKept(u)
  BY <1>1 DEF UpdateMax, RxKept
<1>3. TxNumbers(u)
  BY DEF UpdateMax, TxNumbers
<1>4. val \in 0 .. NtbMax
  BY CheckTxMaxRange
<1>5. PaddedTxMax(d, val) \in 0 .. NtbMax + 1
  <2> HIDE DEF val
  <2> QED  BY <1>4, NtbLimits DEF PaddedTxMax
<1>6. u.tx_max = PaddedTxMax(d, val)
  BY DEF UpdateMax, TxNumbers
<1> QED  BY <1>2, <1>3, <1>5, <1>6 DEF SizesKept

\* The same for sizes that were good before.
LEMMA UpdateMaxKeeps ==
  ASSUME NEW c, NEW d \in Devices, NEW rx \in Nat, NEW txMax \in Nat, NEW heard \in BOOLEAN,
         SizesKept(c)
  PROVE  SizesKept(UpdateMax(c, d, rx, txMax, heard))
<1>1. c.told <= c.rx_max /\ c.told \in Nat /\ c.rx_max \in Nat
      /\ {"rx_max", "rx_urb_size", "told"} \subseteq DOMAIN c /\ TxNumbers(c)
  BY DEF SizesKept, RxKept
<1> QED  BY <1>1, UpdateMaxSets

\* min_tx_pkt is truncated to 16 bits.
LEMMA UpdateMinTxPktKeeps ==
  ASSUME NEW c, SizesKept(c)
  PROVE  SizesKept(UpdateMinTxPkt(c))
<1> DEFINE low == (c.tx_max - 3 * MaxPacket) % 65536
           high == c.tx_max % 65536
<1>1. c.tx_max \in Int /\ c.tx_max - 3 * MaxPacket \in Int
  BY NcmAssumption, NtbLimits DEF SizesKept
<1>2. low \in Int /\ high \in Int /\ 0 <= high /\ high < 65536 /\ 0 <= low
  BY <1>1
<1> HIDE DEF low, high
<1>4. Clamp(low, MinTxPkt, high) \in 0 .. NtbMax - 1
  BY <1>2, NtbLimits DEF Clamp, Upper, Lower, MinTxPkt
<1>3. UpdateMinTxPkt(c) = [c EXCEPT !.min_tx_pkt = Clamp(low, MinTxPkt, high)]
  BY DEF UpdateMinTxPkt, low, high
<1> QED  BY <1>4, <1>3 DEF SizesKept, RxKept, TxNumbers

\* The datagram size is one of two limits or between them.
LEMMA SetDgramSizeKeeps ==
  ASSUME NEW c, NEW d, NEW n \in Int, SizesKept(c)
  PROVE  SizesKept(SetDgramSize(c, d, n))
<1>1. Clamp(n, MinDatagram, MaxDatagram) \in Nat
  BY DEF Clamp, Upper, Lower, MinDatagram, MaxDatagram
<1> QED  BY <1>1 DEF SetDgramSize, SizesKept, RxKept, TxNumbers

\* The alignment does not change the sizes.
LEMMA FixModulusKeeps ==
  ASSUME NEW c, SizesKept(c)
  PROVE  SizesKept(FixModulus(c))
  BY DEF FixModulus, SizesKept, RxKept, TxNumbers

\* Between one datagram and the driver's own limit, whatever the device says.
LEMMA MaxDatagramsRange ==
  ASSUME NEW d
  PROVE  MaxDatagrams(d) \in 1 .. DatagramsMax
  BY DEF MaxDatagrams, DatagramsMax

\* The first negotiation, from the sizes the device asks for.
LEMMA SetupKeeps ==
  ASSUME NEW d \in Devices, NEW p \in BOOLEAN, NEW f \in BOOLEAN, NEW e, NEW heard \in BOOLEAN
  PROVE  SizesKept(Setup(InitCtx(d, p, f, e), d, heard))
<1> DEFINE c == InitCtx(d, p, f, e)
           rx == Lower(NtbDefault, d.dwNtbInMaxSize)
           tx0 == Lower(NtbDefault, d.dwNtbOutMaxSize)
<1>1. rx \in Nat /\ tx0 \in Nat
  BY NcmAssumption DEF Lower, NtbDefault
<1>2. /\ {"rx_max", "rx_urb_size", "told"} \subseteq DOMAIN c
      /\ c.rx_max = d.dwNtbInMaxSize /\ c.told = d.dwNtbInMaxSize
  BY DEF InitCtx
<1>3. TxNumbers(c)
  <2>1. c.max_ndp_size \in Nat
    BY MaxDatagramsRange DEF InitCtx, Ndp, Dpe, DatagramsMax
  <2> QED  BY <2>1, MaxDatagramsRange, NtbLimits DEF InitCtx, TxNumbers
<1>4. SizesKept(UpdateMax(c, d, rx, tx0, heard))
  <2> HIDE DEF c, rx, tx0
  <2> QED  BY <1>1, <1>2, <1>3, UpdateMaxSets, NcmAssumption
<1>5. d.wMaxSegmentSize \in Int
  BY NcmAssumption
<1> HIDE DEF c, rx, tx0
<1> QED
  BY <1>4, <1>5, UpdateMinTxPktKeeps, FixModulusKeeps, SetDgramSizeKeeps DEF Setup, c, rx, tx0

-----------------------------------------------------------------------------
\* The sizes change in Bind and in the stores.
LEMMA SizesStep ==
  ASSUME SizesInv, [Next]_vars
  PROVE  SizesInv'
<1> USE DEF SizesInv, Bound
<1>1. ASSUME SizesAside
      PROVE  SizesInv'
  BY <1>1 DEF SizesAside
<1>2. CASE UNCHANGED vars
  BY <1>2, <1>1 DEF SizesAside, vars
<1>3. CASE BindClaims
  BY <1>3 DEF BindClaims
<1>4. CASE BindFails \/ Open \/ UnbindStop \/ HrtimerCancel \/ TaskletKill \/ UnbindFree
  BY <1>4, <1>1 DEF SizesAside, BindFails, Open, UnbindStop, HrtimerCancel, TaskletKill, UnbindFree
<1>5. CASE Bind
  <2>1. PICK p \in BOOLEAN, f \in BOOLEAN, h \in BOOLEAN, e \in NdpToEnd :
             ctx' = Setup(InitCtx(device, p, f, e), device, h)
    BY <1>5 DEF Bind
  <2>2. SizesKept(ctx')
    BY <1>5, <2>1, SetupKeeps DEF Bind
  <2> QED  BY <1>5, <2>2 DEF Bind
<1>6. CASE Xmit \/ TimerFires \/ Bh \/ Receive \/ Status
  <2>1. UNCHANGED <<phase, device, ctx>>
    BY <1>6 DEF Xmit, TimerFires, Bh, BhRuns, BhStartsTimer, BhFlushes, Receive, Status
  <2> QED  BY <2>1, <1>1 DEF SizesAside
<1>7. CASE Store
  <2>1. UNCHANGED <<phase, device>>
    BY <1>7 DEF Store, RxMaxStore, TxMaxStore, UpdateRxTxMax, Resized, StoreEnds, MinTxPktStore,
                TimerStore, NdpToEndStore, ChangeMtu
  <2>2. CASE RxMaxStore
    <3>1. PICK val \in RxMaxes, h \in BOOLEAN : ctx' = UpdateMax(ctx, device, val, ctx.tx_max, h)
      BY <2>2 DEF RxMaxStore, UpdateRxTxMax, Resized
    <3>2. Bound => SizesKept(ctx')
      <4>1. Bound => ctx.tx_max \in Nat
        BY NtbLimits DEF SizesKept
      <4> QED  BY <3>1, <4>1, UpdateMaxKeeps, NcmAssumption
    <3> QED  BY <2>1, <3>2
  <2>3. CASE TxMaxStore
    <3>1. PICK val \in TxMaxes, h \in BOOLEAN : ctx' = UpdateMax(ctx, device, ctx.rx_max, val, h)
      BY <2>3 DEF TxMaxStore, UpdateRxTxMax, Resized
    <3>2. Bound => SizesKept(ctx')
      <4>1. Bound => ctx.rx_max \in Nat
        BY DEF SizesKept, RxKept
      <4> QED  BY <3>1, <4>1, UpdateMaxKeeps, NcmAssumption
    <3> QED  BY <2>1, <3>2
  <2>4. CASE StoreEnds
    BY <2>1, <2>4, <1>1, UpdateMinTxPktKeeps DEF SizesAside, StoreEnds
  <2>5. CASE MinTxPktStore \/ TimerStore \/ NdpToEndStore
    <3>1. \/ ctx' = [ctx EXCEPT !.min_tx_pkt = 0]
          \/ ctx' = [ctx EXCEPT !.timer = ~@]
          \/ \E enable : ctx' = [ctx EXCEPT !.toEnd = enable]
      BY <2>5 DEF MinTxPktStore, TimerStore, NdpToEndStore
    <3> QED  BY <2>1, <3>1, <1>1, NtbLimits DEF SizesAside, SizesKept, RxKept, TxNumbers
  <2>6. CASE ChangeMtu
    <3>1. PICK mtu \in Mtus :
               /\ mtu \in 0 .. (device.wMaxSegmentSize - EthHlen)
               /\ ctx' = SetDgramSize([ctx EXCEPT !.mtu = mtu], device, mtu + EthHlen)
      BY <2>6 DEF ChangeMtu
    <3>2. SizesKept(ctx) => SizesKept([ctx EXCEPT !.mtu = mtu])
      BY DEF SizesKept, RxKept, TxNumbers
    <3>3. mtu + EthHlen \in Int
      BY <3>1 DEF EthHlen
    <3> QED  BY <2>1, <3>1, <3>2, <3>3, <1>1, SetDgramSizeKeeps DEF SizesAside
  <2> QED  BY <1>7, <2>2, <2>3, <2>4, <2>5, <2>6 DEF Store
<1> QED
  BY <1>2, <1>3, <1>4, <1>5, <1>6, <1>7 DEF Next

\* The device was told no more than the receive URBs hold and the reader accepts,
\* whatever it answered to the new input sizes (413-430).
THEOREM SizesAlwaysAgree == Spec => []SizesAgree
<1>1. Init => SizesInv
  BY DEF Init, SizesInv, Bound
<1>2. SizesInv => SizesAgree
  BY DEF SizesInv, SizesKept, RxKept, SizesAgree
<1> QED
  BY <1>1, <1>2, SizesStep, PTL DEF Spec

-----------------------------------------------------------------------------
\* Once stop is set it stays, so that neither a timer that fires nor a tasklet that
\* runs starts the other again; the places after tasklet_kill are quiet.
QuietInv ==
  /\ stop \in BOOLEAN /\ sched \in BOOLEAN
  /\ phase \in {"stop", "cancel", "kill", "gone"} => stop
  /\ UnbindQuiet

\* Every step of tasklet, timer, unbinding and stores keeps it.
LEMMA QuietStep ==
  ASSUME QuietInv, [Next]_vars
  PROVE  QuietInv'
<1> USE DEF QuietInv, UnbindQuiet
<1>1. CASE UNCHANGED vars
  BY <1>1 DEF vars, timing
<1>2. CASE BindClaims \/ BindFails \/ Open
  BY <1>2 DEF BindClaims, BindFails, Open, timing
<1>3. CASE UnbindStop \/ HrtimerCancel
  BY <1>3 DEF UnbindStop, HrtimerCancel, timing
<1>4. CASE TaskletKill
  BY <1>4 DEF TaskletKill, timing
<1>5. CASE UnbindFree
  BY <1>5 DEF UnbindFree, timing
<1>6. CASE Bind
  BY <1>6 DEF Bind
<1>7. CASE Xmit
  BY <1>7 DEF Xmit
<1>8. CASE TimerFires
  BY <1>8 DEF TimerFires
<1>9. CASE Bh
  BY <1>9 DEF Bh, BhRuns, WaitTurn, MayArm, BhStartsTimer, BhFlushes
<1>10. CASE Store
  <2>1. CASE RxMaxStore \/ TxMaxStore
    BY <2>1 DEF RxMaxStore, TxMaxStore, UpdateRxTxMax, Resized, timing
  <2>2. CASE StoreEnds \/ MinTxPktStore \/ TimerStore \/ NdpToEndStore \/ ChangeMtu
    BY <2>2 DEF StoreEnds, MinTxPktStore, TimerStore, NdpToEndStore, ChangeMtu, timing
  <2> QED  BY <1>10, <2>1, <2>2 DEF Store
<1>11. CASE Receive \/ Status
  BY <1>11 DEF Receive, Status, timing
<1> QED
  BY <1>1, <1>2, <1>3, <1>4, <1>5, <1>6, <1>7, <1>8, <1>9, <1>10, <1>11 DEF Next

\* After tasklet_kill no tasklet runs or is scheduled, though the timer may still
\* be running (1001-1005).
THEOREM UnbindEndsQuiet == Spec => []UnbindQuiet
<1>1. Init => QuietInv
  BY DEF Init, QuietInv, UnbindQuiet
<1>2. QuietInv => UnbindQuiet
  BY DEF QuietInv
<1> QED
  BY <1>1, <1>2, QuietStep, PTL DEF Spec

-----------------------------------------------------------------------------
\* While no half was lost since the last announcement, the driver waits for a
\* second half only where the device has one to send.
LinkInv ==
  /\ link.since \in 0 .. 2
  /\ {"split", "carrier", "said", "half", "since"} \subseteq DOMAIN link
  /\ link.since > 0 /\ link.half = "none" => link.split = FALSE
  /\ CarrierFollows

\* Only notifications touch the link.
LEMMA LinkStep ==
  ASSUME LinkInv, [Next]_vars
  PROVE  LinkInv'
<1> USE DEF LinkInv, CarrierFollows
<1>1. CASE UNCHANGED link
  BY <1>1
<1>2. CASE Status
  <2>1. CASE NotifyConnection
    <3>1. PICK state \in Notices \cap {"up", "down"} :
            link' = [link EXCEPT !.said = (state = "up"), !.split = FALSE,
                                 !.carrier = IF link.split THEN @ ELSE state = "up",
                                 !.since = Lower(@ + 1, 2)]
      BY <2>1 DEF NotifyConnection
    <3>2. link.half = "none"
      BY <2>1 DEF NotifyConnection, Speaks
    <3>3. /\ link'.since = Lower(link.since + 1, 2) /\ link'.split = FALSE
          /\ DOMAIN link' = DOMAIN link
      BY <3>1
    <3>4. link.since > 0 => link'.carrier = link'.said
      BY <3>1, <3>2
    <3> QED  BY <3>3, <3>4 DEF Lower
  <2>2. CASE NotifyOther
    BY <2>2 DEF NotifyOther, Speaks
  <2>3. CASE NotifyHalf
    BY <2>3 DEF NotifyHalf, Speaks
  <2>4. CASE LoseHalf
    BY <2>4 DEF LoseHalf
  <2> QED  BY <1>2, <2>1, <2>2, <2>3, <2>4 DEF Status
<1>3. CASE ~Status
  <2>1. UNCHANGED link
    BY <1>3 DEF Next, vars, BindClaims, BindFails, Bind, Open, UnbindStop, HrtimerCancel,
                TaskletKill, UnbindFree, Xmit, TimerFires, Bh, BhRuns, BhStartsTimer,
                BhFlushes, Store, RxMaxStore, TxMaxStore, UpdateRxTxMax, StoreEnds,
                MinTxPktStore, TimerStore, NdpToEndStore, ChangeMtu, Receive
  <2> QED  BY <2>1, <1>1
<1> QED  BY <1>2, <1>3

\* A lost half speed change costs at most one network connection notification
\* (1861-1876).
THEOREM CarrierRecovers == Spec => []CarrierFollows
<1>1. Init => LinkInv
  BY DEF Init, NoLink, LinkInv, CarrierFollows
<1>2. LinkInv => CarrierFollows
  BY DEF LinkInv
<1> QED
  BY <1>1, <1>2, LinkStep, PTL DEF Spec

-----------------------------------------------------------------------------
(* Where every frame is.                                                       *)

TxFields == {"cur", "rem", "lowVal", "lowMax", "delayed", "dropped", "starved"}

IsBlock(s) ==
  /\ {"size", "len", "ndp", "dgrams"} \subseteq DOMAIN s
  /\ s.dgrams \in Seq(Range(s.dgrams))

\* The ids in a block, and of one frame.
Ids(s) == IF s = None THEN {} ELSE {s.dgrams[i].id : i \in DOMAIN s.dgrams}

IdOf(f) == IF f = None THEN {} ELSE {f.id}

Ordered(s) ==
  s # None => \A i, j \in DOMAIN s.dgrams : i < j => s.dgrams[i].id < s.dgrams[j].id

\* All n frames: those before the block, in it, kept, in hand and dropped.
Accounts(before, block, kept, hand, dropped, n) ==
  /\ before \cup block \cup kept \cup hand \cup dropped = 1 .. n
  /\ (before \cup block \cup kept \cup hand) \cap dropped = {}
  /\ \A x \in before, y \in block : x < y
  /\ \A x \in before \cup block, y \in kept \cup hand : x < y
  /\ \A x \in kept, y \in hand : x < y

\* The transmit side with a set of frames in hand.
Sound(t, before, hand, n) ==
  /\ Accounts(before, Ids(t.cur), IdOf(t.rem), hand, t.dropped, n)
  /\ Ordered(t.cur)

\* In the loop: the frame that made it stop may have been kept.
Loop(st) ==
  /\ {"t", "stop"} \subseteq DOMAIN st /\ TxFields \subseteq DOMAIN st.t
  /\ IsBlock(st.t.cur) /\ st.stop \in {"no", "unfit", "full"}

\* A block is no NULL pointer.
LEMMA BlockNotNone ==
  ASSUME NEW s, IsBlock(s)
  PROVE  s # None
  BY DEF IsBlock, None

\* Neither is a frame.
LEMMA FrameNotNone ==
  ASSUME NEW id, NEW len
  PROVE  [id |-> id, len |-> len] # None
  BY DEF None

\* A frame in hand goes into the block,
LEMMA Added ==
  ASSUME NEW B, NEW C, NEW H, NEW D, NEW n \in Nat, NEW x,
         Accounts(B, C, {}, {x} \cup H, D, n), \A y \in H : x < y
  PROVE  Accounts(B, C \cup {x}, {}, H, D, n)
  BY DEF Accounts

\* ... is kept,
LEMMA KeptBack ==
  ASSUME NEW B, NEW C, NEW H, NEW D, NEW n \in Nat, NEW x,
         Accounts(B, C, {}, {x} \cup H, D, n), \A y \in H : x < y
  PROVE  Accounts(B, C, {x}, H, D, n)
  BY DEF Accounts

\* ... or is dropped.
LEMMA DroppedFrame ==
  ASSUME NEW B, NEW C, NEW K, NEW H, NEW D, NEW n \in Nat, NEW x,
         Accounts(B, C, K, {x} \cup H, D, n), \A y \in H : x < y
  PROVE  Accounts(B, C, K, H, D \cup {x}, n)
<1>1. x \in 1 .. n /\ H \subseteq 1 .. n
  BY DEF Accounts
<1>2. x \notin H
  BY <1>1
<1>3. x \notin B \cup C \cup K
  BY <1>1 DEF Accounts
<1> QED  BY <1>2, <1>3 DEF Accounts

\* Appending keeps a sequence what it is.
LEMMA AppendGrows ==
  ASSUME NEW s, NEW e, s \in Seq(Range(s))
  PROVE  /\ Append(s, e) \in Seq(Range(Append(s, e)))
         /\ DOMAIN s = 1 .. Len(s) /\ DOMAIN Append(s, e) = 1 .. Len(s) + 1
         /\ Len(s) \in Nat /\ Len(Append(s, e)) = Len(s) + 1
         /\ Append(s, e)[Len(s) + 1] = e
         /\ \A i \in 1 .. Len(s) : Append(s, e)[i] = s[i]
<1>1. s \in Seq(Range(s) \cup {e})
  <2>1. Range(s) \subseteq Range(s) \cup {e}
    OBVIOUS
  <2> QED  BY <2>1, SeqMonotonic
<1>2. /\ Append(s, e) \in Seq(Range(s) \cup {e})
      /\ Len(Append(s, e)) = Len(s) + 1
      /\ Append(s, e)[Len(s) + 1] = e
      /\ \A i \in 1 .. Len(s) : Append(s, e)[i] = s[i]
  BY <1>1, AppendProperties
<1>3. Append(s, e) \in Seq(Range(Append(s, e)))
  BY <1>2 DEF Range
<1> QED  BY <1>2, <1>3

\* What the block is after a datagram was appended.
LEMMA BlockGrows ==
  ASSUME NEW s, IsBlock(s), NEW d, NEW u, IsBlock(u), u.dgrams = Append(s.dgrams, d),
         Ordered(s), d.id \in Nat, Ids(s) \subseteq Nat, \A x \in Ids(s) : x < d.id
  PROVE  Ids(u) = Ids(s) \cup {d.id} /\ Ordered(u) /\ Len(u.dgrams) = Len(s.dgrams) + 1
<1>1. s # None /\ u # None
  BY BlockNotNone
<1>2. s.dgrams \in Seq(Range(s.dgrams))
  BY DEF IsBlock
<1> DEFINE n == Len(s.dgrams)
<1>3. /\ DOMAIN s.dgrams = 1 .. n /\ DOMAIN u.dgrams = 1 .. n + 1 /\ n \in Nat
      /\ Len(u.dgrams) = n + 1
      /\ u.dgrams[n + 1] = d
      /\ \A i \in 1 .. n : u.dgrams[i] = s.dgrams[i]
  BY <1>2, AppendGrows
<1> HIDE DEF n
<1>4. Ids(u) = Ids(s) \cup {d.id}
  BY <1>1, <1>3 DEF Ids
<1>5. \A i \in 1 .. n : s.dgrams[i].id \in Ids(s)
  BY <1>1, <1>3 DEF Ids
<1>6. Ordered(u)
  <2> SUFFICES ASSUME NEW i \in 1 .. n + 1, NEW j \in 1 .. n + 1, i < j
               PROVE  u.dgrams[i].id < u.dgrams[j].id
    BY <1>3 DEF Ordered
  <2>1. i \in 1 .. n
    BY <1>3
  <2>2. CASE j = n + 1
    BY <2>1, <2>2, <1>3, <1>5
  <2>3. CASE j \in 1 .. n
    BY <2>1, <2>3, <1>3, <1>1 DEF Ordered
  <2> QED  BY <2>2, <2>3, <1>3
<1> QED  BY <1>3, <1>4, <1>6 DEF n

\* Finding the table moves the end of the block only.
LEMMA TableKeeps ==
  ASSUME NEW c, NEW t, NEW reserve, TxFields \subseteq DOMAIN t, IsBlock(t.cur)
  PROVE  LET u == WithTable(c, t, reserve).t
         IN /\ TxFields \subseteq DOMAIN u /\ IsBlock(u.cur)
            /\ u.cur.dgrams = t.cur.dgrams /\ u.rem = t.rem /\ u.dropped = t.dropped
            /\ u.starved = t.starved /\ u.lowVal = t.lowVal /\ u.lowMax = t.lowMax
  BY DEF WithTable, TxFields, IsBlock

\* So does the alignment of the next frame.
LEMMA AlignKeeps ==
  ASSUME NEW t, NEW len, TxFields \subseteq DOMAIN t, IsBlock(t.cur)
  PROVE  LET u == [t EXCEPT !.cur.len = len]
         IN /\ TxFields \subseteq DOMAIN u /\ IsBlock(u.cur)
            /\ u.cur.dgrams = t.cur.dgrams /\ u.rem = t.rem /\ u.dropped = t.dropped
            /\ u.starved = t.starved /\ u.lowVal = t.lowVal /\ u.lowMax = t.lowMax
  BY DEF TxFields, IsBlock

\* The three ways a turn of the loop ends, in terms of the block and the frame.
PlacedIn(st, r, f) ==
  /\ \E d : d.id = f.id /\ r.t.cur.dgrams = Append(st.t.cur.dgrams, d)
  /\ r.t.rem = st.t.rem /\ r.t.dropped = st.t.dropped /\ r.stop = st.stop

PlacedNowhere(st, r, f) ==
  /\ r.t.cur.dgrams = st.t.cur.dgrams /\ st.t.cur.dgrams = <<>>
  /\ r.t.rem = st.t.rem /\ r.t.dropped = st.t.dropped \cup {f.id} /\ r.stop = "unfit"

PlacedLater(st, r, f) ==
  /\ r.t.cur.dgrams = st.t.cur.dgrams /\ st.t.cur.dgrams # <<>>
  /\ r.t.rem = f /\ r.t.dropped = st.t.dropped /\ r.stop = "full"

Untouched(st, r) ==
  r.t.starved = st.t.starved /\ r.t.lowVal = st.t.lowVal /\ r.t.lowMax = st.t.lowMax

\* One turn ends in one of them.
LEMMA PlaceEnds ==
  ASSUME NEW c, NEW st, NEW f, NEW reserve, Loop(st)
  PROVE  LET r == Place(c, st, f, WithTable(c, st.t, reserve))
         IN /\ Loop(r) /\ Untouched(st, r)
            /\ PlacedIn(st, r, f) \/ PlacedNowhere(st, r, f) \/ PlacedLater(st, r, f)
<1> DEFINE found == WithTable(c, st.t, reserve)
           len == AlignTail(found.t.cur.len, c.tx_modulus, c.tx_remainder, found.t.cur.size)
           t == [found.t EXCEPT !.cur.len = len]
           r == Place(c, st, f, found)
           d == [id |-> f.id, off |-> len, len |-> f.len]
           s == [t EXCEPT !.cur.len = len + f.len, !.cur.dgrams = Append(@, d)]
<1>1. TxFields \subseteq DOMAIN st.t /\ IsBlock(st.t.cur)
  BY DEF Loop
<1>2. /\ TxFields \subseteq DOMAIN found.t /\ IsBlock(found.t.cur)
      /\ found.t.cur.dgrams = st.t.cur.dgrams /\ found.t.rem = st.t.rem
      /\ found.t.dropped = st.t.dropped /\ found.t.starved = st.t.starved
      /\ found.t.lowVal = st.t.lowVal /\ found.t.lowMax = st.t.lowMax
  BY <1>1, TableKeeps
<1>3. \/ r = [st EXCEPT !.t = s]
      \/ t.cur.dgrams = <<>> /\ r = [t |-> [t EXCEPT !.dropped = @ \cup {f.id}], stop |-> "unfit"]
      \/ t.cur.dgrams # <<>> /\ r = [t |-> [t EXCEPT !.rem = f], stop |-> "full"]
  BY DEF Place
<1> HIDE DEF found, r
<1>4. /\ TxFields \subseteq DOMAIN t /\ IsBlock(t.cur)
      /\ t.cur.dgrams = found.t.cur.dgrams /\ t.rem = found.t.rem
      /\ t.dropped = found.t.dropped /\ t.starved = found.t.starved
      /\ t.lowVal = found.t.lowVal /\ t.lowMax = found.t.lowMax
  <2> HIDE DEF len
  <2> QED  BY <1>2, AlignKeeps
<1> HIDE DEF t, len
<1>5. CASE r = [st EXCEPT !.t = s]
  <2>1. /\ TxFields \subseteq DOMAIN s /\ s.cur.dgrams = Append(t.cur.dgrams, d)
        /\ s.rem = t.rem /\ s.dropped = t.dropped /\ s.starved = t.starved
        /\ s.lowVal = t.lowVal /\ s.lowMax = t.lowMax
        /\ {"size", "len", "ndp", "dgrams"} \subseteq DOMAIN s.cur
    BY <1>4 DEF TxFields, IsBlock
  <2>2. d.id = f.id
    OBVIOUS
  <2>4. r.t = s /\ r.stop = st.stop /\ {"t", "stop"} \subseteq DOMAIN r
    BY <1>5 DEF Loop
  <2> HIDE DEF s, d
  <2>3. s.cur.dgrams \in Seq(Range(s.cur.dgrams))
    BY <1>4, <2>1, AppendGrows DEF IsBlock
  <2>5. PlacedIn(st, r, f)
    BY <2>1, <2>2, <2>4, <1>4, <1>2 DEF PlacedIn
  <2>6. Loop(r) /\ Untouched(st, r)
    BY <2>1, <2>3, <2>4, <1>4, <1>2 DEF Loop, Untouched, IsBlock
  <2> QED  BY <2>5, <2>6 DEF r, found
<1>6. CASE t.cur.dgrams = <<>> /\ r = [t |-> [t EXCEPT !.dropped = @ \cup {f.id}], stop |-> "unfit"]
  <2>1. Loop(r) /\ Untouched(st, r)
    BY <1>6, <1>4, <1>2 DEF Loop, Untouched, TxFields
  <2>2. PlacedNowhere(st, r, f)
    BY <1>6, <1>4, <1>2 DEF PlacedNowhere, TxFields
  <2> QED  BY <2>1, <2>2 DEF r, found
<1>7. CASE t.cur.dgrams # <<>> /\ r = [t |-> [t EXCEPT !.rem = f], stop |-> "full"]
  <2>1. Loop(r) /\ Untouched(st, r)
    BY <1>7, <1>4, <1>2 DEF Loop, Untouched, TxFields
  <2>2. PlacedLater(st, r, f)
    BY <1>7, <1>4, <1>2 DEF PlacedLater, TxFields
  <2> QED  BY <2>1, <2>2 DEF r, found
<1> QED  BY <1>3, <1>5, <1>6, <1>7

\* What the loop knows while it has not stopped, and why it stopped: for want of
\* room in an empty block, or in one that will be sent.
Knows(c, st) ==
  /\ st.stop = "no" /\ Len(st.t.cur.dgrams) < c.tx_max_datagrams => st.t.rem = None
  /\ st.stop = "unfit" => st.t.cur.dgrams = <<>>
  /\ st.stop = "full" => st.t.cur.dgrams # <<>>

\* Every way out of one call of AddFrame.
AddedHow(c, st, r, f) ==
  \/ f = None /\ r = st
  \/ /\ f # None /\ st.stop = "full"
     /\ r.t.cur = st.t.cur /\ r.t.rem = st.t.rem /\ r.stop = st.stop
     /\ r.t.dropped = st.t.dropped \cup {f.id}
  \/ /\ f # None /\ st.stop # "full"
     /\ st.stop = "unfit" \/ Len(st.t.cur.dgrams) >= c.tx_max_datagrams
     /\ r.t.cur = st.t.cur /\ r.t.rem = f /\ r.stop = st.stop /\ r.t.dropped = st.t.dropped
  \/ /\ f # None /\ st.stop = "no" /\ ~(Len(st.t.cur.dgrams) >= c.tx_max_datagrams)
     /\ PlacedIn(st, r, f) \/ PlacedNowhere(st, r, f) \/ PlacedLater(st, r, f)

\* There are no others.
LEMMA AddFrameEnds ==
  ASSUME NEW c, NEW st, NEW f, Loop(st)
  PROVE  LET r == AddFrame(c, st, f)
         IN Loop(r) /\ Untouched(st, r) /\ AddedHow(c, st, r, f)
<1> DEFINE r == AddFrame(c, st, f)
<1>1. CASE f = None
  BY <1>1 DEF AddFrame, Untouched, AddedHow
<1>2. CASE f # None /\ st.stop = "full"
  <2>1. r = [st EXCEPT !.t.dropped = @ \cup {f.id}]
    BY <1>2 DEF AddFrame
  <2>2. /\ Loop(r) /\ Untouched(st, r)
        /\ r.t.cur = st.t.cur /\ r.t.rem = st.t.rem /\ r.stop = st.stop
        /\ r.t.dropped = st.t.dropped \cup {f.id}
    BY <2>1 DEF Loop, Untouched, TxFields
  <2> QED  BY <1>2, <2>2 DEF AddedHow
<1>3. CASE /\ f # None /\ st.stop # "full"
           /\ st.stop = "unfit" \/ Len(st.t.cur.dgrams) >= c.tx_max_datagrams
  <2>1. r = [st EXCEPT !.t.rem = f]
    BY <1>3 DEF AddFrame
  <2>2. /\ Loop(r) /\ Untouched(st, r)
        /\ r.t.cur = st.t.cur /\ r.t.rem = f /\ r.stop = st.stop /\ r.t.dropped = st.t.dropped
    BY <2>1 DEF Loop, Untouched, TxFields
  <2> QED  BY <1>3, <2>2 DEF AddedHow
<1>4. CASE /\ f # None /\ st.stop # "full"
           /\ ~(st.stop = "unfit" \/ Len(st.t.cur.dgrams) >= c.tx_max_datagrams)
  <2>1. r = Place(c, st, f, WithTable(c, st.t, f.len + c.tx_modulus + c.tx_remainder))
    BY <1>4 DEF AddFrame
  <2>2. st.stop = "no"
    BY <1>4 DEF Loop
  <2> QED  BY <1>4, <2>1, <2>2, PlaceEnds DEF AddedHow
<1> QED  BY <1>1, <1>2, <1>3, <1>4

\* A turn moves the frame out of the hand.
LEMMA AddFrameKeeps ==
  ASSUME NEW c, NEW st, NEW f, NEW B, NEW H, NEW n \in Nat,
         Loop(st), st.stop # "full" => st.t.rem = None,
         Sound(st.t, B, IdOf(f) \cup H, n), \A x \in IdOf(f), y \in H : x < y
  PROVE  Sound(AddFrame(c, st, f).t, B, H, n)
<1> DEFINE r == AddFrame(c, st, f)
<1> SUFFICES Sound(r.t, B, H, n)
  OBVIOUS
<1>1. Loop(r) /\ AddedHow(c, st, r, f)
  BY AddFrameEnds
<1> HIDE DEF r
<1>2. /\ IsBlock(st.t.cur) /\ IsBlock(r.t.cur)
      /\ st.t.cur # None /\ r.t.cur # None
  BY <1>1, BlockNotNone DEF Loop
<1>3. /\ Accounts(B, Ids(st.t.cur), IdOf(st.t.rem), IdOf(f) \cup H, st.t.dropped, n)
      /\ Ordered(st.t.cur)
  BY DEF Sound
<1>4. ASSUME r.t.cur.dgrams = st.t.cur.dgrams
      PROVE  Ids(r.t.cur) = Ids(st.t.cur) /\ Ordered(r.t.cur)
  BY <1>2, <1>3, <1>4 DEF Ids, Ordered
<1>5. CASE f = None /\ r = st
  BY <1>5, <1>3 DEF Sound, IdOf
<1>6. CASE f # None
  <2>1. IdOf(f) = {f.id} /\ \A y \in H : f.id < y
    BY <1>6 DEF IdOf
  <2>2. CASE /\ r.t.cur = st.t.cur /\ r.t.rem = st.t.rem
             /\ r.t.dropped = st.t.dropped \cup {f.id}
    <3>1. Accounts(B, Ids(st.t.cur), IdOf(st.t.rem), H, st.t.dropped \cup {f.id}, n)
      BY <2>1, <1>3, DroppedFrame
    <3> QED  BY <3>1, <2>2, <1>3 DEF Sound
  <2>3. CASE /\ st.stop # "full" /\ r.t.cur.dgrams = st.t.cur.dgrams
             /\ r.t.rem = f /\ r.t.dropped = st.t.dropped
    <3>1. IdOf(st.t.rem) = {} /\ IdOf(r.t.rem) = {f.id}
      BY <2>3, <1>6 DEF IdOf
    <3>2. Accounts(B, Ids(st.t.cur), {f.id}, H, st.t.dropped, n)
      BY <2>1, <3>1, <1>3, KeptBack
    <3> QED  BY <3>1, <3>2, <2>3, <1>4 DEF Sound
  <2>4. CASE st.stop = "no" /\ PlacedIn(st, r, f)
    <3>1. PICK d : d.id = f.id /\ r.t.cur.dgrams = Append(st.t.cur.dgrams, d)
      BY <2>4 DEF PlacedIn
    <3>2. IdOf(st.t.rem) = {} /\ r.t.rem = st.t.rem /\ r.t.dropped = st.t.dropped
      BY <2>4 DEF IdOf, PlacedIn
    <3>3. Accounts(B, Ids(st.t.cur) \cup {f.id}, {}, H, st.t.dropped, n)
      BY <2>1, <3>2, <1>3, Added
    <3>4. d.id \in Nat /\ Ids(st.t.cur) \subseteq Nat /\ \A x \in Ids(st.t.cur) : x < d.id
      BY <2>1, <3>1, <1>3 DEF Accounts
    <3>5. Ids(r.t.cur) = Ids(st.t.cur) \cup {d.id} /\ Ordered(r.t.cur)
      <4>1. PICK s, u : s = st.t.cur /\ u = r.t.cur
        OBVIOUS
      <4>2. IsBlock(s) /\ IsBlock(u) /\ Ordered(s) /\ u.dgrams = Append(s.dgrams, d)
        BY <1>2, <1>3, <3>1, <4>1
      <4>3. d.id \in Nat /\ Ids(s) \subseteq Nat /\ \A x \in Ids(s) : x < d.id
        BY <3>4, <4>1
      <4>4. Ids(u) = Ids(s) \cup {d.id} /\ Ordered(u)
        BY <4>2, <4>3, BlockGrows
      <4> QED  BY <4>1, <4>4
    <3> QED  BY <3>1, <3>2, <3>3, <3>5 DEF Sound
  <2>5. CASE st.stop = "no" /\ PlacedNowhere(st, r, f)
    <3>1. Accounts(B, Ids(st.t.cur), IdOf(st.t.rem), H, st.t.dropped \cup {f.id}, n)
      BY <2>1, <1>3, DroppedFrame
    <3> QED  BY <3>1, <2>5, <1>4 DEF Sound, PlacedNowhere
  <2>6. CASE st.stop = "no" /\ PlacedLater(st, r, f)
    BY <2>6, <2>3 DEF PlacedLater
  <2> QED  BY <1>1, <1>6, <2>2, <2>3, <2>4, <2>5, <2>6 DEF AddedHow
<1> QED  BY <1>1, <1>5, <1>6 DEF AddedHow

\* ... and knows why it stopped.
LEMMA AddFrameKnows ==
  ASSUME NEW c, NEW st, NEW f, Loop(st), Knows(c, st), c.tx_max_datagrams \in Nat
  PROVE  Knows(c, AddFrame(c, st, f))
<1> DEFINE r == AddFrame(c, st, f)
<1>1. Loop(r) /\ AddedHow(c, st, r, f)
  BY AddFrameEnds
<1> HIDE DEF r
<1>2. st.t.cur.dgrams \in Seq(Range(st.t.cur.dgrams))
  BY DEF Loop, IsBlock
<1>3. Len(st.t.cur.dgrams) \in Nat
  BY <1>2
<1>4. CASE st.stop = "no" /\ PlacedIn(st, r, f)
  <2>1. PICK d : r.t.cur.dgrams = Append(st.t.cur.dgrams, d)
    BY <1>4 DEF PlacedIn
  <2>2. Len(r.t.cur.dgrams) = Len(st.t.cur.dgrams) + 1
    BY <2>1, <1>2, AppendGrows
  <2> QED  BY <1>3, <1>4, <2>2 DEF Knows, PlacedIn, r
<1>5. CASE st.stop = "no" /\ (PlacedNowhere(st, r, f) \/ PlacedLater(st, r, f))
  BY <1>5 DEF Knows, PlacedNowhere, PlacedLater, r
<1>6. CASE ~(st.stop = "no" /\ (PlacedIn(st, r, f) \/ PlacedNowhere(st, r, f) \/ PlacedLater(st, r, f)))
  BY <1>1, <1>3, <1>6 DEF Knows, AddedHow, r
<1> QED  BY <1>4, <1>5, <1>6

\* The first frame is kept only if a block with frames is full.
LEMMA AddFrameFirst ==
  ASSUME NEW c, NEW st, NEW f, Loop(st), c.tx_max_datagrams \in Nat,
         st.stop = "no", st.t.rem = None, Len(st.t.cur.dgrams) < c.tx_max_datagrams
  PROVE  LET r == AddFrame(c, st, f)
         IN /\ r.stop # "full" => r.t.rem = None
            /\ st.t.cur.dgrams = <<>> => r.t.rem = None
<1> DEFINE r == AddFrame(c, st, f)
<1>1. Loop(r) /\ AddedHow(c, st, r, f)
  BY AddFrameEnds
<1> HIDE DEF r
<1>2. st.t.cur.dgrams \in Seq(Range(st.t.cur.dgrams))
  BY DEF Loop, IsBlock
<1>3. ~(Len(st.t.cur.dgrams) >= c.tx_max_datagrams)
  BY <1>2
<1> QED  BY <1>1, <1>3 DEF AddedHow, PlacedIn, PlacedNowhere, PlacedLater, r

-----------------------------------------------------------------------------
(* A whole call of cdc_ncm_fill_tx_frame *)

\* Between two calls: there is room in the block, and a frame is kept only where
\* none is collected.
TxGood(c, t) ==
  /\ TxFields \subseteq DOMAIN t
  /\ t.lowVal \in 0 .. 10 /\ t.lowMax \in 0 .. 10 /\ t.starved \in BOOLEAN
  /\ t.cur # None =>
       /\ IsBlock(t.cur) /\ Len(t.cur.dgrams) < c.tx_max_datagrams
       /\ t.cur.dgrams # <<>> => t.rem = None

\* What the call leaves: r.t, and in r.out the block that goes to the device.
Filling(c, t, skb, r, B, n) ==
  /\ TxGood(c, r.t) /\ Sound(r.t, B \cup Ids(r.out), {}, n)
  /\ r.out # None => IsBlock(r.out) /\ Ordered(r.out) /\ \A x \in B, y \in Ids(r.out) : x < y
  /\ t.starved => r.t.starved
  /\ skb = None \/ (t.rem = None /\ Ids(t.cur) = {}) => r.t.starved \/ r.t.rem = None
  /\ skb = None => Ids(r.t.cur) = {}

\* The two counters of the low memory mode and the new block.
LEMMA AllocKeeps ==
  ASSUME NEW c, NEW t, NEW skb, NEW first, NEW second, TxGood(c, t),
         c.tx_max_datagrams \in Nat \ {0}, t.cur = None
  PROVE  LET u == AllocBlock(c, t, skb, first, second)
         IN /\ TxGood(c, u) /\ u.rem = t.rem /\ u.dropped = t.dropped
            /\ t.starved => u.starved
            /\ u.cur # None => u.cur.dgrams = <<>>
<1> DEFINE u == AllocBlock(c, t, skb, first, second)
<1>1. ASSUME NEW size
      PROVE  /\ NewBlock(c, size) # None /\ IsBlock(NewBlock(c, size))
             /\ NewBlock(c, size).dgrams = <<>>
  BY DEF NewBlock, IsBlock, None
<1>2. Len(<<>>) = 0
  OBVIOUS
<1>3. /\ TxFields \subseteq DOMAIN t /\ t.starved \in BOOLEAN
      /\ t.lowVal \in 0 .. 10 /\ t.lowMax \in 0 .. 10
  BY DEF TxGood
<1> DEFINE low == Rearmed(t)
           cnt == Lower(t.lowMax + 1, 10)
<1>4. cnt \in 1 .. 10
  BY <1>3 DEF Lower
<1>5. low = [t EXCEPT !.lowMax = cnt, !.lowVal = cnt] \/ (t.lowVal # 0 /\ low = t)
  BY DEF Rearmed
<1> HIDE DEF cnt, low
<1>6. /\ TxFields \subseteq DOMAIN low /\ low.starved = t.starved
      /\ low.rem = t.rem /\ low.dropped = t.dropped /\ low.cur = None
      /\ low.lowVal \in 1 .. 10 /\ low.lowMax \in 0 .. 10
  <2>1. CASE low = [t EXCEPT !.lowMax = cnt, !.lowVal = cnt]
    BY <1>3, <1>4, <2>1 DEF TxFields
  <2>2. CASE t.lowVal # 0 /\ low = t
    BY <1>3, <2>2
  <2> QED  BY <1>5, <2>1, <2>2
<1>7. PICK size, small :
        \/ u = [t EXCEPT !.cur = NewBlock(c, size)]
        \/ u = t
        \/ u = [low EXCEPT !.cur = NewBlock(c, small), !.lowVal = @ - 1, !.starved = TRUE]
        \/ u = low
  BY DEF AllocBlock, low
<1> HIDE DEF u
<1> SUFFICES /\ TxGood(c, u) /\ u.rem = t.rem /\ u.dropped = t.dropped
             /\ t.starved => u.starved
             /\ u.cur # None => u.cur.dgrams = <<>>
  BY DEF u
<1>8. CASE u = [t EXCEPT !.cur = NewBlock(c, size)]
  BY <1>1, <1>2, <1>3, <1>8 DEF TxGood, TxFields
<1>9. CASE u = t
  BY <1>9
<1>10. CASE u = [low EXCEPT !.cur = NewBlock(c, small), !.lowVal = @ - 1, !.starved = TRUE]
  <2>1. low.lowVal - 1 \in 0 .. 10
    BY <1>6
  <2> QED  BY <2>1, <1>1, <1>2, <1>6, <1>10 DEF TxGood, TxFields
<1>11. CASE u = low
  BY <1>3, <1>6, <1>11 DEF TxGood
<1> QED  BY <1>7, <1>8, <1>9, <1>10, <1>11

\* Finishing the block leaves its frames alone.
LEMMA FinishKeeps ==
  ASSUME NEW c, NEW t, IsBlock(t.cur)
  PROVE  LET b == FinishBlock(c, t) IN IsBlock(b) /\ b.dgrams = t.cur.dgrams
  BY DEF FinishBlock, IsBlock

\* The block that goes out takes its frames along.
LEMMA Leaves ==
  ASSUME NEW B, NEW C, NEW K, NEW D, NEW n \in Nat, Accounts(B, C, K, {}, D, n)
  PROVE  Accounts(B \cup C, {}, K, {}, D, n) /\ \A x \in B, y \in C : x < y
  BY DEF Accounts

\* The end of the call: what waits has room, what does not is on its way.
LEMMA DecideKeeps ==
  ASSUME NEW c, NEW skb, NEW done, NEW B, NEW n \in Nat, Loop(done), Knows(c, done),
         c.tx_max_datagrams \in Nat \ {0}, Sound(done.t, B, {}, n),
         done.t.lowVal \in 0 .. 10, done.t.lowMax \in 0 .. 10, done.t.starved \in BOOLEAN
  PROVE  LET r == Decide(c, skb, done)
         IN /\ TxGood(c, r.t) /\ Sound(r.t, B \cup Ids(r.out), {}, n)
            /\ r.out # None =>
                 IsBlock(r.out) /\ Ordered(r.out) /\ \A x \in B, y \in Ids(r.out) : x < y
            /\ r.t.starved = done.t.starved /\ r.t.rem = done.t.rem
            /\ skb = None => Ids(r.t.cur) = {}
<1> DEFINE r == Decide(c, skb, done)
           len == Len(done.t.cur.dgrams)
           waits == len < c.tx_max_datagrams /\ skb # None /\ done.stop # "full" /\ c.timer
           filled == FinishBlock(c, done.t)
           gone == [done.t EXCEPT !.cur = None, !.delayed = IF c.toEnd THEN FALSE ELSE @]
<1> SUFFICES /\ TxGood(c, r.t) /\ Sound(r.t, B \cup Ids(r.out), {}, n)
             /\ r.out # None =>
                  IsBlock(r.out) /\ Ordered(r.out) /\ \A x \in B, y \in Ids(r.out) : x < y
             /\ r.t.starved = done.t.starved /\ r.t.rem = done.t.rem
             /\ skb = None => Ids(r.t.cur) = {}
  OBVIOUS
<1>1. /\ TxFields \subseteq DOMAIN done.t /\ IsBlock(done.t.cur) /\ done.t.cur # None
      /\ done.t.cur.dgrams \in Seq(Range(done.t.cur.dgrams))
  BY BlockNotNone DEF Loop, IsBlock
<1>2. len \in Nat /\ (len = 0 <=> done.t.cur.dgrams = <<>>)
      /\ DOMAIN done.t.cur.dgrams = 1 .. len
  BY <1>1
<1>3. IF len = 0 \/ waits THEN r = [t |-> done.t, out |-> None] ELSE r = [t |-> gone, out |-> filled]
  BY DEF Decide
<1>4. IsBlock(filled) /\ filled # None /\ filled.dgrams = done.t.cur.dgrams
  BY <1>1, FinishKeeps, BlockNotNone
<1> HIDE DEF r, filled
<1>5. CASE len = 0 \/ waits
  <2>1. r.t = done.t /\ r.out = None
    BY <1>3, <1>5
  <2>2. len < c.tx_max_datagrams
    BY <1>2, <1>5
  <2>3. done.t.cur.dgrams # <<>> => done.t.rem = None
    <3>1. done.t.cur.dgrams # <<>> => done.stop = "no"
      BY <1>2, <1>5 DEF Knows, Loop
    <3> QED  BY <2>2, <3>1 DEF Knows
  <2>4. TxGood(c, r.t)
    BY <1>1, <2>1, <2>2, <2>3 DEF TxGood
  <2>5. Ids(r.out) = {} /\ B \cup {} = B
    BY <2>1 DEF Ids
  <2>6. skb = None => Ids(r.t.cur) = {}
    BY <1>1, <1>2, <1>5, <2>1 DEF Ids
  <2> HIDE DEF len, waits
  <2> QED  BY <2>1, <2>4, <2>5, <2>6
<1>6. CASE ~(len = 0 \/ waits)
  <2>1. r.t = gone /\ r.out = filled
    BY <1>3, <1>6
  <2>2. /\ gone.cur = None /\ gone.rem = done.t.rem /\ gone.dropped = done.t.dropped
        /\ gone.starved = done.t.starved /\ gone.lowVal = done.t.lowVal
        /\ gone.lowMax = done.t.lowMax /\ TxFields \subseteq DOMAIN gone
    BY <1>1 DEF TxFields
  <2> HIDE DEF gone, len, waits
  <2>3. Ids(filled) = Ids(done.t.cur) /\ (Ordered(done.t.cur) => Ordered(filled))
    BY <1>1, <1>4 DEF Ids, Ordered
  <2>4. Ids(gone.cur) = {} /\ Ordered(gone.cur)
    BY <2>2 DEF Ids, Ordered
  <2>5. /\ Accounts(B, Ids(done.t.cur), IdOf(done.t.rem), {}, done.t.dropped, n)
        /\ Ordered(done.t.cur)
    BY DEF Sound
  <2>6. /\ Accounts(B \cup Ids(done.t.cur), {}, IdOf(done.t.rem), {}, done.t.dropped, n)
        /\ \A x \in B, y \in Ids(done.t.cur) : x < y
    BY <2>5, Leaves
  <2>7. Sound(gone, B \cup Ids(filled), {}, n)
    BY <2>2, <2>3, <2>4, <2>6 DEF Sound
  <2>8. TxGood(c, gone)
    BY <2>2 DEF TxGood
  <2> QED  BY <1>4, <2>1, <2>2, <2>3, <2>4, <2>5, <2>6, <2>7, <2>8
<1> QED  BY <1>5, <1>6

\* Without a block the new frame takes the place of the one kept before.
LEMMA KeptInstead ==
  ASSUME NEW B, NEW C, NEW K, NEW D, NEW n \in Nat, NEW x, Accounts(B, C, K, {x}, D, n)
  PROVE  Accounts(B, C, {x}, {}, D \cup K, n)
<1>1. x \in 1 .. n /\ K \subseteq 1 .. n /\ B \cup C \subseteq 1 .. n
  BY DEF Accounts
<1>2. x \notin K /\ K \cap (B \cup C) = {}
  BY <1>1 DEF Accounts
<1> QED  BY <1>2 DEF Accounts

\* With a block both are in hand.
LEMMA TakenInHand ==
  ASSUME NEW B, NEW C, NEW K, NEW H, NEW D, NEW n \in Nat, Accounts(B, C, K, H, D, n)
  PROVE  Accounts(B, C, {}, K \cup H, D, n)
  BY DEF Accounts

\* No memory for a block (1464-1473).
LEMMA NoBlock ==
  ASSUME NEW c, NEW t, NEW skb, NEW B, NEW n \in Nat, TxGood(c, t),
         c.tx_max_datagrams \in Nat \ {0}, Sound(t, B, IdOf(skb), n), t.cur = None
  PROVE  Filling(c, t, skb, FillBlock(c, t, skb, IF skb = None THEN None ELSE t.rem), B, n)
<1> DEFINE head == IF skb = None THEN None ELSE t.rem
           u == [t EXCEPT !.rem = IF skb = None THEN @ ELSE skb, !.starved = TRUE,
                          !.dropped = IF head = None THEN @ ELSE @ \cup {head.id}]
           r == FillBlock(c, t, skb, head)
<1>1. r.t = u /\ r.out = None
  BY DEF FillBlock
<1>2. TxFields \subseteq DOMAIN t
  BY DEF TxGood
<1>3. /\ u.cur = None /\ u.rem = (IF skb = None THEN t.rem ELSE skb) /\ u.starved = TRUE
      /\ u.dropped = IF head = None THEN t.dropped ELSE t.dropped \cup {head.id}
      /\ u.lowVal = t.lowVal /\ u.lowMax = t.lowMax /\ TxFields \subseteq DOMAIN u
  BY <1>2 DEF TxFields
<1> HIDE DEF r, u
<1>4. Accounts(B, Ids(u.cur), IdOf(u.rem), {}, u.dropped, n)
  <2>1. Accounts(B, Ids(t.cur), IdOf(t.rem), IdOf(skb), t.dropped, n) /\ u.cur = t.cur
    BY <1>3 DEF Sound
  <2>2. CASE skb = None
    BY <2>1, <2>2, <1>3 DEF IdOf
  <2>3. CASE skb # None
    <3>1. IdOf(skb) = {skb.id} /\ IdOf(u.rem) = {skb.id} /\ u.dropped = t.dropped \cup IdOf(t.rem)
      BY <2>3, <1>3 DEF IdOf
    <3>2. Accounts(B, Ids(t.cur), {skb.id}, {}, t.dropped \cup IdOf(t.rem), n)
      BY <2>1, <3>1, KeptInstead
    <3> QED  BY <2>1, <3>1, <3>2
  <2> QED  BY <2>2, <2>3
<1>5. Ids(None) = {} /\ B \cup {} = B /\ Ordered(None)
  BY DEF Ids, Ordered
<1>6. Sound(u, B, {}, n)
  BY <1>3, <1>4, <1>5 DEF Sound
<1>7. TxGood(c, u)
  BY <1>3 DEF TxGood
<1>8. Filling(c, t, skb, r, B, n)
  BY <1>1, <1>3, <1>5, <1>6, <1>7 DEF Filling
<1> QED  BY <1>8 DEF r

\* With a block: the frame kept before, the new one, the end.
LEMMA WithBlock ==
  ASSUME NEW c, NEW t, NEW skb, NEW head, NEW B, NEW n \in Nat, TxGood(c, t),
         c.tx_max_datagrams \in Nat \ {0}, Sound(t, B, IdOf(skb), n), t.cur # None
  PROVE  Filling(c, t, skb, FillBlock(c, t, skb, head), B, n)
<1> DEFINE empty == [t |-> [t EXCEPT !.rem = None], stop |-> "no"]
           one == AddFrame(c, empty, t.rem)
           done == AddFrame(c, one, skb)
           r == FillBlock(c, t, skb, head)
<1>1. r = Decide(c, skb, done)
  BY DEF FillBlock, Waiting
<1>2. /\ TxFields \subseteq DOMAIN t /\ IsBlock(t.cur)
      /\ Len(t.cur.dgrams) < c.tx_max_datagrams /\ (t.cur.dgrams # <<>> => t.rem = None)
      /\ t.lowVal \in 0 .. 10 /\ t.lowMax \in 0 .. 10 /\ t.starved \in BOOLEAN
  BY DEF TxGood
<1>3. /\ Loop(empty) /\ empty.stop = "no" /\ empty.t.rem = None /\ empty.t.cur = t.cur
      /\ empty.t.dropped = t.dropped /\ empty.t.starved = t.starved
      /\ empty.t.lowVal = t.lowVal /\ empty.t.lowMax = t.lowMax
  BY <1>2 DEF Loop, TxFields
<1> HIDE DEF empty
<1>4. Knows(c, empty)
  BY <1>3 DEF Knows
<1>5. Sound(empty.t, B, IdOf(t.rem) \cup IdOf(skb), n) /\ \A x \in IdOf(t.rem), y \in IdOf(skb) : x < y
  <2>1. /\ Accounts(B, Ids(t.cur), IdOf(t.rem), IdOf(skb), t.dropped, n) /\ Ordered(t.cur)
    BY DEF Sound
  <2>2. IdOf(empty.t.rem) = {}
    BY <1>3 DEF IdOf
  <2>3. Accounts(B, Ids(t.cur), {}, IdOf(t.rem) \cup IdOf(skb), t.dropped, n)
    BY <2>1, TakenInHand
  <2>4. \A x \in IdOf(t.rem), y \in IdOf(skb) : x < y
    BY <2>1 DEF Accounts
  <2> QED  BY <2>1, <2>2, <2>3, <2>4, <1>3 DEF Sound
<1>6. Loop(one) /\ Untouched(empty, one)
  BY <1>3, AddFrameEnds
<1>7. Sound(one.t, B, IdOf(skb), n)
  BY <1>3, <1>5, AddFrameKeeps
<1>8. Knows(c, one)
  BY <1>3, <1>4, AddFrameKnows
<1>9. (one.stop # "full" => one.t.rem = None) /\ (t.cur.dgrams = <<>> => one.t.rem = None)
  BY <1>2, <1>3, AddFrameFirst
<1>10. t.rem = None => one = empty
  BY DEF AddFrame
<1> HIDE DEF one
<1>11. Loop(done) /\ Untouched(one, done) /\ Knows(c, done)
  BY <1>6, <1>8, AddFrameEnds, AddFrameKnows
<1>12. Sound(done.t, B, {}, n)
  <2>1. IdOf(skb) \cup {} = IdOf(skb) /\ \A x \in IdOf(skb), y \in {} : x < y
    OBVIOUS
  <2> QED  BY <2>1, <1>6, <1>7, <1>9, AddFrameKeeps
<1>13. skb = None => done.t.rem = None
  <2>1. skb = None => done = one
    BY DEF AddFrame
  <2> QED  BY <2>1, <1>2, <1>3, <1>9, <1>10
<1>14. t.rem = None /\ Ids(t.cur) = {} => done.t.rem = None
  <2> SUFFICES ASSUME t.rem = None, Ids(t.cur) = {}
               PROVE  done.t.rem = None
    OBVIOUS
  <2>1. t.cur.dgrams \in Seq(Range(t.cur.dgrams)) /\ t.cur # None
    BY <1>2 DEF IsBlock
  <2>2. DOMAIN t.cur.dgrams = {}
    BY <2>1 DEF Ids
  <2>3. t.cur.dgrams = <<>>
    <3>1. Len(t.cur.dgrams) \in Nat /\ DOMAIN t.cur.dgrams = 1 .. Len(t.cur.dgrams)
      BY <2>1
    <3>2. 1 \notin 1 .. Len(t.cur.dgrams)
      BY <3>1, <2>2
    <3>3. Len(t.cur.dgrams) = 0
      BY <3>1, <3>2
    <3> QED  BY <2>1, <3>3
  <2>4. one = empty
    BY <1>10
  <2> QED  BY <1>2, <1>3, <2>3, <2>4, AddFrameFirst
<1> HIDE DEF done
<1>15. done.t.lowVal = t.lowVal /\ done.t.lowMax = t.lowMax /\ done.t.starved = t.starved
  BY <1>3, <1>6, <1>11 DEF Untouched
<1>16. /\ TxGood(c, r.t) /\ Sound(r.t, B \cup Ids(r.out), {}, n)
       /\ r.out # None =>
            IsBlock(r.out) /\ Ordered(r.out) /\ \A x \in B, y \in Ids(r.out) : x < y
       /\ r.t.starved = done.t.starved /\ r.t.rem = done.t.rem
       /\ skb = None => Ids(r.t.cur) = {}
  <2>1. done.t.lowVal \in 0 .. 10 /\ done.t.lowMax \in 0 .. 10 /\ done.t.starved \in BOOLEAN
    BY <1>2, <1>15
  <2>2. LET q == Decide(c, skb, done)
        IN /\ TxGood(c, q.t) /\ Sound(q.t, B \cup Ids(q.out), {}, n)
           /\ q.out # None =>
                IsBlock(q.out) /\ Ordered(q.out) /\ \A x \in B, y \in Ids(q.out) : x < y
           /\ q.t.starved = done.t.starved /\ q.t.rem = done.t.rem
           /\ skb = None => Ids(q.t.cur) = {}
    BY <1>11, <1>12, <2>1, DecideKeeps
  <2> HIDE DEF r
  <2> QED  BY <1>1, <2>2
<1> HIDE DEF r
<1>17. Filling(c, t, skb, r, B, n)
  BY <1>13, <1>14, <1>15, <1>16 DEF Filling
<1> QED  BY <1>17 DEF r

\* cdc_ncm_fill_tx_frame loses no frame, and leaves none behind that it could send.
LEMMA FillKeeps ==
  ASSUME NEW c, NEW t, NEW skb, NEW first, NEW second, NEW B, NEW n \in Nat, TxGood(c, t),
         c.tx_max_datagrams \in Nat \ {0}, Sound(t, B, IdOf(skb), n)
  PROVE  Filling(c, t, skb, FillTxFrame(c, t, skb, first, second), B, n)
<1> DEFINE head == IF skb = None THEN None ELSE t.rem
           u == IF t.cur = None THEN AllocBlock(c, t, head, first, second) ELSE t
           r == FillBlock(c, u, skb, head)
<1>1. FillTxFrame(c, t, skb, first, second) = r
  BY DEF FillTxFrame
<1>2. /\ TxGood(c, u) /\ u.rem = t.rem /\ u.dropped = t.dropped
      /\ t.starved => u.starved
      /\ Ids(u.cur) = Ids(t.cur) /\ (Ordered(t.cur) => Ordered(u.cur))
  <2>1. CASE t.cur = None
    <3>1. /\ TxGood(c, u) /\ u.rem = t.rem /\ u.dropped = t.dropped
          /\ t.starved => u.starved
          /\ u.cur # None => u.cur.dgrams = <<>>
      BY <2>1, AllocKeeps
    <3> HIDE DEF u
    <3>2. Ids(u.cur) = {} /\ Ordered(u.cur) /\ Ids(t.cur) = {}
      BY <2>1, <3>1 DEF Ids, Ordered
    <3> QED  BY <3>1, <3>2
  <2>2. CASE t.cur # None
    BY <2>2
  <2> QED  BY <2>1, <2>2
<1> HIDE DEF u
<1>3. Sound(u, B, IdOf(skb), n)
  BY <1>2 DEF Sound
<1>4. Filling(c, u, skb, r, B, n)
  <2>1. CASE u.cur = None
    <3>1. head = IF skb = None THEN None ELSE u.rem
      BY <1>2
    <3> QED  BY <1>2, <1>3, <2>1, <3>1, NoBlock
  <2>2. CASE u.cur # None
    BY <1>2, <1>3, <2>2, WithBlock
  <2> QED  BY <2>1, <2>2
<1> HIDE DEF r
<1>5. Filling(c, t, skb, r, B, n)
  BY <1>2, <1>4 DEF Filling
<1> QED  BY <1>1, <1>5

-----------------------------------------------------------------------------
(* The frames over the whole run *)

Increasing(s) == \A i, j \in DOMAIN s : i < j => s[i] < s[j]

\* Putting a later sequence behind an earlier one.
LEMMA ConcatIncreasing ==
  ASSUME NEW s \in Seq(Nat), NEW t \in Seq(Nat), Increasing(s), Increasing(t),
         \A x \in Range(s), y \in Range(t) : x < y
  PROVE  /\ s \o t \in Seq(Nat) /\ Increasing(s \o t)
         /\ Range(s \o t) = Range(s) \cup Range(t)
<1> DEFINE u == s \o t
           n == Len(s)
           m == Len(t)
<1>1. /\ u \in Seq(Nat) /\ Len(u) = n + m /\ n \in Nat /\ m \in Nat
      /\ \A i \in 1 .. n + m : u[i] = IF i <= n THEN s[i] ELSE t[i - n]
  BY ConcatProperties
<1>2. DOMAIN u = 1 .. n + m /\ DOMAIN s = 1 .. n /\ DOMAIN t = 1 .. m
  BY <1>1
<1> HIDE DEF u, n, m
<1>3. /\ \A i \in 1 .. n : u[i] = s[i] /\ i \in 1 .. n + m
      /\ \A i \in 1 .. m : u[n + i] = t[i] /\ n + i \in 1 .. n + m
      /\ \A i \in 1 .. n + m : i \in 1 .. n \/ (i - n \in 1 .. m /\ u[i] = t[i - n])
  BY <1>1
<1>4. Range(u) = Range(s) \cup Range(t)
  <2>1. Range(s) \subseteq Range(u)
    BY <1>2, <1>3 DEF Range
  <2>2. Range(t) \subseteq Range(u)
    BY <1>2, <1>3 DEF Range
  <2>3. Range(u) \subseteq Range(s) \cup Range(t)
    BY <1>2, <1>3 DEF Range
  <2> QED  BY <2>1, <2>2, <2>3
<1>5. Increasing(u)
  <2> SUFFICES ASSUME NEW i \in 1 .. n + m, NEW j \in 1 .. n + m, i < j
               PROVE  u[i] < u[j]
    BY <1>2 DEF Increasing
  <2>1. CASE i \in 1 .. n /\ j \in 1 .. n
    BY <1>2, <1>3, <2>1 DEF Increasing
  <2>2. CASE i \in 1 .. n /\ j \notin 1 .. n
    <3>1. u[i] = s[i] /\ u[j] = t[j - n] /\ j - n \in 1 .. m
      BY <1>3, <2>2
    <3>2. s[i] \in Range(s) /\ t[j - n] \in Range(t)
      BY <1>2, <2>2, <3>1 DEF Range
    <3> QED  BY <3>1, <3>2
  <2>3. CASE i \notin 1 .. n
    <3>1. j \notin 1 .. n
      BY <1>1, <2>3
    <3>2. /\ u[i] = t[i - n] /\ i - n \in 1 .. m /\ u[j] = t[j - n] /\ j - n \in 1 .. m
          /\ i - n < j - n
      BY <1>1, <1>3, <2>3, <3>1
    <3> QED  BY <1>2, <3>2 DEF Increasing
  <2> QED  BY <2>1, <2>2, <2>3
<1> QED  BY <1>1, <1>4, <1>5 DEF u

\* The frames of a block as a sequence of their ids.
LEMMA IdsInOrder ==
  ASSUME NEW b, IsBlock(b), Ordered(b), Ids(b) \subseteq Nat
  PROVE  LET s == [i \in DOMAIN b.dgrams |-> b.dgrams[i].id]
         IN s \in Seq(Nat) /\ Increasing(s) /\ Range(s) = Ids(b)
<1> DEFINE s == [i \in DOMAIN b.dgrams |-> b.dgrams[i].id]
           n == Len(b.dgrams)
<1>1. b # None /\ b.dgrams \in Seq(Range(b.dgrams))
  BY BlockNotNone DEF IsBlock
<1>2. n \in Nat /\ DOMAIN b.dgrams = 1 .. n
  BY <1>1
<1>3. \A i \in 1 .. n : b.dgrams[i].id \in Nat
  BY <1>1, <1>2 DEF Ids
<1>4. s \in [1 .. n -> Nat]
  BY <1>2, <1>3
<1>5. s \in Seq(Nat)
  BY <1>2, <1>4, SeqDef
<1>6. Increasing(s)
  BY <1>1 DEF Ordered, Increasing
<1>7. Range(s) = Ids(b)
  BY <1>1 DEF Range, Ids
<1> QED  BY <1>5, <1>6, <1>7

\* The history grows by the block that goes out.
LEMMA SentGrows ==
  ASSUME NEW r, Sends(r), sent \in Seq(Nat), Increasing(sent),
         r.out # None => /\ IsBlock(r.out) /\ Ordered(r.out) /\ Ids(r.out) \subseteq Nat
                         /\ \A x \in Range(sent), y \in Ids(r.out) : x < y
  PROVE  /\ sent' \in Seq(Nat) /\ Increasing(sent')
         /\ Range(sent') = Range(sent) \cup Ids(r.out)
<1>1. CASE r.out = None
  BY <1>1 DEF Sends, Ids
<1>2. CASE r.out # None
  <2> DEFINE s == [i \in DOMAIN r.out.dgrams |-> r.out.dgrams[i].id]
  <2>1. s \in Seq(Nat) /\ Increasing(s) /\ Range(s) = Ids(r.out)
    BY <1>2, IdsInOrder
  <2>2. sent' = sent \o s
    BY <1>2 DEF Sends
  <2> HIDE DEF s
  <2>3. \A x \in Range(sent), y \in Range(s) : x < y
    BY <1>2, <2>1
  <2> QED  BY <2>1, <2>2, <2>3, ConcatIncreasing
<1> QED  BY <1>1, <1>2

\* What is kept about the frames.  Before the first binding and after the last
\* there is nothing.
FramesInv ==
  /\ issued \in Nat /\ sent \in Seq(Nat) /\ Increasing(sent)
  /\ TxGood(ctx, tx)
  /\ phase \in {"none", "claim"} =>
       sent = <<>> /\ issued = 0 /\ bh = "idle" /\ ~sched /\ ~timer
  /\ ~Bound => tx = NewTx
  /\ Bound => Sound(tx, Range(sent), {}, issued)

\* A call of cdc_ncm_fill_tx_frame, whatever the caller does with what it leaves.
LEMMA CallKeeps ==
  ASSUME NEW skb, NEW first, NEW second, NEW n \in Nat, NEW r,
         r = FillTxFrame(ctx, tx, skb, first, second),
         SizesInv, FramesInv, Bound, Sends(r), Sound(tx, Range(sent), IdOf(skb), n)
  PROVE  /\ sent' \in Seq(Nat) /\ Increasing(sent')
         /\ TxGood(ctx, r.t) /\ Sound(r.t, Range(sent'), {}, n)
         /\ tx.starved => r.t.starved
         /\ skb = None \/ (tx.rem = None /\ Ids(tx.cur) = {}) => r.t.starved \/ r.t.rem = None
         /\ skb = None => Ids(r.t.cur) = {}
<1>1. ctx.tx_max_datagrams \in Nat \ {0}
  BY DEF SizesInv, SizesKept, TxNumbers, DatagramsMax
<1>2. TxGood(ctx, tx) /\ sent \in Seq(Nat) /\ Increasing(sent)
  BY DEF FramesInv
<1>3. Filling(ctx, tx, skb, r, Range(sent), n)
  BY <1>1, <1>2, FillKeeps
<1>4. Ids(r.out) \subseteq Nat
  BY <1>3 DEF Filling, Sound, Accounts
<1>5. /\ sent' \in Seq(Nat) /\ Increasing(sent')
      /\ Range(sent') = Range(sent) \cup Ids(r.out)
  BY <1>2, <1>3, <1>4, SentGrows DEF Filling
<1> QED  BY <1>3, <1>5 DEF Filling

\* An empty transmit side is good for all sizes.
LEMMA NewTxGood ==
  ASSUME NEW c
  PROVE  /\ TxGood(c, NewTx) /\ NewTx.rem = None /\ NewTx.cur = None /\ NewTx.dropped = {}
         /\ Ids(NewTx.cur) = {} /\ IdOf(NewTx.rem) = {} /\ Ordered(NewTx.cur)
  BY DEF TxGood, NewTx, TxFields, Ids, IdOf, Ordered

\* Of the sizes only the number of datagrams matters.
LEMMA CountMatters ==
  ASSUME NEW c, NEW u, NEW t, TxGood(c, t), u.tx_max_datagrams = c.tx_max_datagrams
  PROVE  TxGood(u, t)
  BY DEF TxGood

\* No store changes it.
LEMMA StoresKeepCount ==
  ASSUME SizesInv, Bound, Store
  PROVE  ctx'.tx_max_datagrams = ctx.tx_max_datagrams
<1>1. "tx_max_datagrams" \in DOMAIN ctx
  BY DEF SizesInv, SizesKept, TxNumbers
<1>2. CASE RxMaxStore \/ TxMaxStore
  BY <1>1, <1>2 DEF RxMaxStore, TxMaxStore, UpdateRxTxMax, Resized, UpdateMax
<1>3. CASE StoreEnds
  BY <1>1, <1>3 DEF StoreEnds, UpdateMinTxPkt
<1>4. CASE MinTxPktStore \/ TimerStore \/ NdpToEndStore
  BY <1>1, <1>4 DEF MinTxPktStore, TimerStore, NdpToEndStore
<1>5. CASE ChangeMtu
  BY <1>1, <1>5 DEF ChangeMtu, SetDgramSize
<1> QED  BY <1>2, <1>3, <1>4, <1>5 DEF Store

\* A flush: the frame in hand is none.
LEMMA FlushKeeps ==
  ASSUME NEW first, NEW second, NEW r, r = FillTxFrame(ctx, tx, None, first, second),
         SizesInv, FramesInv, Bound, Sends(r)
  PROVE  /\ sent' \in Seq(Nat) /\ Increasing(sent')
         /\ TxGood(ctx, r.t) /\ Sound(r.t, Range(sent'), {}, issued)
         /\ tx.starved => r.t.starved
         /\ r.t.starved \/ r.t.rem = None
         /\ Ids(r.t.cur) = {}
<1>1. IdOf(None) = {}
  BY DEF IdOf
<1>2. issued \in Nat /\ Sound(tx, Range(sent), IdOf(None), issued)
  BY <1>1 DEF FramesInv
<1> QED  BY <1>2, CallKeeps

\* What a store of tx_max leaves of a flushed block: nothing.
LEMMA ResizeKeeps ==
  ASSUME NEW first, NEW second, NEW r, r = FillTxFrame(ctx, tx, None, first, second),
         SizesInv, FramesInv, Bound, Flushed(r)
  PROVE  /\ sent' \in Seq(Nat) /\ Increasing(sent')
         /\ TxGood(ctx, tx') /\ Sound(tx', Range(sent'), {}, issued)
         /\ tx.starved => tx'.starved
         /\ tx'.starved \/ tx'.rem = None
         /\ Ids(tx'.cur) = {}
<1>1. Sends(r) /\ tx' = [r.t EXCEPT !.cur = None]
  BY DEF Flushed
<1>2. /\ sent' \in Seq(Nat) /\ Increasing(sent')
      /\ TxGood(ctx, r.t) /\ Sound(r.t, Range(sent'), {}, issued)
      /\ tx.starved => r.t.starved
      /\ r.t.starved \/ r.t.rem = None
      /\ Ids(r.t.cur) = {}
  BY <1>1, FlushKeeps
<1>3. /\ TxFields \subseteq DOMAIN tx' /\ tx'.cur = None /\ tx'.rem = r.t.rem
      /\ tx'.dropped = r.t.dropped /\ tx'.starved = r.t.starved
      /\ tx'.lowVal = r.t.lowVal /\ tx'.lowMax = r.t.lowMax
  BY <1>1, <1>2 DEF TxGood, TxFields
<1>4. Ids(tx'.cur) = {} /\ Ordered(tx'.cur)
  BY <1>3 DEF Ids, Ordered
<1>5. Sound(tx', Range(sent'), {}, issued)
  BY <1>2, <1>3, <1>4 DEF Sound
<1>6. TxGood(ctx, tx')
  BY <1>2, <1>3 DEF TxGood
<1> QED  BY <1>2, <1>3, <1>4, <1>5, <1>6

\* A store of ndp_to_end flushes, and marks the transmit side if an empty block stays.
LEMMA TurnKeeps ==
  ASSUME SizesInv, FramesInv, NdpToEndStore
  PROVE  /\ Bound /\ sent' \in Seq(Nat) /\ Increasing(sent')
         /\ TxGood(ctx, tx') /\ Sound(tx', Range(sent'), {}, issued)
         /\ tx'.starved \/ tx'.rem = None
         /\ Ids(tx'.cur) = {}
<1>1. PICK enable \in BOOLEAN, first \in Memory, second \in Memory :
        LET r == FillTxFrame(ctx, tx, None, first, second)
        IN /\ tx' = [r.t EXCEPT !.turned = @ \/ (enable # ctx.toEnd /\ Indexed(r.t.cur))]
           /\ Sends(r)
  BY DEF NdpToEndStore
<1> DEFINE r == FillTxFrame(ctx, tx, None, first, second)
<1>2. Bound
  BY DEF NdpToEndStore, Storing, Bound
<1>3. /\ sent' \in Seq(Nat) /\ Increasing(sent')
      /\ TxGood(ctx, r.t) /\ Sound(r.t, Range(sent'), {}, issued)
      /\ r.t.starved \/ r.t.rem = None
      /\ Ids(r.t.cur) = {}
  BY <1>1, <1>2, FlushKeeps
<1>4. \E b : tx' = [r.t EXCEPT !.turned = b]
  BY <1>1
<1> HIDE DEF r
<1>5. /\ TxFields \subseteq DOMAIN tx' /\ tx'.cur = r.t.cur /\ tx'.rem = r.t.rem
      /\ tx'.dropped = r.t.dropped /\ tx'.starved = r.t.starved
      /\ tx'.lowVal = r.t.lowVal /\ tx'.lowMax = r.t.lowMax
  BY <1>3, <1>4 DEF TxGood, TxFields
<1>6. Sound(tx', Range(sent'), {}, issued)
  BY <1>3, <1>5 DEF Sound
<1>7. TxGood(ctx, tx')
  BY <1>3, <1>5 DEF TxGood
<1> QED  BY <1>2, <1>3, <1>5, <1>6, <1>7

\* A tasklet that flushes belongs to a bound driver.
LEMMA FlusherBound ==
  ASSUME SizesInv, QuietInv, FramesInv, bh # "idle"
  PROVE  Bound
  BY DEF SizesInv, QuietInv, UnbindQuiet, FramesInv, Bound

\* A new frame comes into the hand.
LEMMA FrameComes ==
  ASSUME NEW t, NEW B, NEW n \in Nat, Sound(t, B, {}, n)
  PROVE  Sound(t, B, {n + 1}, n + 1)
<1>1. Accounts(B, Ids(t.cur), IdOf(t.rem), {}, t.dropped, n) /\ Ordered(t.cur)
  BY DEF Sound
<1>2. 1 .. n + 1 = (1 .. n) \cup {n + 1} /\ \A x \in 1 .. n : x < n + 1
  OBVIOUS
<1>3. B \cup Ids(t.cur) \cup IdOf(t.rem) \cup t.dropped = 1 .. n
  BY <1>1 DEF Accounts
<1> QED  BY <1>1, <1>2, <1>3 DEF Sound, Accounts

\* Frames move in the calls of cdc_ncm_fill_tx_frame only; there none is lost.
LEMMA FramesStep ==
  ASSUME SizesInv, QuietInv, FramesInv, [Next]_vars
  PROVE  FramesInv'
<1>1. ASSUME UNCHANGED <<tx, sent, issued>>, Bound' <=> Bound, TxGood(ctx', tx),
             phase' \in {"none", "claim"} =>
               phase \in {"none", "claim"} /\ UNCHANGED <<bh, sched, timer>>
      PROVE  FramesInv'
  BY <1>1 DEF FramesInv
<1>2. TxGood(ctx, tx) /\ issued \in Nat
  BY DEF FramesInv
<1>3. ASSUME phase' = phase, Bound, issued' = issued, ctx'.tx_max_datagrams = ctx.tx_max_datagrams,
             /\ sent' \in Seq(Nat) /\ Increasing(sent')
             /\ TxGood(ctx, tx') /\ Sound(tx', Range(sent'), {}, issued)
      PROVE  FramesInv'
  BY <1>2, <1>3, CountMatters DEF FramesInv, Bound
<1>4. CASE UNCHANGED vars
  BY <1>1, <1>2, <1>4 DEF vars, Bound
<1>5. CASE BindClaims \/ BindFails
  BY <1>1, <1>2, <1>5 DEF BindClaims, BindFails, Bound, timing, wire
<1>6. CASE Bind
  <2>1. tx' = NewTx /\ UNCHANGED <<sent, issued>> /\ phase' = "bound" /\ phase = "claim"
    BY <1>6 DEF Bind, wire
  <2>2. Range(sent) = {} /\ 1 .. issued = {} /\ sent = <<>>
    BY <2>1 DEF FramesInv, Range
  <2>3. Sound(NewTx, {}, {}, issued)
    BY <2>2, NewTxGood DEF Sound, Accounts
  <2> QED  BY <2>1, <2>2, <2>3, NewTxGood DEF FramesInv, Bound
<1>7. CASE Open \/ UnbindStop \/ HrtimerCancel \/ TaskletKill
  BY <1>1, <1>2, <1>7 DEF Open, UnbindStop, HrtimerCancel, TaskletKill, Bound, timing, wire
<1>8. CASE UnbindFree
  BY <1>8, NewTxGood DEF UnbindFree, FramesInv, Bound, timing, wire
<1>9. CASE Xmit
  <2>1. PICK len \in FrameLens, first \in Memory, second \in Memory :
          Filled(FillTxFrame(ctx, tx, [id |-> issued + 1, len |-> len], first, second))
    BY <1>9 DEF Xmit, Fill
  <2> DEFINE skb == [id |-> issued + 1, len |-> len]
             r == FillTxFrame(ctx, tx, skb, first, second)
  <2>2. Bound /\ phase' = phase /\ issued' = issued + 1 /\ ctx' = ctx
    BY <1>9 DEF Xmit, Bound
  <2>3. IdOf(skb) = {issued + 1}
    BY FrameNotNone DEF IdOf
  <2> HIDE DEF skb
  <2>4. Sound(tx, Range(sent), IdOf(skb), issued + 1)
    <3>1. Sound(tx, Range(sent), {}, issued)
      BY <2>2 DEF FramesInv
    <3> QED  BY <1>2, <2>3, <3>1, FrameComes
  <2>5. Sends(r) /\ tx' = r.t /\ issued + 1 \in Nat
    BY <2>1, <1>2 DEF Filled, skb
  <2> HIDE DEF r
  <2>6. /\ sent' \in Seq(Nat) /\ Increasing(sent')
        /\ TxGood(ctx, tx') /\ Sound(tx', Range(sent'), {}, issued + 1)
    BY <2>2, <2>4, <2>5, CallKeeps DEF r
  <2> QED  BY <2>2, <2>5, <2>6 DEF FramesInv, Bound
<1>10. CASE TimerFires \/ BhRuns \/ BhStartsTimer
  <2>1. UNCHANGED <<tx, sent, issued, phase, ctx>>
    BY <1>10 DEF TimerFires, BhRuns, BhStartsTimer, wire
  <2>2. phase \notin {"none", "claim"}
    BY <1>10 DEF FramesInv, TimerFires, BhRuns, BhStartsTimer
  <2> QED  BY <1>1, <1>2, <2>1, <2>2 DEF Bound
<1>11. CASE BhFlushes
  <2>1. PICK first \in Memory, second \in Memory :
          Filled(FillTxFrame(ctx, tx, None, first, second))
    BY <1>11 DEF BhFlushes, Fill
  <2> DEFINE r == FillTxFrame(ctx, tx, None, first, second)
  <2>2. Bound /\ phase' = phase /\ issued' = issued /\ ctx' = ctx
    BY <1>11, FlusherBound DEF BhFlushes
  <2>3. Sends(r) /\ tx' = r.t
    BY <2>1 DEF Filled
  <2>4. /\ sent' \in Seq(Nat) /\ Increasing(sent')
        /\ TxGood(ctx, r.t) /\ Sound(r.t, Range(sent'), {}, issued)
    BY <2>2, <2>3, FlushKeeps
  <2> HIDE DEF r
  <2> QED  BY <1>3, <2>2, <2>3, <2>4
<1>12. CASE Store
  <2>1. UNCHANGED <<phase, issued>>
    BY <1>12 DEF Store, RxMaxStore, TxMaxStore, UpdateRxTxMax, Resized, StoreEnds, MinTxPktStore,
                 TimerStore, NdpToEndStore, ChangeMtu
  <2>2. Bound => ctx'.tx_max_datagrams = ctx.tx_max_datagrams
    BY <1>12, StoresKeepCount
  <2>3. CASE StoreEnds \/ MinTxPktStore \/ TimerStore \/ ChangeMtu
    <3>1. UNCHANGED <<tx, sent, bh, sched, timer>>
      BY <2>3 DEF StoreEnds, MinTxPktStore, TimerStore, ChangeMtu, timing, wire
    <3>2. TxGood(ctx', tx)
      <4>1. CASE Bound
        BY <1>2, <2>2, <4>1, CountMatters
      <4>2. CASE ~Bound
        BY <4>2, NewTxGood DEF FramesInv
      <4> QED  BY <4>1, <4>2
    <3> QED  BY <1>1, <2>1, <3>1, <3>2 DEF Bound
  <2>4. CASE NdpToEndStore
    BY <1>3, <2>1, <2>2, <2>4, TurnKeeps
  <2>5. CASE RxMaxStore \/ TxMaxStore
    <3>1. Bound
      BY <2>5 DEF RxMaxStore, TxMaxStore, Storing, Bound
    <3>2. CASE UNCHANGED <<tx, out, sent>>
      <4>1. TxGood(ctx', tx)
        BY <1>2, <2>2, <3>1, CountMatters
      <4> QED  BY <1>1, <2>1, <3>1, <3>2, <4>1 DEF Bound
    <3>3. CASE \E first, second \in Memory : Flushed(FillTxFrame(ctx, tx, None, first, second))
      <4>1. PICK first \in Memory, second \in Memory :
              Flushed(FillTxFrame(ctx, tx, None, first, second))
        BY <3>3
      <4>2. /\ sent' \in Seq(Nat) /\ Increasing(sent')
            /\ TxGood(ctx, tx') /\ Sound(tx', Range(sent'), {}, issued)
        BY <3>1, <4>1, ResizeKeeps
      <4> QED  BY <1>3, <2>1, <2>2, <3>1, <4>2
    <3> QED
      BY <2>5, <3>2, <3>3 DEF RxMaxStore, TxMaxStore, UpdateRxTxMax, Resized
  <2> QED  BY <1>12, <2>3, <2>4, <2>5 DEF Store
<1>13. CASE Receive \/ Status
  BY <1>1, <1>2, <1>13 DEF Receive, Status, Bound, timing, wire
<1> QED
  BY <1>4, <1>5, <1>6, <1>7, <1>8, <1>9, <1>10, <1>11, <1>12, <1>13 DEF Next, Bh

\* The frames as one sequence: sent, collected, kept.
LEMMA FramesInOrder ==
  ASSUME FramesInv, Bound
  PROVE  LET all == sent \o Collected \o Kept
         IN /\ all \in Seq(Nat) /\ Increasing(all)
            /\ Range(all) = Range(sent) \cup Ids(tx.cur) \cup IdOf(tx.rem)
<1>1. /\ sent \in Seq(Nat) /\ Increasing(sent) /\ issued \in Nat /\ TxGood(ctx, tx)
      /\ Accounts(Range(sent), Ids(tx.cur), IdOf(tx.rem), {}, tx.dropped, issued)
      /\ Ordered(tx.cur)
  BY DEF FramesInv, Sound
<1>2. Ids(tx.cur) \subseteq Nat /\ IdOf(tx.rem) \subseteq Nat
  BY <1>1 DEF Accounts
<1>3. <<>> \in Seq(Nat) /\ Increasing(<<>>) /\ Range(<<>>) = {}
  BY DEF Increasing, Range
<1>4. Collected \in Seq(Nat) /\ Increasing(Collected) /\ Range(Collected) = Ids(tx.cur)
  <2>1. CASE tx.cur = None
    BY <1>3, <2>1 DEF Collected, Ids
  <2>2. CASE tx.cur # None
    <3>1. IsBlock(tx.cur)
      BY <1>1, <2>2 DEF TxGood
    <3> QED  BY <1>1, <1>2, <2>2, <3>1, IdsInOrder DEF Collected
  <2> QED  BY <2>1, <2>2
<1>5. Kept \in Seq(Nat) /\ Increasing(Kept) /\ Range(Kept) = IdOf(tx.rem)
  <2>1. CASE tx.rem = None
    BY <1>3, <2>1 DEF Kept, IdOf
  <2>2. CASE tx.rem # None
    <3>1. PICK x \in Nat : x = tx.rem.id
      BY <1>2, <2>2 DEF IdOf
    <3>2. <<x>> \in Seq(Nat) /\ DOMAIN <<x>> = {1} /\ <<x>>[1] = x
      OBVIOUS
    <3>3. Kept = <<x>> /\ IdOf(tx.rem) = {x}
      BY <2>2, <3>1 DEF Kept, IdOf
    <3> QED  BY <3>2, <3>3 DEF Increasing, Range
  <2> QED  BY <2>1, <2>2
<1> DEFINE early == sent \o Collected
<1>6. early \in Seq(Nat) /\ Increasing(early) /\ Range(early) = Range(sent) \cup Ids(tx.cur)
  <2>1. \A x \in Range(sent), y \in Range(Collected) : x < y
    BY <1>1, <1>4 DEF Accounts
  <2> QED  BY <1>1, <1>4, <2>1, ConcatIncreasing
<1> HIDE DEF early
<1>7. \A x \in Range(early), y \in Range(Kept) : x < y
  BY <1>1, <1>5, <1>6 DEF Accounts
<1>8. /\ early \o Kept \in Seq(Nat) /\ Increasing(early \o Kept)
      /\ Range(early \o Kept) = Range(early) \cup Range(Kept)
  BY <1>5, <1>6, <1>7, ConcatIncreasing
<1> QED  BY <1>5, <1>6, <1>8 DEF early

\* What the run starts from.
LEMMA FramesInit == Init => SizesInv /\ QuietInv /\ FramesInv
<1> SUFFICES ASSUME Init
             PROVE  SizesInv /\ QuietInv /\ FramesInv
  OBVIOUS
<1>1. SizesInv /\ QuietInv
  BY DEF Init, SizesInv, QuietInv, UnbindQuiet, Bound
<1>2. FramesInv
  BY NewTxGood DEF Init, FramesInv, Bound, Increasing
<1> QED  BY <1>1, <1>2

\* The three invariants together.
THEOREM FramesInvariant == Spec => [](SizesInv /\ QuietInv /\ FramesInv)
<1> DEFINE I == SizesInv /\ QuietInv /\ FramesInv
<1>1. Init => I
  BY FramesInit
<1>2. I /\ [Next]_vars => I'
  BY SizesStep, QuietStep, FramesStep
<1> QED
  BY <1>1, <1>2, PTL DEF Spec

\* No frame is lost, sent twice or overtaken, for all devices, frames, stores and
\* allocations (1228-1374, 450-463).
THEOREM NoFrameLost == Spec => []FramesAccounted
<1>1. SizesInv /\ QuietInv /\ FramesInv => FramesAccounted
  <2> SUFFICES ASSUME FramesInv, Bound
               PROVE  FramesAccounted
    BY DEF FramesAccounted
  <2> DEFINE all == sent \o Collected \o Kept
  <2>1. /\ all \in Seq(Nat) /\ Increasing(all)
        /\ Range(all) = Range(sent) \cup Ids(tx.cur) \cup IdOf(tx.rem)
    BY FramesInOrder
  <2>2. Accounts(Range(sent), Ids(tx.cur), IdOf(tx.rem), {}, tx.dropped, issued)
    BY DEF FramesInv, Sound
  <2> HIDE DEF all
  <2>3. DOMAIN all = 1 .. Len(all)
    BY <2>1
  <2>4. Range(all) \cup tx.dropped = 1 .. issued /\ Range(all) \cap tx.dropped = {}
    BY <2>1, <2>2 DEF Accounts
  <2>5. \A i, j \in 1 .. Len(all) : i < j => all[i] < all[j]
    BY <2>1, <2>3 DEF Increasing
  <2>6. {all[i] : i \in 1 .. Len(all)} = Range(all)
    BY <2>3 DEF Range
  <2>7. \A i \in 1 .. Len(all) : all[i] \notin tx.dropped
    BY <2>4, <2>6
  <2> QED  BY <2>4, <2>5, <2>6, <2>7 DEF FramesAccounted, all
<1> QED
  BY <1>1, FramesInvariant, PTL

-----------------------------------------------------------------------------
\* At most two turns are counted (1480-1494).
PendingInv == pending \in 0 .. 2

\* A call sets the count to two, a turn of the tasklet lowers it.
LEMMA PendingStep ==
  ASSUME PendingInv, [Next]_vars
  PROVE  PendingInv'
<1> USE DEF PendingInv
<1>1. CASE UNCHANGED pending
  BY <1>1
<1>2. CASE \E n : Paces(n)
  BY <1>2 DEF Paces
<1>3. CASE Xmit
  BY <1>2, <1>3 DEF Xmit, Fill, Filled
<1>4. CASE BhFlushes
  BY <1>2, <1>4 DEF BhFlushes, Fill, Filled
<1>5. CASE NdpToEndStore
  BY <1>2, <1>5 DEF NdpToEndStore, Fill, Filled
<1>6. CASE BhRuns
  BY <1>6 DEF BhRuns, WaitTurn
<1>7. CASE TimerStore
  BY <1>7 DEF TimerStore
<1>8. CASE ~(Xmit \/ BhFlushes \/ NdpToEndStore \/ BhRuns \/ TimerStore)
  <2>1. UNCHANGED pending
    BY <1>8 DEF Next, vars, BindClaims, BindFails, Bind, Open, UnbindStop, HrtimerCancel,
                TaskletKill, UnbindFree, TimerFires, Bh, BhStartsTimer, Store, RxMaxStore,
                TxMaxStore, UpdateRxTxMax, StoreEnds, MinTxPktStore, ChangeMtu, Receive,
                Status, timing
  <2> QED  BY <2>1
<1> QED  BY <1>3, <1>4, <1>5, <1>6, <1>7, <1>8

\* Sizes and counters stay in their range: the two of the low memory mode, which
\* alloc_skb makes move (1244-1277), the turns of the timer, and the sizes of the
\* negotiation, the stores and the MTU changes.
THEOREM TypesCorrect == Spec => []TypeOK
<1>1. Init => PendingInv
  BY DEF Init, PendingInv
<1>2. SizesInv /\ FramesInv /\ PendingInv => TypeOK
  BY DEF SizesInv, SizesKept, RxKept, TxNumbers, FramesInv, TxGood, PendingInv, TypeOK, Bound
<1> QED
  BY <1>1, <1>2, PendingStep, FramesInvariant, PTL DEF Spec

-----------------------------------------------------------------------------
(* Who sends what was collected *)

Nothing(t) == t.rem = None /\ Ids(t.cur) = {}

Awake == timer \/ sched \/ bh # "idle"

\* Nothing is left before the net device is up; from then on what is left has
\* somebody to send it, unless memory ran out.
WaitInv ==
  /\ phase \in {"none", "claim", "bound", "up"} => stop = FALSE
  /\ phase = "bound" => tx.starved \/ Nothing(tx)
  /\ phase = "up" => tx.starved \/ Nothing(tx) \/ Awake

\* What collects frames starts the timer, what stops the timer or the tasklet starts
\* the other or has flushed.
LEMMA WaitStep ==
  ASSUME SizesInv, QuietInv, FramesInv, WaitInv, [Next]_vars
  PROVE  WaitInv'
<1>1. ASSUME UNCHANGED <<phase, tx, timer, sched, bh, stop>>
      PROVE  WaitInv'
  BY <1>1 DEF WaitInv, Nothing, Awake
<1>2. ASSUME phase' = phase, UNCHANGED stop, tx'.starved \/ Nothing(tx')
      PROVE  WaitInv'
  BY <1>2 DEF WaitInv, Nothing
<1>3. CASE UNCHANGED vars
  BY <1>1, <1>3 DEF vars
<1>4. CASE BindClaims \/ BindFails
  BY <1>4 DEF BindClaims, BindFails, WaitInv, timing
<1>5. CASE Bind
  BY <1>5, NewTxGood DEF Bind, WaitInv, Nothing
<1>6. CASE Open
  BY <1>6 DEF Open, WaitInv, Nothing, timing
<1>7. CASE UnbindStop \/ HrtimerCancel \/ TaskletKill \/ UnbindFree
  BY <1>7 DEF UnbindStop, HrtimerCancel, TaskletKill, UnbindFree, WaitInv
<1>8. CASE Xmit
  <2>1. PICK len \in FrameLens, first \in Memory, second \in Memory :
          Filled(FillTxFrame(ctx, tx, [id |-> issued + 1, len |-> len], first, second))
    BY <1>8 DEF Xmit, Fill
  <2> DEFINE skb == [id |-> issued + 1, len |-> len]
             r == FillTxFrame(ctx, tx, skb, first, second)
  <2>2. /\ phase = "up" /\ Bound /\ phase' = "up"
        /\ UNCHANGED <<stop, sched, bh>> /\ issued \in Nat /\ issued + 1 \in Nat
    BY <1>8 DEF Xmit, Bound, FramesInv
  <2>3. Sends(r) /\ tx' = r.t
        /\ Paces(IF r.t.cur = None THEN 0 ELSE Len(r.t.cur.dgrams))
    BY <2>1 DEF Filled, Held
  <2>4. Sound(tx, Range(sent), IdOf(skb), issued + 1)
    <3>1. IdOf(skb) = {issued + 1}
      BY FrameNotNone DEF IdOf
    <3>2. Sound(tx, Range(sent), {}, issued)
      BY <2>2 DEF FramesInv
    <3> HIDE DEF skb
    <3> QED  BY <2>2, <3>1, <3>2, FrameComes
  <2>5. /\ TxGood(ctx, r.t)
        /\ tx.starved => r.t.starved
        /\ tx.rem = None /\ Ids(tx.cur) = {} => r.t.starved \/ r.t.rem = None
    <3> HIDE DEF skb
    <3> QED  BY <2>2, <2>3, <2>4, CallKeeps
  <2> HIDE DEF r, skb
  <2>6. CASE tx.starved \/ Awake
    <3>1. tx.starved => tx'.starved
      BY <2>3, <2>5
    <3>2. Awake => Awake'
      BY <2>2, <2>3 DEF Awake, Paces
    <3> QED  BY <2>2, <2>6, <3>1, <3>2 DEF WaitInv
  <2>7. CASE Nothing(tx) /\ ~Awake
    <3>1. CASE Ids(tx'.cur) = {}
      BY <2>2, <2>3, <2>5, <2>7, <3>1 DEF WaitInv, Nothing
    <3>2. CASE Ids(tx'.cur) # {}
      <4>1. r.t.cur # None /\ r.t.cur.dgrams \in Seq(Range(r.t.cur.dgrams))
        BY <2>3, <2>5, <3>2 DEF TxGood, IsBlock, Ids
      <4>2. DOMAIN r.t.cur.dgrams # {}
        BY <2>3, <3>2 DEF Ids
      <4>3. Len(r.t.cur.dgrams) > 0
        <5>1. /\ Len(r.t.cur.dgrams) \in Nat
              /\ DOMAIN r.t.cur.dgrams = 1 .. Len(r.t.cur.dgrams)
          BY <4>1
        <5> QED  BY <4>2, <5>1
      <4>4. timer'
        BY <2>2, <2>3, <2>7, <4>1, <4>3 DEF Paces, MayArm, WaitInv, Awake
      <4> QED  BY <2>2, <4>4 DEF WaitInv, Awake
    <3> QED  BY <3>1, <3>2
  <2> QED  BY <2>2, <2>6, <2>7 DEF WaitInv
<1>9. CASE TimerFires
  BY <1>9 DEF TimerFires, WaitInv, Nothing, Awake
<1>10. CASE BhRuns
  BY <1>10 DEF BhRuns, WaitTurn, MayArm, WaitInv, Nothing, Awake
<1>11. CASE BhStartsTimer
  BY <1>11 DEF BhStartsTimer, WaitInv, Nothing, Awake
<1>12. CASE BhFlushes
  <2>1. PICK first \in Memory, second \in Memory :
          Filled(FillTxFrame(ctx, tx, None, first, second))
    BY <1>12 DEF BhFlushes, Fill
  <2> DEFINE r == FillTxFrame(ctx, tx, None, first, second)
  <2>2. Bound /\ phase' = phase /\ UNCHANGED stop
    BY <1>12, FlusherBound DEF BhFlushes
  <2>3. Sends(r) /\ tx' = r.t
    BY <2>1 DEF Filled
  <2>4. (r.t.starved \/ r.t.rem = None) /\ Ids(r.t.cur) = {}
    BY <2>2, <2>3, FlushKeeps
  <2> HIDE DEF r
  <2> QED  BY <1>2, <2>2, <2>3, <2>4 DEF Nothing
<1>13. CASE NdpToEndStore
  <2>1. phase' = phase /\ UNCHANGED stop
    BY <1>13 DEF NdpToEndStore
  <2>2. (tx'.starved \/ tx'.rem = None) /\ Ids(tx'.cur) = {}
    BY <1>13, TurnKeeps
  <2> QED  BY <1>2, <2>1, <2>2 DEF Nothing
<1>14. CASE RxMaxStore \/ TxMaxStore
  <2>1. Bound /\ UNCHANGED <<phase, pending, timer, sched, bh, stop>>
    BY <1>14 DEF RxMaxStore, TxMaxStore, UpdateRxTxMax, Storing, Bound, timing
  <2>2. CASE UNCHANGED <<tx, out, sent>>
    BY <1>1, <2>1, <2>2
  <2>3. CASE \E first, second \in Memory : Flushed(FillTxFrame(ctx, tx, None, first, second))
    <3>1. PICK first \in Memory, second \in Memory :
            Flushed(FillTxFrame(ctx, tx, None, first, second))
      BY <2>3
    <3>2. (tx'.starved \/ tx'.rem = None) /\ Ids(tx'.cur) = {}
      BY <2>1, <3>1, ResizeKeeps
    <3> QED  BY <1>2, <2>1, <3>2 DEF Nothing
  <2> QED
    BY <1>14, <2>2, <2>3 DEF RxMaxStore, TxMaxStore, UpdateRxTxMax, Resized
<1>15. CASE StoreEnds \/ MinTxPktStore \/ TimerStore \/ ChangeMtu \/ Receive \/ Status
  BY <1>1, <1>15 DEF StoreEnds, MinTxPktStore, TimerStore, ChangeMtu, Receive, Status, timing
<1> QED
  BY <1>3, <1>4, <1>5, <1>6, <1>7, <1>8, <1>9, <1>10, <1>11, <1>12, <1>13, <1>14, <1>15
     DEF Next, Bh, Store

\* Collected and kept frames have a timer or a tasklet to send them, for all devices,
\* frames and stores; only those that met a failed allocation may wait (1468).
THEOREM NoFrameStranded == Spec => []NeverStranded
<1>1. Init => WaitInv
  BY NewTxGood DEF Init, WaitInv, Nothing
<1>2. FramesInv /\ WaitInv => NeverStranded
  <2> SUFFICES ASSUME FramesInv, WaitInv, phase = "up", ~tx.starved, ~Awake
               PROVE  Collected \o Kept = <<>>
    BY DEF NeverStranded, Awake
  <2>1. tx.rem = None /\ Ids(tx.cur) = {}
    BY DEF WaitInv, Nothing
  <2>2. Kept = <<>>
    BY <2>1 DEF Kept
  <2>3. Collected = <<>>
    <3>1. CASE tx.cur = None
      BY <3>1 DEF Collected
    <3>2. CASE tx.cur # None
      <4> DEFINE s == tx.cur.dgrams
      <4>1. s \in Seq(Range(s))
        BY <3>2 DEF FramesInv, TxGood, IsBlock
      <4>2. DOMAIN s = {}
        BY <2>1, <3>2 DEF Ids
      <4> HIDE DEF s
      <4>3. Len(s) \in Nat /\ DOMAIN s = 1 .. Len(s)
        BY <4>1
      <4>4. 1 \notin 1 .. Len(s)
        BY <4>2, <4>3
      <4>5. Len(s) = 0
        BY <4>3, <4>4
      <4>6. s = <<>>
        BY <4>1, <4>5
      <4> QED  BY <3>2, <4>6 DEF Collected, s
    <3> QED  BY <3>1, <3>2
  <2> QED  BY <2>2, <2>3
<1> QED
  BY <1>1, <1>2, WaitStep, FramesInvariant, PTL DEF Spec
=============================================================================
