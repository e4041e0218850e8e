----------------------------- MODULE NcmParams -----------------------------
(***************************************************************************)
(* The sizes of an NCM function (modules/ncm/cdc_ncm.c): what the driver    *)
(* negotiates with the device when it binds, and what the sysfs stores and  *)
(* an MTU change make of it later.  c is the struct cdc_ncm_ctx as far as   *)
(* sizes go, d what the device's descriptors and NTB parameters say.        *)
(***************************************************************************)
EXTENDS Integers, Sequences, SequencesExt, FiniteSets

CONSTANTS
  Devices,    \* the devices that may be plugged in: records of descriptors
  MaxPacket,  \* wMaxPacketSize of the bulk OUT endpoint
  InitialMtu  \* net->mtu when the interface is created

\* NULL: a record, so that TLC can compare it with the others.
None == [null |-> TRUE]

Lower(a, b) == IF a < b THEN a ELSE b
Upper(a, b) == IF a > b THEN a ELSE b

\* clamp(v, lo, hi) of the kernel: the upper limit wins.
Clamp(v, lo, hi) == Lower(Upper(v, lo), hi)

-----------------------------------------------------------------------------
(* Limits of the NCM specification and of the kernel's headers               *)

NtbMin == 2048            \* USB_CDC_NCM_NTB_MIN_IN_SIZE, _OUT_SIZE
NtbMax == 65536           \* CDC_NCM_NTB_MAX_SIZE_RX, _TX
NtbDefault == 16384       \* CDC_NCM_NTB_DEF_SIZE_RX, _TX
DatagramsMax == 40        \* CDC_NCM_DPT_DATAGRAMS_MAX
AlignMin == 4             \* USB_CDC_NCM_NDP_ALIGN_MIN_SIZE
MinTxPkt == 512           \* CDC_NCM_MIN_TX_PKT
MinDatagram == 1514       \* CDC_NCM_MIN_DATAGRAM_SIZE
MaxDatagram == 8192       \* CDC_NCM_MAX_DATAGRAM_SIZE
EthHlen == 14

\* Sizes of the transfer header, of an empty datagram table and of one entry,
\* for 16 and 32 bit blocks.
Nth(c) == IF c.is_ndp16 THEN 12 ELSE 16
Ndp(c) == IF c.is_ndp16 THEN 8 ELSE 16
Dpe(c) == IF c.is_ndp16 THEN 4 ELSE 8

-----------------------------------------------------------------------------
(* Choosing and probing the function                                         *)

\* Altsetting 1 of an NCM/MBIM function is the MBIM one; prefer: prefer_mbim.
SelectAltsetting(d, prefer) ==
  IF d.altsettings < 2 THEN 0 ELSE IF prefer /\ d.mbim THEN 1 ELSE 0

\* The first usable endpoint of each kind, unless found before.
FindEndpoints(found, eps) ==
  LET usable(kind) == SelectSeq(eps, LAMBDA e : e.kind = kind /\ e.maxp > 0)
  IN [k \in DOMAIN found |->
        IF found[k] = 0 /\ usable(k) # <<>> THEN Head(usable(k)).addr ELSE found[k]]

\* The data interface comes before the control interface.
Endpoints(d) ==
  FindEndpoints(FindEndpoints([status |-> 0, in |-> 0, out |-> 0], d.data), d.control)

-----------------------------------------------------------------------------
(* Sizes                                                                     *)

CheckRxMax(d, new) ==
  Clamp(new, NtbMin, Upper(NtbMin, Lower(NtbMax, d.dwNtbInMaxSize)))

CheckTxMax(c, d, new) ==
  LET max == IF d.dwNtbOutMaxSize = 0 THEN NtbMax
             ELSE Clamp(d.dwNtbOutMaxSize, NtbMin, NtbMax)
      min == c.max_datagram_size + c.max_ndp_size + Nth(c)
  IN Clamp(new, Lower(min, max), max)

\* The pad byte keeps a full block from ending on a packet boundary.
PaddedTxMax(d, val) ==
  IF val # d.dwNtbOutMaxSize /\ val % MaxPacket = 0 THEN val + 1 ELSE val

UpdateMaxUnheard(c, d, newRx, newTx, heard) ==
  LET val == CheckRxMax(d, newRx)
  IN [c EXCEPT !.rx_max = val, !.rx_urb_size = val,
               !.told = IF heard THEN val ELSE @,
               !.tx_max = PaddedTxMax(d, CheckTxMax(c, d, newTx))]

\* cdc_ncm_update_rxtx_max up to the new tx_max; heard: the device took the
\* input size.  told is the device's side: the largest block it may send.
UpdateMax(c, d, newRx, newTx, heard) ==
  LET val == CheckRxMax(d, newRx)
      rx  == IF heard THEN val ELSE c.rx_max
  IN [c EXCEPT !.rx_max = rx, !.rx_urb_size = rx,
               !.told = IF heard /\ val # c.rx_max THEN val ELSE @,
               !.tx_max = PaddedTxMax(d, CheckTxMax(c, d, newTx))]

\* ... and its last statement, in 16 bit arithmetic.
UpdateMinTxPkt(c) ==
  [c EXCEPT !.min_tx_pkt =
     Clamp((c.tx_max - 3 * MaxPacket) % 65536, MinTxPkt, c.tx_max % 65536)]

SetDgramSize(c, d, new) ==
  LET size == Clamp(new, MinDatagram, MaxDatagram)
  IN [c EXCEPT !.max_datagram_size = size, !.mtu = Lower(@, size - EthHlen)]

PowerOfTwo(v) == \E k \in 0 .. 16 : v = 2 ^ k

Modulus(c, v) ==
  IF v < AlignMin \/ ~PowerOfTwo(v) \/ v >= c.tx_max THEN AlignMin ELSE v

\* Where the frame has to start for its payload to sit right.
FrameRemainderPlain(rem, mod) == rem

FrameRemainder(rem, mod) == (rem - EthHlen) % mod

FixModulus(c) ==
  LET mod == Modulus(c, c.tx_modulus)
      rem == IF c.tx_remainder >= mod THEN 0 ELSE c.tx_remainder
  IN [c EXCEPT !.tx_ndp_modulus = Modulus(c, @),
               !.tx_modulus = mod,
               !.tx_remainder = FrameRemainder(rem, mod)]

MaxDatagrams(d) ==
  IF d.wNtbOutMaxDatagrams \in 1 .. DatagramsMax THEN d.wNtbOutMaxDatagrams
  ELSE DatagramsMax

\* cdc_ncm_init: prefer32 is CDC_NCM_FLAG_PREFER_NTB32, formatSet whether
\* SET_NTB_FORMAT succeeded; toEnd is CDC_NCM_FLAG_NDP_TO_END.
InitCtx(d, prefer32, formatSet, toEnd) ==
  LET ndp16 == ~(d.ntb32 /\ prefer32 /\ formatSet)
      form == [is_ndp16 |-> ndp16]
  IN [is_ndp16 |-> ndp16,
      rx_max |-> d.dwNtbInMaxSize, rx_urb_size |-> 0,
      told |-> d.dwNtbInMaxSize,
      tx_max |-> d.dwNtbOutMaxSize,
      tx_remainder |-> d.wNdpOutPayloadRemainder,
      tx_modulus |-> d.wNdpOutDivisor,
      tx_ndp_modulus |-> d.wNdpOutAlignment,
      tx_max_datagrams |-> MaxDatagrams(d),
      max_ndp_size |-> Ndp(form) + (MaxDatagrams(d) + 1) * Dpe(form),
      max_datagram_size |-> 0, min_tx_pkt |-> 0,
      timer |-> TRUE, toEnd |-> toEnd, mtu |-> InitialMtu]

\* cdc_ncm_setup: the sizes, then the alignment, then the datagram size.  The
\* first check of tx_max knows no datagram size yet.
Setup(c, d, heard) ==
  LET rx == Lower(NtbDefault, d.dwNtbInMaxSize)
      tx == Lower(NtbDefault, d.dwNtbOutMaxSize)
      c1 == UpdateMinTxPkt(UpdateMax(c, d, rx, tx, heard))
  IN SetDgramSize(FixModulus(c1), d, d.wMaxSegmentSize)
=============================================================================
