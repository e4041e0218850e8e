------------------------------- MODULE MCNcm -------------------------------
(* Values of the constants of Ncm for TLC. *)
EXTENDS Ncm

Endpoint(kind, addr, maxp) == [kind |-> kind, addr |-> addr, maxp |-> maxp]

Device(ntb32, in, max, align, divisor, remainder, datagrams, segment) ==
  [ntb32 |-> ntb32, dwNtbInMaxSize |-> in, dwNtbOutMaxSize |-> max,
   wNdpOutAlignment |-> align, wNdpOutDivisor |-> divisor,
   wNdpOutPayloadRemainder |-> remainder, wNtbOutMaxDatagrams |-> datagrams,
   wMaxSegmentSize |-> segment, altsettings |-> 1, mbim |-> FALSE,
   control |-> <<Endpoint("status", 129, 16)>>,
   data |-> <<Endpoint("in", 130, MaxPacket), Endpoint("out", 2, MaxPacket)>>]

\* A small device; one with wide alignments, MBIM beside NCM and an endpoint that is
\* of no use; one that violates the rules for alignments and leaves the number of
\* datagrams open; and one without a bulk OUT endpoint.
MCDevices ==
  {Device(FALSE, 2048, 2048, 4, 4, 0, 2, 1514),
   [Device(TRUE, 16384, 3500, 64, 32, 6, 3, 1514) EXCEPT
      !.altsettings = 2, !.mbim = TRUE, !.data = <<Endpoint("in", 131, 0)>> \o @],
   Device(TRUE, 1000, 4096, 6, 4096, 9, 0, 1514),
   [Device(FALSE, 2048, 2048, 4, 4, 0, 2, 1514) EXCEPT !.data = SubSeq(@, 1, 1)]}

Entry(off, len) == [id |-> off, off |-> off, len |-> len]

Table(ndp16, next, entries) ==
  [sign |-> TRUE, next |-> next, entries |-> entries,
   wLength |-> IF ndp16 THEN 8 + (Len(entries) + 1) * 4 ELSE 16 + (Len(entries) + 1) * 8]

Block(ndp16, kind, tables) ==
  [kind |-> kind, ndp16 |-> ndp16, len |-> 600, sign |-> TRUE, block |-> 600, ndp |-> 16,
   tables |-> tables]

TwoTables(ndp16) ==
  (16 :> Table(ndp16, 300, <<Entry(100, 60), Entry(200, 60)>>))
  @@ (300 :> Table(ndp16, 0, <<Entry(400, 80)>>))

Two(ndp16, kind) == Block(ndp16, kind, TwoTables(ndp16))

\* Sound blocks, one whose table points at itself, and damaged ones.
MCBlocksOf(ndp16) ==
  {Two(ndp16, "sound"),
   Block(ndp16, "sound", 16 :> Table(ndp16, 0, <<Entry(100, 60), Entry(300, 300)>>)),
   Block(ndp16, "loop", 16 :> Table(ndp16, 16, <<Entry(100, 60)>>)),
   [Two(ndp16, "signature") EXCEPT !.sign = FALSE],
   [Two(ndp16, "long") EXCEPT !.block = 65535],
   [Two(ndp16, "beyond") EXCEPT !.ndp = 596],
   [Two(ndp16, "no table") EXCEPT !.tables[16].sign = FALSE],
   [Two(ndp16, "outside") EXCEPT !.tables[16].entries[2].off = 541],
   [Two(ndp16, "runt") EXCEPT !.tables[16].entries[1].len = 13],
   [Two(ndp16, "null") EXCEPT !.tables[16].entries[2].off = 0]}

MCBlocks == MCBlocksOf(TRUE) \cup MCBlocksOf(FALSE)

\* The names say what the blocks are: those called sound conform, with the one whose
\* table points at itself, and no other does.
ASSUME SoundBlocks ==
  \A b \in MCBlocks :
    b.kind \in {"sound", "loop"} <=> Conforming([is_ndp16 |-> b.ndp16, rx_max |-> 2048], b)
=============================================================================
