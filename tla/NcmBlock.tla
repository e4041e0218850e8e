------------------------------ MODULE NcmBlock ------------------------------
(***************************************************************************)
(* Building and reading NCM transfer blocks (modules/ncm/cdc_ncm.c), as      *)
(* functions.  A block under construction is a record of its size, its       *)
(* length so far, the index in its header (ndp), where its datagram table    *)
(* really is (table; 0: not in the block, or not yet) and the datagrams; a   *)
(* received one has its tables by offset.                                    *)
(***************************************************************************)
EXTENDS NcmParams

CONSTANT LoopMax   \* the 50 of cdc_ncm_rx_fixup's loopcount

AlignUp(len, m) == ((len + m - 1) \div m) * m

\* cdc_ncm_align_tail: the new length.  Beyond max it fills up to max, and does
\* nothing where there is no room.
AlignTail(len, modulus, remainder, max) ==
  LET to == AlignUp(len, modulus) + remainder
  IN IF to <= max THEN to ELSE Upper(len, max)

NewBlock(c, size) ==
  [size |-> size, len |-> Nth(c), ndp |-> 0, table |-> 0, dgrams |-> <<>>]

\* The transmit side.  cur is the block being filled, rem the frame that goes
\* first, delayed whether the table kept for the end of the block is in use, lowVal
\* and lowMax are the counters of the low memory mode.  History: the frames dropped,
\* whether an allocation has failed, and whether ndp_to_end has changed under an
\* empty block with an index in its header.
NewTx ==
  [cur |-> None, rem |-> None, lowVal |-> 0, lowMax |-> 0, delayed |-> FALSE,
   dropped |-> {}, starved |-> FALSE, turned |-> FALSE]

\* A full size block was refused: how many small ones come before the next try.
RearmedNot(t) == t

Rearmed(t) ==
  LET cnt == Lower(t.lowMax + 1, 10)
  IN IF t.lowVal = 0 THEN [t EXCEPT !.lowMax = cnt, !.lowVal = cnt] ELSE t

\* Allocating the block; first and second: whether the two alloc_skb succeed.
AllocBlock(c, t, skb, first, second) ==
  LET small == IF skb = None THEN NtbMin ELSE Upper(skb.len, NtbMin)
      full  == t.lowVal = 0
      low   == Rearmed(t)
  IN IF full /\ first THEN [t EXCEPT !.cur = NewBlock(c, c.tx_max)]
     ELSE IF full /\ c.tx_max = NtbMin THEN t
     ELSE IF second THEN [low EXCEPT !.cur = NewBlock(c, small), !.lowVal = @ - 1,
                                     !.starved = TRUE]
     ELSE low

\* cdc_ncm_ndp16 and cdc_ncm_ndp32: find or make the table of the block.  The
\* subtraction is unsigned: a reserve larger than the room left wraps.  An index
\* where no table is (it went to the end before) leads the search astray: what lies
\* there is no table, and is linked to the new one in the place of the header.
WithTable(c, t, reserve) ==
  LET s    == t.cur
      len  == IF c.toEnd THEN s.len ELSE AlignTail(s.len, c.tx_ndp_modulus, 0, s.size)
      room == s.size - len - reserve
      body == IF c.toEnd THEN 0 ELSE c.max_ndp_size
  IN IF (c.toEnd /\ t.delayed) \/ s.table # 0 THEN [ok |-> TRUE, t |-> t]
     ELSE IF room >= 0 /\ room < c.max_ndp_size
     THEN [ok |-> FALSE, t |-> [t EXCEPT !.cur.len = len]]
     ELSE [ok |-> TRUE,
           t |-> [t EXCEPT !.cur.len = len + body,
                           !.cur.ndp = IF @ = 0 THEN len ELSE @,
                           !.cur.table = IF c.toEnd THEN 0 ELSE len,
                           !.delayed = @ \/ c.toEnd]]

\* Room kept for a table that goes to the end.
DelayedSizeNone(c) == 0

DelayedSize(c) ==
  IF c.toEnd
  THEN c.max_ndp_size + Upper(c.tx_ndp_modulus, c.tx_modulus + c.tx_remainder) - 1
  ELSE 0

\* One turn of the loop, once the table is found.
Place(c, st, f, found) ==
  LET len  == AlignTail(found.t.cur.len, c.tx_modulus, c.tx_remainder, found.t.cur.size)
      t    == [found.t EXCEPT !.cur.len = len]
      fits == found.ok /\ len + f.len + DelayedSize(c) <= found.t.cur.size
  IN IF fits
     THEN [st EXCEPT !.t = [t EXCEPT !.cur.len = len + f.len,
                 !.cur.dgrams = Append(@, [id |-> f.id, off |-> len, len |-> f.len])]]
     ELSE IF t.cur.dgrams = <<>>
     THEN [t |-> [t EXCEPT !.dropped = @ \cup {f.id}], stop |-> "unfit"]
     ELSE [t |-> [t EXCEPT !.rem = f], stop |-> "full"]

\* The loop for one frame, if there is one: st.stop says why an earlier turn left it.
AddFrame(c, st, f) ==
  IF f = None THEN st
  ELSE IF st.stop = "full" THEN [st EXCEPT !.t.dropped = @ \cup {f.id}]
  ELSE IF st.stop = "unfit" \/ Len(st.t.cur.dgrams) >= c.tx_max_datagrams
  THEN [st EXCEPT !.t.rem = f]
  ELSE Place(c, st, f, WithTable(c, st.t, f.len + c.tx_modulus + c.tx_remainder))

WaitingSwapped(skb, rem) == <<skb, rem>>

\* The frame kept from before goes first.
Waiting(skb, rem) == <<rem, skb>>

\* The end of cdc_ncm_fill_tx_frame: table to the end, padding, block length.
FinishBlock(c, t) ==
  LET s   == t.cur
      end == AlignTail(s.len, c.tx_ndp_modulus, 0, s.size - c.max_ndp_size)
      b   == IF c.toEnd
             THEN [s EXCEPT !.ndp = end, !.len = end + c.max_ndp_size,
                            !.table = IF t.delayed THEN end ELSE @]
             ELSE s
      len == IF b.len > c.min_tx_pkt THEN b.size
             ELSE IF b.len < b.size /\ b.len % MaxPacket = 0 THEN b.len + 1
             ELSE b.len
  IN [b EXCEPT !.len = len]

DecideFullWaits(c, skb, done) ==
  LET n     == Len(done.t.cur.dgrams)
      waits == n < c.tx_max_datagrams /\ skb # None /\ c.timer
  IN IF n = 0 \/ waits THEN [t |-> done.t, out |-> None]
     ELSE [t |-> [done.t EXCEPT !.cur = None, !.delayed = IF c.toEnd THEN FALSE ELSE @],
           out |-> FinishBlock(c, done.t)]

\* Whether the block waits for more frames or is sent.
Decide(c, skb, done) ==
  LET n     == Len(done.t.cur.dgrams)
      waits == n < c.tx_max_datagrams /\ skb # None /\ done.stop # "full" /\ c.timer
  IN IF n = 0 \/ waits THEN [t |-> done.t, out |-> None]
     ELSE [t |-> [done.t EXCEPT !.cur = None, !.delayed = IF c.toEnd THEN FALSE ELSE @],
           out |-> FinishBlock(c, done.t)]

\* t: with the block to fill, unless there is no memory for one.
FillBlock(c, t, skb, head) ==
  IF t.cur = None
  THEN [t |-> [t EXCEPT !.rem = IF skb = None THEN @ ELSE skb, !.starved = TRUE,
                        !.dropped = IF head = None THEN @ ELSE @ \cup {head.id}],
        out |-> None]
  ELSE LET frames == Waiting(skb, t.rem)
           empty  == [t |-> [t EXCEPT !.rem = None], stop |-> "no"]
       IN Decide(c, skb, AddFrame(c, AddFrame(c, empty, frames[1]), frames[2]))

\* cdc_ncm_fill_tx_frame.  skb is None to flush; the frame kept from before goes
\* first.  out is the block to send or None.
FillTxFrame(c, t, skb, first, second) ==
  LET head == IF skb = None THEN None ELSE t.rem
  IN FillBlock(c, IF t.cur = None THEN AllocBlock(c, t, head, first, second) ELSE t,
               skb, head)

-----------------------------------------------------------------------------
(* Receiving *)

\* The block as the other end gets it.  wBlockLength has 16 bits.
Received(c, b) ==
  [len |-> b.len, sign |-> TRUE, ndp |-> b.ndp,
   block |-> IF c.is_ndp16 THEN b.len % 65536 ELSE b.len,
   tables |-> [o \in {b.table} |->
     [sign |-> TRUE, next |-> 0, entries |-> b.dgrams,
      wLength |-> Ndp(c) + (Len(b.dgrams) + 1) * Dpe(c)]]]

\* Bytes that are no table read as one without signature.
TableAt(b, o) ==
  IF o \in DOMAIN b.tables THEN b.tables[o]
  ELSE [sign |-> FALSE, next |-> 0, entries |-> <<>>, wLength |-> 0]

\* cdc_ncm_rx_verify_nth16 and _nth32: the first table's offset, or -1.
VerifyNth(c, b) ==
  IF b.len < Nth(c) + Ndp(c) \/ ~b.sign \/ b.block > c.rx_max THEN -1 ELSE b.ndp

\* cdc_ncm_rx_verify_ndp16 and _ndp32: the number of entries, or -1.
VerifyNdp(c, b, o) ==
  LET ret == (TableAt(b, o).wLength - Ndp(c)) \div Dpe(c) - 1
  IN IF o + Ndp(c) > b.len \/ TableAt(b, o).wLength < 4 * Dpe(c) THEN -1
     ELSE IF Ndp(c) + ret * Dpe(c) > b.len THEN -1
     ELSE ret

RefusedStrict(c, b, e) ==
  e.off = 0 \/ e.len = 0 \/ e.off > b.len \/ e.len >= b.len - e.off

RefusedLoose(c, b, e) == e.off = 0 \/ e.len = 0 \/ e.off > b.len \/ e.len < EthHlen

Refused(c, b, e) ==
  \/ e.off = 0 \/ e.len = 0 \/ e.off > b.len \/ e.len > b.len - e.off
  \/ e.len > c.rx_max \/ e.len < EthHlen

\* The entries before the first that is refused; beyond those written is zero.
Accepted(c, b, table, nentries) ==
  LET n   == Lower(nentries, Len(table.entries))
      bad == {i \in 1 .. n : Refused(c, b, table.entries[i])}
      end == IF bad = {} THEN n ELSE Min(bad) - 1
  IN IF table.sign THEN SubSeq(table.entries, 1, end) ELSE <<>>

\* Where the loop over the tables begins: at the table the header names.
RxBegin(b, mem) == [at |-> b.ndp, room |-> mem, up |-> <<>>, end |-> "no"]

\* One turn of it: room datagrams can still be allocated, end says why it ended.
RxTurn(c, b, s) ==
  LET table == TableAt(b, s.at)
      n     == VerifyNdp(c, b, s.at)
      got   == Accepted(c, b, table, n)
  IN IF s.end # "no" THEN s
     ELSE IF n < 0 THEN [s EXCEPT !.end = "error"]
     ELSE IF Len(got) > s.room
     THEN [s EXCEPT !.end = "error", !.up = @ \o SubSeq(got, 1, s.room)]
     ELSE [at |-> table.next, room |-> s.room - Len(got), up |-> s.up \o got,
           end |-> IF table.next = 0 THEN "last" ELSE "no"]

\* cdc_ncm_rx_fixup after the header: mem datagrams can still be allocated.  The
\* table that is read first is not counted in LoopMax.
RxTables(c, b, mem) ==
  LET turn[k \in 0 .. LoopMax + 1] ==
        IF k = 0 THEN RxBegin(b, mem) ELSE RxTurn(c, b, turn[k - 1])
      done == turn[LoopMax + 1]
  IN [ok |-> done.end # "error", up |-> done.up]

RxFixup(c, b, mem) ==
  IF VerifyNth(c, b) < 0 THEN [ok |-> FALSE, up |-> <<>>] ELSE RxTables(c, b, mem)
=============================================================================
