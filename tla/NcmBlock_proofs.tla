--------------------------- MODULE NcmBlock_proofs ---------------------------
(***************************************************************************)
(* Proofs that, whatever the devices, the frames, the stores and the         *)
(* failing allocations are, every block that is sent is well formed.         *)
(*                                                                           *)
(* Geometry is what the negotiation leaves of the alignments, and no store   *)
(* changes it.  BlockGood says what holds of the block being filled after    *)
(* every turn of the loop, OutGood what finishing it makes of that.          *)
(*                                                                           *)
(* And that a frame is dropped only for want of memory or because no block   *)
(* of that size could hold it: Ample says of a block that a largest frame    *)
(* would have fitted into it when it was empty.                              *)
(*                                                                           *)
(* And that the reader agrees with the builder: what RxTables takes up of a  *)
(* block is followed turn by turn beside what the chain of tables announces, *)
(* by induction over the turns (RxRun and ReadRun say what the recursive     *)
(* functions are, Induct is the induction on a set of numbers).              *)
(***************************************************************************)
EXTENDS Ncm_proofs, WellFoundedInduction

\* What blocks are built by: the sizes of headers and tables, and the alignments.
Geometry(c) ==
  /\ {"is_ndp16", "toEnd", "tx_modulus", "tx_remainder", "tx_ndp_modulus", "tx_max_datagrams",
      "max_ndp_size", "tx_max", "min_tx_pkt", "timer"} \subseteq DOMAIN c
  /\ c.toEnd \in BOOLEAN
  /\ c.tx_modulus \in Nat \ {0} /\ c.tx_ndp_modulus \in Nat \ {0}
  /\ c.tx_remainder \in Nat /\ c.max_ndp_size \in Nat
  /\ c.tx_max_datagrams \in Nat \ {0} /\ c.tx_max \in Nat
  /\ c.max_ndp_size = Ndp(c) + (c.tx_max_datagrams + 1) * Dpe(c)

\* The datagram that starts at off is aligned.
Aligned(c, off) == \E k \in Nat : off = k * c.tx_modulus + c.tx_remainder

\* The datagrams lie in the first len bytes, one behind the other, aligned, behind
\* the header and the table, if that is in the block.
DgramsGood(c, s) ==
  /\ \A i \in DOMAIN s.dgrams :
       /\ s.dgrams[i].off \in Nat /\ s.dgrams[i].len \in Nat /\ EthHlen <= s.dgrams[i].len
       /\ Aligned(c, s.dgrams[i].off) /\ Ends(s.dgrams[i]) <= s.len
       /\ Nth(c) <= s.dgrams[i].off
       /\ s.table # 0 => s.table + c.max_ndp_size <= s.dgrams[i].off
  /\ \A i \in DOMAIN s.dgrams :
       i > 1 => i - 1 \in DOMAIN s.dgrams /\ Ends(s.dgrams[i - 1]) <= s.dgrams[i].off

\* The block under construction.  A table that found no aligned place ends it for good.
BlockGood(c, s, delayed) ==
  /\ IsBlock(s) /\ "table" \in DOMAIN s
  /\ s.size \in Nat /\ s.len \in Nat /\ s.table \in Nat /\ s.ndp \in Nat
  /\ Nth(c) <= s.len
  /\ s.table # 0 =>
       /\ Nth(c) <= s.table /\ s.table + c.max_ndp_size <= s.len
       /\ s.table % c.tx_ndp_modulus = 0 \/ s.size <= s.len
  /\ s.dgrams # <<>> =>
       /\ s.len + (IF c.toEnd THEN c.max_ndp_size ELSE 0) <= s.size
       /\ s.table # 0 => s.table % c.tx_ndp_modulus = 0
       /\ s.table # 0 \/ (c.toEnd /\ delayed)
  /\ DgramsGood(c, s)

\* The header tells the truth, or will.
IndexGood(c, t) ==
  ~t.turned /\ t.cur # None =>
    IF c.toEnd THEN t.cur.table = 0 ELSE t.cur.ndp = t.cur.table

\* There is room for a table at the end, with every alignment.
Roomy(c, s) == s.dgrams # <<>> => s.len + DelayedSize(c) <= s.size

Filler(c, t) ==
  /\ TxFields \cup {"turned"} \subseteq DOMAIN t
  /\ t.delayed \in BOOLEAN /\ t.turned \in BOOLEAN
  /\ t.rem # None => t.rem.len \in Nat \ {0} /\ EthHlen <= t.rem.len
  /\ IndexGood(c, t)

\* Between two calls.
FillerGood(c, t) ==
  /\ Filler(c, t)
  /\ t.cur # None => BlockGood(c, t.cur, t.delayed) /\ Roomy(c, t.cur)

\* In the loop.
LoopGood(c, st) ==
  /\ Loop(st) /\ Filler(c, st.t)
  /\ Len(st.t.cur.dgrams) <= c.tx_max_datagrams
  /\ BlockGood(c, st.t.cur, st.t.delayed)
  /\ st.stop # "full" => Roomy(c, st.t.cur)

\* A block that is sent.
OutGood(c, b) ==
  /\ IsBlock(b)
  /\ b.size \in Nat /\ b.len \in Nat /\ b.table \in Nat
  /\ b.len <= b.size
  /\ Len(b.dgrams) \in 1 .. c.tx_max_datagrams
  /\ b.table % c.tx_ndp_modulus = 0 \/ b.table + c.max_ndp_size = b.size
  /\ Nth(c) <= b.table /\ b.table + c.max_ndp_size <= b.len
  /\ \A i \in DOMAIN b.dgrams :
       /\ b.dgrams[i].off \in Nat /\ b.dgrams[i].len \in Nat /\ EthHlen <= b.dgrams[i].len
       /\ Aligned(c, b.dgrams[i].off)
       /\ Ends(b.dgrams[i]) <= b.len
       /\ b.table + c.max_ndp_size <= b.dgrams[i].off \/ Ends(b.dgrams[i]) <= b.table
       /\ i > 1 => Ends(b.dgrams[i - 1]) <= b.dgrams[i].off
       /\ Nth(c) <= b.dgrams[i].off

-----------------------------------------------------------------------------
(* Alignment *)

\* The next multiple is no further than one step away.
LEMMA AlignUpNext ==
  ASSUME NEW len \in Nat, NEW m \in Nat \ {0}
  PROVE  /\ \E k \in Nat : AlignUp(len, m) = k * m
         /\ AlignUp(len, m) \in Nat
         /\ len <= AlignUp(len, m) /\ AlignUp(len, m) <= len + m - 1
<1> DEFINE x == len + m - 1
           q == x \div m
<1>1. x \in Nat /\ q \in Nat /\ q * m <= x /\ x < q * m + m
  OBVIOUS
<1>2. AlignUp(len, m) = q * m
  BY DEF AlignUp
<1> HIDE DEF q
<1>3. q * m \in Nat
  BY <1>1
<1> QED  BY <1>1, <1>2, <1>3

\* A multiple leaves no remainder.
LEMMA MultipleEven ==
  ASSUME NEW k \in Nat, NEW m \in Nat \ {0}
  PROVE  (k * m) % m = 0
  OBVIOUS

\* cdc_ncm_align_tail: aligned, or no place left before max.
LEMMA AlignTailEnds ==
  ASSUME NEW len \in Nat, NEW m \in Nat \ {0}, NEW r \in Nat, NEW max \in Int
  PROVE  /\ AlignTail(len, m, r, max) \in Nat
         /\ len <= AlignTail(len, m, r, max)
         /\ AlignTail(len, m, r, max) <= len + m - 1 + r
         /\ AlignTail(len, m, r, max) <= max \/ AlignTail(len, m, r, max) = len
         /\ \/ \E k \in Nat : AlignTail(len, m, r, max) = k * m + r
            \/ max <= AlignTail(len, m, r, max)
<1> DEFINE a == AlignUp(len, m)
           to == AlignTail(len, m, r, max)
<1>1. /\ \E k \in Nat : a = k * m
      /\ a \in Nat /\ len <= a /\ a <= len + m - 1
  BY AlignUpNext
<1>2. to = IF a + r <= max THEN a + r ELSE Upper(len, max)
  BY DEF AlignTail
<1> HIDE DEF a, to
<1>3. /\ to \in Nat /\ len <= to /\ to <= len + m - 1 + r
      /\ to <= max \/ to = len
      /\ (\E k \in Nat : to = k * m + r) \/ max <= to
  <2>1. CASE a + r <= max
    <3>1. \E k \in Nat : to = k * m + r
      BY <1>1, <1>2, <2>1
    <3>2. to \in Nat /\ len <= to /\ to <= len + m - 1 + r /\ to <= max
      BY <1>1, <1>2, <2>1
    <3> QED  BY <3>1, <3>2
  <2>2. CASE ~(a + r <= max)
    BY <1>1, <1>2, <2>2 DEF Upper
  <2> QED  BY <2>1, <2>2
<1> QED  BY <1>3 DEF to

\* The same without a remainder.
LEMMA AlignPlainEnds ==
  ASSUME NEW len \in Nat, NEW m \in Nat \ {0}, NEW max \in Int
  PROVE  /\ AlignTail(len, m, 0, max) \in Nat
         /\ len <= AlignTail(len, m, 0, max) /\ AlignTail(len, m, 0, max) <= len + m - 1
         /\ AlignTail(len, m, 0, max) <= max \/ AlignTail(len, m, 0, max) = len
         /\ (\E k \in Nat : AlignTail(len, m, 0, max) = k * m)
            \/ max <= AlignTail(len, m, 0, max)
<1> DEFINE a == AlignUp(len, m)
           to == AlignTail(len, m, 0, max)
<1>1. /\ \E k \in Nat : a = k * m
      /\ a \in Nat /\ len <= a /\ a <= len + m - 1
  BY AlignUpNext
<1>2. to = IF a + 0 <= max THEN a + 0 ELSE Upper(len, max)
  BY DEF AlignTail
<1> HIDE DEF a
<1>3. to = IF a <= max THEN a ELSE Upper(len, max)
  BY <1>1, <1>2
<1> HIDE DEF to
<1>4. /\ to \in Nat /\ len <= to /\ to <= len + m - 1
      /\ to <= max \/ to = len
      /\ (\E k \in Nat : to = k * m) \/ max <= to
  <2>1. CASE a <= max
    BY <1>1, <1>3, <2>1
  <2>2. CASE ~(a <= max)
    BY <1>1, <1>3, <2>2 DEF Upper
  <2> QED  BY <2>1, <2>2
<1> QED  BY <1>4 DEF to

-----------------------------------------------------------------------------
(* One turn of the loop *)

\* 12 or 16.
LEMMA NthNat ==
  ASSUME NEW c
  PROVE  Nth(c) \in Nat \ {0}
  BY DEF Nth

\* A block without datagrams.
LEMMA EmptyGood ==
  ASSUME NEW c, NEW s, NEW delayed, s.dgrams = <<>>,
         IsBlock(s), "table" \in DOMAIN s,
         s.size \in Nat, s.len \in Nat, s.table \in Nat, s.ndp \in Nat, Nth(c) <= s.len,
         s.table # 0 =>
           /\ Nth(c) <= s.table /\ s.table + c.max_ndp_size <= s.len
           /\ s.table % c.tx_ndp_modulus = 0 \/ s.size <= s.len
  PROVE  BlockGood(c, s, delayed) /\ Roomy(c, s)
  BY DEF BlockGood, DgramsGood, Roomy

\* cdc_ncm_ndp16 and _ndp32: with datagrams the table is there already; without, it
\* comes behind what there is, aligned, or at the end of the block.
LEMMA TableBuilt ==
  ASSUME NEW c, NEW t, NEW reserve \in Nat, Geometry(c), Filler(c, t),
         BlockGood(c, t.cur, t.delayed)
  PROVE  LET w == WithTable(c, t, reserve)
         IN /\ Filler(c, w.t) /\ BlockGood(c, w.t.cur, w.t.delayed)
            /\ w.t.cur.dgrams = t.cur.dgrams /\ w.t.cur.size = t.cur.size
            /\ w.ok => w.t.cur.table # 0 \/ (c.toEnd /\ w.t.delayed)
            /\ t.cur.dgrams # <<>> => w.t = t
            /\ w.t.turned = t.turned /\ w.t.rem = t.rem
<1> DEFINE w == WithTable(c, t, reserve)
           s == t.cur
           len == IF c.toEnd THEN s.len ELSE AlignTail(s.len, c.tx_ndp_modulus, 0, s.size)
           body == IF c.toEnd THEN 0 ELSE c.max_ndp_size
           short == [t EXCEPT !.cur.len = len]
           new == [t EXCEPT !.cur.len = len + body,
                            !.cur.ndp = IF @ = 0 THEN len ELSE @,
                            !.cur.table = IF c.toEnd THEN 0 ELSE len,
                            !.delayed = @ \/ c.toEnd]
<1> SUFFICES /\ Filler(c, w.t) /\ BlockGood(c, w.t.cur, w.t.delayed)
             /\ w.t.cur.dgrams = s.dgrams /\ w.t.cur.size = s.size
             /\ w.ok => w.t.cur.table # 0 \/ (c.toEnd /\ w.t.delayed)
             /\ s.dgrams # <<>> => w.t = t
             /\ w.t.turned = t.turned /\ w.t.rem = t.rem
  OBVIOUS
<1>1. /\ {"cur", "rem", "delayed", "turned"} \subseteq DOMAIN t
      /\ {"size", "len", "ndp", "table", "dgrams"} \subseteq DOMAIN s
      /\ s.size \in Nat /\ s.len \in Nat /\ s.table \in Nat /\ s.ndp \in Nat
      /\ Nth(c) <= s.len /\ IsBlock(s)
      /\ t.delayed \in BOOLEAN /\ t.turned \in BOOLEAN /\ c.toEnd \in BOOLEAN
      /\ c.tx_ndp_modulus \in Nat \ {0} /\ c.max_ndp_size \in Nat
  BY DEF Filler, TxFields, BlockGood, IsBlock, Geometry
<1>2. /\ len \in Nat /\ s.len <= len
      /\ ~c.toEnd => (\E k \in Nat : len = k * c.tx_ndp_modulus) \/ s.size <= len
  <2>1. CASE c.toEnd
    BY <1>1, <2>1
  <2>2. CASE ~c.toEnd
    <3>1. len = AlignTail(s.len, c.tx_ndp_modulus, 0, s.size)
      BY <2>2
    <3>2. s.len \in Nat /\ s.size \in Int /\ c.tx_ndp_modulus \in Nat \ {0}
      BY <1>1
    <3> HIDE DEF len
    <3> QED  BY <2>2, <3>1, <3>2, AlignPlainEnds
  <2> QED  BY <1>1, <2>1, <2>2
<1>3. \/ w = [ok |-> TRUE, t |-> t] /\ ((c.toEnd /\ t.delayed) \/ s.table # 0)
      \/ w = [ok |-> FALSE, t |-> short] /\ ~((c.toEnd /\ t.delayed) \/ s.table # 0)
      \/ w = [ok |-> TRUE, t |-> new] /\ ~((c.toEnd /\ t.delayed) \/ s.table # 0)
  BY DEF WithTable
<1>4. ~((c.toEnd /\ t.delayed) \/ s.table # 0) => s.dgrams = <<>> /\ s.table = 0
  BY DEF BlockGood
<1> HIDE DEF w, len
<1>5. CASE w = [ok |-> TRUE, t |-> t] /\ ((c.toEnd /\ t.delayed) \/ s.table # 0)
  BY <1>5
<1>6. CASE w = [ok |-> FALSE, t |-> short] /\ ~((c.toEnd /\ t.delayed) \/ s.table # 0)
  <2>1. /\ TxFields \cup {"turned"} \subseteq DOMAIN short
        /\ short.turned = t.turned /\ short.rem = t.rem /\ short.delayed = t.delayed
        /\ short.cur.size = s.size /\ short.cur.len = len /\ short.cur.ndp = s.ndp
        /\ short.cur.table = s.table /\ short.cur.dgrams = s.dgrams
        /\ {"size", "len", "ndp", "table", "dgrams"} \subseteq DOMAIN short.cur
    BY <1>1 DEF Filler
  <2> HIDE DEF short
  <2>2. IsBlock(short.cur) /\ short.cur # None /\ s # None
    BY <1>1, <2>1, BlockNotNone DEF IsBlock
  <2>3. Nth(c) <= short.cur.len
    BY <1>1, <1>2, <2>1, NthNat
  <2>4. BlockGood(c, short.cur, short.delayed)
    BY <1>1, <1>2, <1>4, <1>6, <2>1, <2>2, <2>3, EmptyGood
  <2>5. Filler(c, short)
    BY <2>1, <2>2 DEF Filler, IndexGood
  <2> QED  BY <1>4, <1>6, <2>1, <2>4, <2>5
<1>7. CASE w = [ok |-> TRUE, t |-> new] /\ ~((c.toEnd /\ t.delayed) \/ s.table # 0)
  <2>1. /\ TxFields \cup {"turned"} \subseteq DOMAIN new
        /\ new.turned = t.turned /\ new.rem = t.rem /\ new.delayed = (t.delayed \/ c.toEnd)
        /\ new.cur.size = s.size /\ new.cur.len = len + body
        /\ new.cur.ndp = (IF s.ndp = 0 THEN len ELSE s.ndp)
        /\ new.cur.table = (IF c.toEnd THEN 0 ELSE len) /\ new.cur.dgrams = s.dgrams
        /\ {"size", "len", "ndp", "table", "dgrams"} \subseteq DOMAIN new.cur
    BY <1>1 DEF Filler
  <2> HIDE DEF new
  <2>2. IsBlock(new.cur) /\ new.cur # None /\ s # None
    BY <1>1, <2>1, BlockNotNone DEF IsBlock
  <2>3. Nth(c) <= len /\ len # 0
    BY <1>1, <1>2, NthNat
  <2>4. BlockGood(c, new.cur, new.delayed)
    <3>1. CASE c.toEnd
      <4>1. new.cur.len = len /\ new.cur.table = 0 /\ new.cur.ndp \in Nat
        BY <1>1, <1>2, <2>1, <3>1
      <4> QED  BY <1>1, <1>2, <1>4, <1>7, <2>1, <2>2, <2>3, <4>1, EmptyGood
    <3>2. CASE ~c.toEnd
      <4>1. new.cur.len = len + c.max_ndp_size /\ new.cur.table = len /\ new.cur.ndp \in Nat
        BY <1>1, <1>2, <2>1, <3>2
      <4>2. len % c.tx_ndp_modulus = 0 \/ s.size <= len
        BY <1>1, <1>2, <3>2, MultipleEven
      <4>3. /\ new.cur.len \in Nat /\ Nth(c) <= new.cur.len /\ new.cur.size \in Nat
            /\ s.size <= len => new.cur.size <= new.cur.len
        BY <1>1, <1>2, <2>1, <2>3, <4>1, NthNat
      <4>4. /\ new.cur.table \in Nat /\ Nth(c) <= new.cur.table
            /\ new.cur.table + c.max_ndp_size <= new.cur.len
            /\ new.cur.table % c.tx_ndp_modulus = 0 \/ new.cur.size <= new.cur.len
        BY <1>1, <1>2, <2>3, <4>1, <4>2, <4>3
      <4> QED  BY <1>4, <1>7, <2>1, <2>2, <4>1, <4>3, <4>4, EmptyGood
    <3> QED  BY <1>1, <3>1, <3>2
  <2>5. Filler(c, new)
    <3>1. new.delayed \in BOOLEAN /\ new.turned \in BOOLEAN
      BY <1>1, <2>1
    <3>2. ~t.turned => IF c.toEnd THEN s.table = 0 ELSE s.ndp = s.table
      BY <2>2 DEF Filler, IndexGood
    <3>3. IndexGood(c, new)
      BY <1>1, <1>4, <1>7, <2>1, <2>2, <2>3, <3>2 DEF IndexGood
    <3> QED  BY <2>1, <3>1, <3>3 DEF Filler
  <2>6. new.cur.table # 0 \/ (c.toEnd /\ new.delayed)
    BY <2>1, <2>3, <1>1
  <2> QED  BY <1>4, <1>7, <2>1, <2>4, <2>5, <2>6
<1> QED  BY <1>3, <1>5, <1>6, <1>7

\* Datagrams with one more behind them.
LEMMA DgramsGrow ==
  ASSUME NEW c, NEW s, NEW u, IsBlock(s), DgramsGood(c, s), NEW id, NEW len, NEW n \in Nat,
         EthHlen <= n,
         s.len \in Nat, s.len <= len, len \in Nat, Aligned(c, len), Nth(c) <= s.len,
         u.table = s.table, s.table \in Nat, c.max_ndp_size \in Nat,
         s.table # 0 => s.table + c.max_ndp_size <= s.len,
         u.len = len + n, u.dgrams = Append(s.dgrams, [id |-> id, off |-> len, len |-> n])
  PROVE  DgramsGood(c, u)
<1> DEFINE d == [id |-> id, off |-> len, len |-> n]
           m == Len(s.dgrams)
<1>1. /\ DOMAIN s.dgrams = 1 .. m /\ DOMAIN u.dgrams = 1 .. m + 1 /\ m \in Nat
      /\ u.dgrams[m + 1] = d
      /\ \A i \in 1 .. m : u.dgrams[i] = s.dgrams[i]
  BY AppendGrows DEF IsBlock
<1>2. d.off = len /\ d.len = n /\ Ends(d) = len + n
  BY DEF Ends
<1>3. Nth(c) \in Nat
  BY NthNat
<1> HIDE DEF d, m
<1>4. ASSUME NEW i \in DOMAIN u.dgrams
      PROVE  /\ u.dgrams[i].off \in Nat /\ u.dgrams[i].len \in Nat
             /\ EthHlen <= u.dgrams[i].len
             /\ Aligned(c, u.dgrams[i].off) /\ Ends(u.dgrams[i]) <= u.len
             /\ Nth(c) <= u.dgrams[i].off
             /\ u.table # 0 => u.table + c.max_ndp_size <= u.dgrams[i].off
  <2>1. CASE i = m + 1
    BY <1>1, <1>2, <1>3, <2>1
  <2>2. CASE i # m + 1
    <3>1. i \in DOMAIN s.dgrams /\ u.dgrams[i] = s.dgrams[i]
      BY <1>1, <2>2
    <3>2. /\ u.dgrams[i].off \in Nat /\ u.dgrams[i].len \in Nat
          /\ EthHlen <= u.dgrams[i].len
          /\ Aligned(c, u.dgrams[i].off) /\ Ends(u.dgrams[i]) <= s.len
          /\ Nth(c) <= u.dgrams[i].off
          /\ u.table # 0 => u.table + c.max_ndp_size <= u.dgrams[i].off
      BY <3>1 DEF DgramsGood
    <3>3. Ends(u.dgrams[i]) \in Nat
      BY <3>2 DEF Ends
    <3> QED  BY <3>2, <3>3
  <2> QED  BY <2>1, <2>2
<1>5. ASSUME NEW i \in DOMAIN u.dgrams, i > 1
      PROVE  i - 1 \in DOMAIN u.dgrams /\ Ends(u.dgrams[i - 1]) <= u.dgrams[i].off
  <2>1. i - 1 \in 1 .. m /\ u.dgrams[i - 1] = s.dgrams[i - 1]
    BY <1>1, <1>5
  <2>2. CASE i = m + 1
    <3>1. /\ Ends(s.dgrams[i - 1]) <= s.len
          /\ s.dgrams[i - 1].off \in Nat /\ s.dgrams[i - 1].len \in Nat
      BY <1>1, <2>1 DEF DgramsGood
    <3>2. Ends(s.dgrams[i - 1]) \in Nat
      <4> DEFINE e == s.dgrams[i - 1]
      <4>1. Ends(e) = e.off + e.len
        BY DEF Ends
      <4>2. e.off \in Nat /\ e.len \in Nat
        BY <3>1
      <4> HIDE DEF e
      <4>3. Ends(e) \in Nat
        BY <4>1, <4>2
      <4> QED  BY <4>3 DEF e
    <3>3. Ends(s.dgrams[i - 1]) <= len
      BY <3>1, <3>2
    <3>4. u.dgrams[i].off = len /\ u.dgrams[i - 1] = s.dgrams[i - 1] /\ i - 1 \in DOMAIN u.dgrams
      BY <1>1, <1>2, <2>1, <2>2
    <3> QED  BY <3>3, <3>4
  <2>3. CASE i # m + 1
    <3>1. i \in DOMAIN s.dgrams /\ u.dgrams[i] = s.dgrams[i]
      BY <1>1, <2>3
    <3> QED  BY <1>1, <1>5, <2>1, <3>1 DEF DgramsGood
  <2> QED  BY <2>2, <2>3
<1> QED  BY <1>4, <1>5 DEF DgramsGood

\* What the datagrams of a block are does not depend on its length growing.
LEMMA DgramsStay ==
  ASSUME NEW c, NEW s, NEW u, DgramsGood(c, s), s.len \in Nat, u.len \in Nat, s.len <= u.len,
         u.dgrams = s.dgrams, u.table = s.table
  PROVE  DgramsGood(c, u)
<1>1. ASSUME NEW i \in DOMAIN s.dgrams
      PROVE  Ends(s.dgrams[i]) <= u.len
  <2>1. /\ s.dgrams[i].off \in Nat /\ s.dgrams[i].len \in Nat /\ Ends(s.dgrams[i]) <= s.len
    BY DEF DgramsGood
  <2>2. Ends(s.dgrams[i]) \in Nat
    BY <2>1 DEF Ends
  <2> QED  BY <2>1, <2>2
<1> QED  BY <1>1 DEF DgramsGood

\* The room kept for a table at the end.
LEMMA RoomKept ==
  ASSUME NEW c, Geometry(c)
  PROVE  /\ DelayedSize(c) \in Nat
         /\ c.toEnd => /\ c.max_ndp_size <= DelayedSize(c)
                       /\ c.max_ndp_size + c.tx_modulus + c.tx_remainder - 1 <= DelayedSize(c)
         /\ ~c.toEnd => DelayedSize(c) = 0
  BY DEF Geometry, DelayedSize, Upper

\* The next frame is aligned (cdc_ncm_align_tail): it takes room from an unstarted table.
LEMMA Aligning ==
  ASSUME NEW c, NEW t, Geometry(c), Filler(c, t), BlockGood(c, t.cur, t.delayed)
  PROVE  LET s == t.cur
             len == AlignTail(s.len, c.tx_modulus, c.tx_remainder, s.size)
             u == [t EXCEPT !.cur.len = len]
         IN /\ len \in Nat /\ s.len <= len /\ len <= s.len + c.tx_modulus - 1 + c.tx_remainder
            /\ Aligned(c, len) \/ s.size <= len
            /\ Roomy(c, s) => BlockGood(c, u.cur, u.delayed)
            /\ Filler(c, u) /\ u.cur.len = len
            /\ u.cur.size = s.size /\ u.cur.ndp = s.ndp /\ u.cur.table = s.table
            /\ u.cur.dgrams = s.dgrams
            /\ u.delayed = t.delayed
<1> DEFINE s == t.cur
           len == AlignTail(s.len, c.tx_modulus, c.tx_remainder, s.size)
           u == [t EXCEPT !.cur.len = len]
<1>1. /\ TxFields \cup {"turned"} \subseteq DOMAIN t
      /\ {"size", "len", "ndp", "table", "dgrams"} \subseteq DOMAIN s
      /\ s.size \in Nat /\ s.len \in Nat /\ s.table \in Nat /\ s.ndp \in Nat
      /\ Nth(c) <= s.len /\ IsBlock(s)
      /\ t.delayed \in BOOLEAN /\ t.turned \in BOOLEAN /\ c.toEnd \in BOOLEAN
      /\ c.tx_modulus \in Nat \ {0} /\ c.tx_remainder \in Nat /\ c.max_ndp_size \in Nat
  BY DEF Filler, TxFields, BlockGood, IsBlock, Geometry
<1>2. /\ len \in Nat /\ s.len <= len /\ len <= s.len + c.tx_modulus - 1 + c.tx_remainder
      /\ len <= s.size \/ len = s.len
      /\ Aligned(c, len) \/ s.size <= len
  <2>1. /\ s.len \in Nat /\ s.size \in Int
        /\ c.tx_modulus \in Nat \ {0} /\ c.tx_remainder \in Nat
    BY <1>1
  <2>3. len = AlignTail(s.len, c.tx_modulus, c.tx_remainder, s.size)
    OBVIOUS
  <2> HIDE DEF len, s
  <2>2. /\ len \in Nat /\ s.len <= len /\ len <= s.len + c.tx_modulus - 1 + c.tx_remainder
        /\ len <= s.size \/ len = s.len
        /\ (\E k \in Nat : len = k * c.tx_modulus + c.tx_remainder) \/ s.size <= len
    BY <2>1, <2>3, AlignTailEnds
  <2> QED  BY <2>2 DEF Aligned
<1> HIDE DEF len
<1>3. /\ TxFields \cup {"turned"} \subseteq DOMAIN u
      /\ u.turned = t.turned /\ u.rem = t.rem /\ u.delayed = t.delayed
      /\ u.cur.size = s.size /\ u.cur.len = len /\ u.cur.ndp = s.ndp
      /\ u.cur.table = s.table /\ u.cur.dgrams = s.dgrams
      /\ {"size", "len", "ndp", "table", "dgrams"} \subseteq DOMAIN u.cur
  BY <1>1 DEF TxFields
<1> HIDE DEF u
<1>4. IsBlock(u.cur) /\ u.cur # None /\ s # None
  BY <1>1, <1>3, BlockNotNone DEF IsBlock
<1>5. Filler(c, u)
  BY <1>3, <1>4 DEF Filler, IndexGood
<1>6. ASSUME Roomy(c, s)
      PROVE  BlockGood(c, u.cur, u.delayed)
  <2>1. DgramsGood(c, u.cur)
    BY <1>1, <1>2, <1>3, DgramsStay DEF BlockGood
  <2>2. u.cur.dgrams # <<>> =>
          /\ u.cur.len + (IF c.toEnd THEN c.max_ndp_size ELSE 0) <= u.cur.size
          /\ u.cur.table # 0 => u.cur.table % c.tx_ndp_modulus = 0
          /\ u.cur.table # 0 \/ (c.toEnd /\ u.delayed)
    <3> SUFFICES ASSUME s.dgrams # <<>>
                 PROVE  /\ len + (IF c.toEnd THEN c.max_ndp_size ELSE 0) <= s.size
                        /\ s.table # 0 => s.table % c.tx_ndp_modulus = 0
                        /\ s.table # 0 \/ (c.toEnd /\ t.delayed)
      BY <1>3
    <3>1. s.len + DelayedSize(c) <= s.size
      BY <1>6 DEF Roomy
    <3>2. len + (IF c.toEnd THEN c.max_ndp_size ELSE 0) <= s.size
      <4>1. /\ DelayedSize(c) \in Nat
            /\ c.toEnd => c.max_ndp_size + c.tx_modulus + c.tx_remainder - 1 <= DelayedSize(c)
        BY RoomKept
      <4> HIDE DEF s
      <4> DEFINE l == s.len
                 max == s.size
                 room == DelayedSize(c)
                 table == c.max_ndp_size
                 mod == c.tx_modulus
                 rem == c.tx_remainder
      <4>2. /\ l \in Nat /\ max \in Nat /\ room \in Nat /\ table \in Nat
            /\ mod \in Nat /\ rem \in Nat /\ len \in Nat
            /\ len <= l + mod - 1 + rem
            /\ len <= max \/ len = l
            /\ l + room <= max
            /\ c.toEnd => table + mod + rem - 1 <= room
        BY <1>1, <1>2, <3>1, <4>1
      <4> HIDE DEF l, max, room, table, mod, rem
      <4>3. CASE c.toEnd
        <5>1. table + mod + rem - 1 <= room
          BY <4>2, <4>3
        <5>2. len + table <= l + room
          BY <4>2, <5>1
        <5>3. len + table <= max
          BY <4>2, <5>2
        <5> QED  BY <4>3, <5>3 DEF table, max
      <4>4. CASE ~c.toEnd
        <5>1. len + 0 <= max
          BY <4>2
        <5> QED  BY <4>4, <5>1 DEF max
      <4> QED  BY <4>3, <4>4
    <3> QED  BY <3>2 DEF BlockGood
  <2>3. u.cur.table # 0 =>
          /\ Nth(c) <= u.cur.table /\ u.cur.table + c.max_ndp_size <= u.cur.len
          /\ u.cur.table % c.tx_ndp_modulus = 0 \/ u.cur.size <= u.cur.len
    <3> SUFFICES ASSUME s.table # 0
                 PROVE  /\ Nth(c) <= s.table /\ s.table + c.max_ndp_size <= len
                        /\ s.table % c.tx_ndp_modulus = 0 \/ s.size <= len
      BY <1>3
    <3>1. /\ Nth(c) <= s.table /\ s.table + c.max_ndp_size <= s.len
          /\ s.table % c.tx_ndp_modulus = 0 \/ s.size <= s.len
      BY DEF BlockGood
    <3> QED  BY <1>1, <1>2, <3>1
  <2>4. Nth(c) <= u.cur.len
    BY <1>1, <1>2, <1>3, NthNat
  <2> QED  BY <1>1, <1>2, <1>3, <1>4, <2>1, <2>2, <2>3, <2>4 DEF BlockGood
<1> QED  BY <1>2, <1>3, <1>5, <1>6 DEF len, u

\* A turn that has not stopped leaves the block good, whether the frame found its
\* place, none, or is kept (1295-1360).
LEMMA PlaceGood ==
  ASSUME NEW c, NEW st, NEW f, Geometry(c), LoopGood(c, st), st.stop = "no",
         f.len \in Nat \ {0}, EthHlen <= f.len, Len(st.t.cur.dgrams) < c.tx_max_datagrams
  PROVE  LET r == Place(c, st, f, WithTable(c, st.t, f.len + c.tx_modulus + c.tx_remainder))
         IN LoopGood(c, r) /\ r.t.turned = st.t.turned
<1> DEFINE reserve == f.len + c.tx_modulus + c.tx_remainder
           found == WithTable(c, st.t, reserve)
           s == found.t.cur
           len == AlignTail(s.len, c.tx_modulus, c.tx_remainder, s.size)
           t == [found.t EXCEPT !.cur.len = len]
           fits == found.ok /\ len + f.len + DelayedSize(c) <= s.size
           d == [id |-> f.id, off |-> len, len |-> f.len]
           placed == [t EXCEPT !.cur.len = len + f.len, !.cur.dgrams = Append(@, d)]
           r == Place(c, st, f, found)
<1> SUFFICES LoopGood(c, r) /\ r.t.turned = st.t.turned
  OBVIOUS
<1>1. /\ Loop(st) /\ Filler(c, st.t) /\ BlockGood(c, st.t.cur, st.t.delayed)
      /\ Roomy(c, st.t.cur)
      /\ c.tx_modulus \in Nat \ {0} /\ c.tx_remainder \in Nat /\ c.max_ndp_size \in Nat
      /\ c.tx_max_datagrams \in Nat \ {0} /\ c.toEnd \in BOOLEAN
  BY DEF LoopGood, Geometry
<1>2. reserve \in Nat
  BY <1>1
<1>3. Loop(r)
  <2> HIDE DEF reserve
  <2> QED  BY <1>1, PlaceEnds
<1>4. /\ Filler(c, found.t) /\ BlockGood(c, s, found.t.delayed)
      /\ s.dgrams = st.t.cur.dgrams /\ s.size = st.t.cur.size
      /\ found.ok => s.table # 0 \/ (c.toEnd /\ found.t.delayed)
      /\ s.dgrams # <<>> => found.t = st.t
      /\ found.t.turned = st.t.turned /\ found.t.rem = st.t.rem
  <2> HIDE DEF reserve
  <2> QED  BY <1>1, <1>2, TableBuilt
<1>5. Roomy(c, s)
  BY <1>1, <1>4 DEF Roomy
<1>6. r = IF fits THEN [st EXCEPT !.t = placed]
          ELSE IF t.cur.dgrams = <<>>
          THEN [t |-> [t EXCEPT !.dropped = @ \cup {f.id}], stop |-> "unfit"]
          ELSE [t |-> [t EXCEPT !.rem = f], stop |-> "full"]
  BY DEF Place
<1> HIDE DEF found, r, reserve
<1>7. /\ len \in Nat /\ s.len <= len
      /\ Aligned(c, len) \/ s.size <= len
      /\ BlockGood(c, t.cur, t.delayed)
      /\ Filler(c, t) /\ t.cur.len = len
      /\ t.cur.size = s.size /\ t.cur.ndp = s.ndp /\ t.cur.table = s.table
      /\ t.cur.dgrams = s.dgrams
      /\ t.delayed = found.t.delayed
  <2> DEFINE v == found.t
  <2>1. Filler(c, v) /\ BlockGood(c, v.cur, v.delayed) /\ Roomy(c, v.cur)
    BY <1>4, <1>5
  <2> HIDE DEF v
  <2>2. LET a == AlignTail(v.cur.len, c.tx_modulus, c.tx_remainder, v.cur.size)
            u == [v EXCEPT !.cur.len = a]
        IN /\ a \in Nat /\ v.cur.len <= a
           /\ Aligned(c, a) \/ v.cur.size <= a
           /\ BlockGood(c, u.cur, u.delayed)
           /\ Filler(c, u) /\ u.cur.len = a
           /\ u.cur.size = v.cur.size /\ u.cur.ndp = v.cur.ndp /\ u.cur.table = v.cur.table
           /\ u.cur.dgrams = v.cur.dgrams
           /\ u.delayed = v.delayed
    BY <2>1, Aligning
  <2> QED  BY <2>2 DEF v
<1>8. t.turned = st.t.turned /\ "turned" \in DOMAIN t
  BY <1>4, <1>7 DEF Filler, TxFields
<1>9. /\ s.size \in Nat /\ s.len \in Nat /\ s.table \in Nat /\ s.ndp \in Nat
      /\ Nth(c) <= s.len /\ IsBlock(s) /\ IsBlock(t.cur) /\ "table" \in DOMAIN t.cur
      /\ s.dgrams \in Seq(Range(s.dgrams))
  BY <1>4, <1>7 DEF BlockGood, IsBlock
<1>10. Len(s.dgrams) \in Nat /\ Len(s.dgrams) < c.tx_max_datagrams
  BY <1>4, <1>9
<1> HIDE DEF t, len
<1>11. CASE fits
  <2>1. /\ TxFields \cup {"turned"} \subseteq DOMAIN t
        /\ {"size", "len", "ndp", "table", "dgrams"} \subseteq DOMAIN t.cur
    BY <1>7, <1>9 DEF Filler, IsBlock
  <2>2. /\ TxFields \cup {"turned"} \subseteq DOMAIN placed
        /\ placed.turned = t.turned /\ placed.rem = t.rem /\ placed.delayed = t.delayed
        /\ placed.cur.size = s.size /\ placed.cur.len = len + f.len
        /\ placed.cur.ndp = s.ndp /\ placed.cur.table = s.table
        /\ placed.cur.dgrams = Append(s.dgrams, d)
        /\ {"size", "len", "ndp", "table", "dgrams"} \subseteq DOMAIN placed.cur
    BY <1>7, <2>1 DEF TxFields
  <2>3. r.t = placed /\ r.stop = "no"
    BY <1>1, <1>6, <1>11 DEF Loop
  <2> HIDE DEF placed
  <2>4. /\ DelayedSize(c) \in Nat
        /\ (IF c.toEnd THEN c.max_ndp_size ELSE 0) <= DelayedSize(c)
        /\ (IF c.toEnd THEN c.max_ndp_size ELSE 0) \in Nat
    BY <1>1, RoomKept
  <2>5. len + f.len + DelayedSize(c) <= s.size /\ len < s.size /\ ~(s.size <= s.len)
    <3> DEFINE l == s.len
               max == s.size
               n == f.len
               room == DelayedSize(c)
    <3>1. /\ len \in Nat /\ l \in Nat /\ max \in Nat /\ n \in Nat \ {0} /\ room \in Nat
          /\ l <= len /\ len + n + room <= max
      BY <1>7, <1>9, <1>11, <2>4
    <3> HIDE DEF l, max, n, room
    <3>2. len + n + room <= max /\ len < max /\ ~(max <= l)
      BY <3>1
    <3> QED  BY <3>2 DEF l, max, n, room
  <2>6. Aligned(c, len)
    BY <1>7, <1>9, <2>5
  <2>7. IsBlock(placed.cur) /\ placed.cur # None /\ t.cur # None
    BY <1>3, <1>9, <2>3, BlockNotNone DEF Loop
  <2>8. s.table # 0 =>
          /\ Nth(c) <= s.table /\ s.table + c.max_ndp_size <= s.len
          /\ s.table % c.tx_ndp_modulus = 0
    BY <1>4, <2>5 DEF BlockGood
  <2>9. DgramsGood(c, placed.cur)
    <3>1. DgramsGood(c, s)
      BY <1>4 DEF BlockGood
    <3>2. s.table # 0 => s.table + c.max_ndp_size <= s.len
      BY <2>8
    <3>3. /\ IsBlock(s) /\ s.len \in Nat /\ s.len <= len /\ len \in Nat /\ Nth(c) <= s.len
          /\ s.table \in Nat /\ c.max_ndp_size \in Nat /\ f.len \in Nat
      BY <1>1, <1>7, <1>9
    <3>4. /\ placed.cur.table = s.table /\ placed.cur.len = len + f.len
          /\ placed.cur.dgrams = Append(s.dgrams, [id |-> f.id, off |-> len, len |-> f.len])
      BY <2>2
    <3> HIDE DEF s, d
    <3> QED  BY <2>6, <3>1, <3>2, <3>3, <3>4, DgramsGrow
  <2>10. placed.cur.len + DelayedSize(c) <= placed.cur.size /\ placed.cur.len \in Nat
    BY <1>7, <2>2, <2>5
  <2>11. placed.cur.len + (IF c.toEnd THEN c.max_ndp_size ELSE 0) <= placed.cur.size
    <3> DEFINE e == IF c.toEnd THEN c.max_ndp_size ELSE 0
    <3>1. e <= DelayedSize(c) /\ e \in Nat
      BY <2>4
    <3> HIDE DEF e
    <3>2. placed.cur.len + e <= placed.cur.size
      BY <1>9, <2>2, <2>4, <2>10, <3>1
    <3> QED  BY <3>2 DEF e
  <2>12. Nth(c) <= placed.cur.len
    BY <1>7, <1>9, <2>2, NthNat
  <2>13. placed.cur.table + c.max_ndp_size <= placed.cur.len \/ placed.cur.table = 0
    <3> DEFINE l == s.len
               end == s.table + c.max_ndp_size
               n == f.len
    <3>1. l \in Nat /\ end \in Nat /\ n \in Nat /\ len \in Nat /\ l <= len
      <4>1. s.table \in Nat /\ c.max_ndp_size \in Nat
        BY <1>1, <1>9
      <4>2. end \in Nat
        BY <4>1
      <4> HIDE DEF end
      <4> QED  BY <1>7, <1>9, <4>2
    <3>2. s.table = 0 \/ end <= l
      BY <2>8
    <3>3. placed.cur.table + c.max_ndp_size = end /\ placed.cur.len = len + n
      BY <2>2
    <3> HIDE DEF l, end, n
    <3>4. end <= l => end <= len + n
      BY <3>1
    <3> QED  BY <2>2, <3>2, <3>3, <3>4
  <2>14. BlockGood(c, placed.cur, placed.delayed)
    BY <1>4, <1>7, <1>9, <1>11, <2>2, <2>7, <2>8, <2>9, <2>10, <2>11, <2>12, <2>13 DEF BlockGood
  <2>15. Filler(c, placed)
    BY <1>7, <2>2, <2>7 DEF Filler, IndexGood
  <2>16. Len(placed.cur.dgrams) <= c.tx_max_datagrams
    <3>1. Len(placed.cur.dgrams) = Len(s.dgrams) + 1
      BY <1>9, <2>2
    <3> QED  BY <1>1, <1>10, <3>1
  <2>17. Roomy(c, placed.cur)
    BY <2>10 DEF Roomy
  <2> QED  BY <1>3, <1>8, <2>2, <2>3, <2>14, <2>15, <2>16, <2>17 DEF LoopGood
<1>12. CASE ~fits
  <2>1. /\ TxFields \cup {"turned"} \subseteq DOMAIN t /\ t.cur.dgrams = s.dgrams
    BY <1>7 DEF Filler
  <2>2. CASE t.cur.dgrams = <<>>
    <3> DEFINE u == [t EXCEPT !.dropped = @ \cup {f.id}]
    <3>1. /\ TxFields \cup {"turned"} \subseteq DOMAIN u
          /\ u.cur = t.cur /\ u.delayed = t.delayed /\ u.turned = t.turned /\ u.rem = t.rem
      BY <2>1 DEF TxFields
    <3>2. r.t = u
      BY <1>6, <1>12, <2>2
    <3> HIDE DEF u
    <3>3. Filler(c, u)
      BY <1>7, <3>1 DEF Filler, IndexGood
    <3>4. Roomy(c, u.cur)
      BY <2>2, <3>1 DEF Roomy
    <3> QED  BY <1>1, <1>3, <1>7, <1>8, <1>10, <2>1, <3>1, <3>2, <3>3, <3>4 DEF LoopGood
  <2>3. CASE t.cur.dgrams # <<>>
    <3> DEFINE u == [t EXCEPT !.rem = f]
    <3>1. /\ TxFields \cup {"turned"} \subseteq DOMAIN u
          /\ u.cur = t.cur /\ u.delayed = t.delayed /\ u.turned = t.turned /\ u.rem = f
      BY <2>1 DEF TxFields
    <3>2. r.t = u /\ r.stop = "full"
      BY <1>6, <1>12, <2>3
    <3> HIDE DEF u
    <3>3. Filler(c, u)
      BY <1>7, <3>1 DEF Filler, IndexGood
    <3> QED  BY <1>1, <1>3, <1>7, <1>8, <1>10, <2>1, <3>1, <3>2, <3>3 DEF LoopGood
  <2> QED  BY <2>2, <2>3
<1> QED  BY <1>11, <1>12

\* A frame, or none.
FrameGood(f) == f = None \/ (f.len \in Nat \ {0} /\ EthHlen <= f.len)

\* The loop for one frame keeps the block good.
LEMMA AddFrameGood ==
  ASSUME NEW c, NEW st, NEW f, Geometry(c), LoopGood(c, st), FrameGood(f)
  PROVE  LET r == AddFrame(c, st, f) IN LoopGood(c, r) /\ r.t.turned = st.t.turned
<1> DEFINE r == AddFrame(c, st, f)
<1>1. Loop(st) /\ Filler(c, st.t) /\ Loop(r)
  BY AddFrameEnds DEF LoopGood
<1>2. /\ TxFields \cup {"turned"} \subseteq DOMAIN st.t /\ st.t.cur.dgrams \in Seq(Range(st.t.cur.dgrams))
      /\ {"t", "stop"} \subseteq DOMAIN st
  BY <1>1 DEF Filler, Loop, IsBlock
<1>3. CASE f = None
  BY <1>3 DEF AddFrame
<1>4. CASE f # None /\ st.stop = "full"
  <2> DEFINE u == [st.t EXCEPT !.dropped = @ \cup {f.id}]
  <2>1. r.t = u /\ r.stop = st.stop
    BY <1>2, <1>4 DEF AddFrame
  <2>2. /\ TxFields \cup {"turned"} \subseteq DOMAIN u
        /\ u.cur = st.t.cur /\ u.delayed = st.t.delayed /\ u.turned = st.t.turned
        /\ u.rem = st.t.rem
    BY <1>2 DEF TxFields
  <2> HIDE DEF u
  <2>3. Filler(c, u)
    BY <1>1, <2>2 DEF Filler, IndexGood
  <2> QED  BY <1>1, <2>1, <2>2, <2>3 DEF LoopGood
<1>5. CASE /\ f # None /\ st.stop # "full"
           /\ st.stop = "unfit" \/ Len(st.t.cur.dgrams) >= c.tx_max_datagrams
  <2> DEFINE u == [st.t EXCEPT !.rem = f]
  <2>1. r.t = u /\ r.stop = st.stop
    BY <1>2, <1>5 DEF AddFrame
  <2>2. /\ TxFields \cup {"turned"} \subseteq DOMAIN u
        /\ u.cur = st.t.cur /\ u.delayed = st.t.delayed /\ u.turned = st.t.turned
        /\ u.rem = f
    BY <1>2 DEF TxFields
  <2> HIDE DEF u
  <2>3. Filler(c, u)
    BY <1>1, <2>2 DEF Filler, IndexGood, FrameGood
  <2> QED  BY <1>1, <2>1, <2>2, <2>3 DEF LoopGood
<1>6. CASE /\ f # None /\ st.stop # "full"
           /\ ~(st.stop = "unfit" \/ Len(st.t.cur.dgrams) >= c.tx_max_datagrams)
  <2>1. r = Place(c, st, f, WithTable(c, st.t, f.len + c.tx_modulus + c.tx_remainder))
    BY <1>6 DEF AddFrame
  <2>2. st.stop = "no" /\ f.len \in Nat \ {0} /\ EthHlen <= f.len
    BY <1>1, <1>6 DEF Loop, FrameGood
  <2>3. Len(st.t.cur.dgrams) < c.tx_max_datagrams
    BY <1>2, <1>6 DEF Geometry
  <2> HIDE DEF r
  <2>4. LoopGood(c, r) /\ r.t.turned = st.t.turned
    BY <2>1, <2>2, <2>3, PlaceGood
  <2> QED  BY <2>4 DEF r
<1> QED  BY <1>3, <1>4, <1>5, <1>6

\* The end of the call makes a good block out of what was collected (1376-1446).
LEMMA FinishGood ==
  ASSUME NEW c, NEW t, Geometry(c), Filler(c, t), BlockGood(c, t.cur, t.delayed),
         t.cur.dgrams # <<>>, Len(t.cur.dgrams) <= c.tx_max_datagrams
  PROVE  LET b == FinishBlock(c, t)
         IN OutGood(c, b) /\ (~t.turned => b.ndp = b.table)
<1> DEFINE s == t.cur
           end == AlignTail(s.len, c.tx_ndp_modulus, 0, s.size - c.max_ndp_size)
           b1 == IF c.toEnd
                 THEN [s EXCEPT !.ndp = end, !.len = end + c.max_ndp_size,
                                !.table = IF t.delayed THEN end ELSE @]
                 ELSE s
           len == IF b1.len > c.min_tx_pkt THEN b1.size
                  ELSE IF b1.len < b1.size /\ b1.len % MaxPacket = 0 THEN b1.len + 1
                  ELSE b1.len
           b == [b1 EXCEPT !.len = len]
<1>1. FinishBlock(c, t) = b
  BY DEF FinishBlock
<1>2. /\ {"size", "len", "ndp", "table", "dgrams"} \subseteq DOMAIN s
      /\ s.size \in Nat /\ s.len \in Nat /\ s.table \in Nat /\ s.ndp \in Nat
      /\ Nth(c) <= s.len /\ IsBlock(s) /\ s.dgrams \in Seq(Range(s.dgrams))
      /\ t.delayed \in BOOLEAN /\ t.turned \in BOOLEAN /\ c.toEnd \in BOOLEAN
      /\ c.tx_ndp_modulus \in Nat \ {0} /\ c.max_ndp_size \in Nat
      /\ c.tx_max_datagrams \in Nat \ {0}
      /\ DgramsGood(c, s)
  BY DEF Filler, TxFields, BlockGood, IsBlock, Geometry
<1>3. /\ s.len + (IF c.toEnd THEN c.max_ndp_size ELSE 0) <= s.size
      /\ s.table # 0 => s.table % c.tx_ndp_modulus = 0
      /\ s.table # 0 \/ (c.toEnd /\ t.delayed)
      /\ s.table # 0 => Nth(c) <= s.table /\ s.table + c.max_ndp_size <= s.len
  BY DEF BlockGood
<1>4. Nth(c) \in Nat
  BY NthNat
<1>5. ~t.turned => IF c.toEnd THEN s.table = 0 ELSE s.ndp = s.table
  <2>1. s # None
    BY <1>2, BlockNotNone
  <2> QED  BY <2>1 DEF Filler, IndexGood
<1>6. Len(s.dgrams) \in 1 .. c.tx_max_datagrams
  BY <1>2
<1>7. c.toEnd =>
        /\ end \in Nat /\ s.len <= end /\ end + c.max_ndp_size <= s.size
        /\ end % c.tx_ndp_modulus = 0 \/ end + c.max_ndp_size = s.size
  <2> SUFFICES ASSUME c.toEnd
               PROVE  /\ end \in Nat /\ s.len <= end /\ end + c.max_ndp_size <= s.size
                      /\ end % c.tx_ndp_modulus = 0 \/ end + c.max_ndp_size = s.size
    OBVIOUS
  <2> DEFINE max == s.size - c.max_ndp_size
             l == s.len
  <2>1. max \in Int /\ l \in Nat /\ l <= max
    BY <1>2, <1>3
  <2>2. end = AlignTail(l, c.tx_ndp_modulus, 0, max)
    OBVIOUS
  <2> HIDE DEF max, l, end
  <2>3. /\ end \in Nat /\ l <= end
        /\ end <= max \/ end = l
        /\ (\E k \in Nat : end = k * c.tx_ndp_modulus) \/ max <= end
    BY <1>2, <2>1, <2>2, AlignPlainEnds
  <2>4. end % c.tx_ndp_modulus = 0 \/ max <= end
    <3>1. CASE max <= end
      BY <3>1
    <3>2. ASSUME NEW k \in Nat, end = k * c.tx_ndp_modulus
          PROVE  end % c.tx_ndp_modulus = 0
      <4>1. c.tx_ndp_modulus \in Nat \ {0}
        BY <1>2
      <4> QED  BY <3>2, <4>1, MultipleEven
    <3> QED  BY <2>3, <3>1, <3>2
  <2>5. end \in Nat /\ l <= end /\ end <= max /\ (end % c.tx_ndp_modulus = 0 \/ end = max)
    BY <2>1, <2>3, <2>4
  <2> HIDE DEF s
  <2>6. end + c.max_ndp_size <= s.size
    BY <1>2, <2>5 DEF max
  <2>7. end = max => end + c.max_ndp_size = s.size
    BY <1>2, <2>5 DEF max
  <2> QED  BY <2>5, <2>6, <2>7 DEF l
<1> HIDE DEF end
\* The block before its length is settled.
<1>8. /\ {"size", "len", "ndp", "table", "dgrams"} \subseteq DOMAIN b1
      /\ b1.size = s.size /\ b1.dgrams = s.dgrams /\ b1.len \in Nat /\ b1.table \in Nat
      /\ s.len <= b1.len /\ b1.len <= b1.size
      /\ b1.table % c.tx_ndp_modulus = 0 \/ b1.table + c.max_ndp_size = b1.size
      /\ Nth(c) <= b1.table /\ b1.table + c.max_ndp_size <= b1.len
      /\ (b1.table = s.table /\ s.table # 0) \/ s.len <= b1.table
      /\ ~t.turned => b1.ndp = b1.table
  <2>1. CASE c.toEnd
    <3>1. /\ {"size", "len", "ndp", "table", "dgrams"} \subseteq DOMAIN b1
          /\ b1.size = s.size /\ b1.dgrams = s.dgrams /\ b1.len = end + c.max_ndp_size
          /\ b1.ndp = end /\ b1.table = IF t.delayed THEN end ELSE s.table
      BY <1>2, <2>1
    <3> HIDE DEF b1, s
    <3>2. b1.len \in Nat /\ b1.len <= b1.size /\ s.len <= b1.len
      BY <1>2, <1>7, <2>1, <3>1
    <3>3. CASE t.delayed
      <4>1. b1.table = end /\ Nth(c) <= end /\ b1.table + c.max_ndp_size <= b1.len
        BY <1>2, <1>4, <1>7, <2>1, <3>1, <3>3
      <4> QED  BY <1>7, <2>1, <3>1, <3>2, <4>1
    <3>4. CASE ~t.delayed
      <4>1. b1.table = s.table /\ s.table # 0 /\ t.turned
        BY <1>2, <1>3, <1>5, <2>1, <3>1, <3>4
      <4>2. b1.table + c.max_ndp_size <= b1.len
        BY <1>2, <1>3, <3>2, <4>1
      <4> QED  BY <1>2, <1>3, <3>1, <3>2, <4>1, <4>2
    <3> QED  BY <3>3, <3>4
  <2>2. CASE ~c.toEnd
    <3>1. b1 = s
      BY <2>2
    <3>2. s.len <= s.size /\ s.table # 0
      BY <1>2, <1>3, <2>2
    <3> HIDE DEF b1, s
    <3> QED  BY <1>2, <1>3, <1>5, <2>2, <3>1, <3>2
  <2> QED  BY <1>2, <2>1, <2>2
<1> HIDE DEF b1
<1>9. len \in Nat /\ b1.len <= len /\ len <= b1.size
  <2>1. b1.size \in Nat
    BY <1>2, <1>8
  <2> DEFINE packet == b1.len % MaxPacket = 0
             big == b1.len > c.min_tx_pkt
  <2>2. len = IF big THEN b1.size
              ELSE IF b1.len < b1.size /\ packet THEN b1.len + 1 ELSE b1.len
    OBVIOUS
  <2> HIDE DEF len, packet, big
  <2> QED  BY <1>8, <2>1, <2>2
<1>10. /\ {"size", "len", "ndp", "table", "dgrams"} \subseteq DOMAIN b
       /\ b.size = s.size /\ b.dgrams = s.dgrams /\ b.len = len
       /\ b.table = b1.table /\ b.ndp = b1.ndp
  BY <1>8
<1> HIDE DEF len, b
<1>11. ASSUME NEW i \in DOMAIN s.dgrams
       PROVE  /\ s.dgrams[i].off \in Nat /\ s.dgrams[i].len \in Nat
              /\ EthHlen <= s.dgrams[i].len
              /\ Aligned(c, s.dgrams[i].off)
              /\ Ends(s.dgrams[i]) <= b.len
              /\ b.table + c.max_ndp_size <= s.dgrams[i].off \/ Ends(s.dgrams[i]) <= b.table
              /\ i > 1 => Ends(s.dgrams[i - 1]) <= s.dgrams[i].off
              /\ Nth(c) <= s.dgrams[i].off
  <2>1. /\ s.dgrams[i].off \in Nat /\ s.dgrams[i].len \in Nat
        /\ EthHlen <= s.dgrams[i].len
        /\ Aligned(c, s.dgrams[i].off) /\ Ends(s.dgrams[i]) <= s.len
        /\ Nth(c) <= s.dgrams[i].off
        /\ s.table # 0 => s.table + c.max_ndp_size <= s.dgrams[i].off
        /\ i > 1 => Ends(s.dgrams[i - 1]) <= s.dgrams[i].off
    BY <1>2 DEF DgramsGood
  <2>2. Ends(s.dgrams[i]) \in Nat
    BY <2>1 DEF Ends
  <2> HIDE DEF s
  <2>3. Ends(s.dgrams[i]) <= b.len
    BY <1>2, <1>8, <1>9, <1>10, <2>1, <2>2
  <2>4. b.table + c.max_ndp_size <= s.dgrams[i].off \/ Ends(s.dgrams[i]) <= b.table
    BY <1>2, <1>8, <1>10, <2>1, <2>2
  <2> QED  BY <2>1, <2>3, <2>4
<1>12. IsBlock(b)
  BY <1>2, <1>10 DEF IsBlock
<1>13. b.table + c.max_ndp_size <= b.len /\ b.len <= b.size
  BY <1>2, <1>8, <1>9, <1>10
<1>14. OutGood(c, b)
  BY <1>2, <1>6, <1>8, <1>9, <1>10, <1>11, <1>12, <1>13 DEF OutGood
<1> QED  BY <1>1, <1>8, <1>10, <1>14

-----------------------------------------------------------------------------
(* One call of cdc_ncm_fill_tx_frame *)

\* What a call leaves: a transmit side and a block that are good.
CallGood(c, t, r) ==
  /\ FillerGood(c, r.t)
  /\ r.out # None => OutGood(c, r.out) /\ (~t.turned => r.out.ndp = r.out.table)
  /\ r.t.turned = t.turned

\* What waits has room for its table; what has none left is sent.
LEMMA DecideGood ==
  ASSUME NEW c, NEW skb, NEW done, Geometry(c), LoopGood(c, done)
  PROVE  CallGood(c, done.t, Decide(c, skb, done))
<1> DEFINE r == Decide(c, skb, done)
           n == Len(done.t.cur.dgrams)
           waits == n < c.tx_max_datagrams /\ skb # None /\ done.stop # "full" /\ c.timer
           full == FinishBlock(c, done.t)
           gone == [done.t EXCEPT !.cur = None, !.delayed = IF c.toEnd THEN FALSE ELSE @]
<1>1. /\ Loop(done) /\ Filler(c, done.t) /\ n <= c.tx_max_datagrams
      /\ BlockGood(c, done.t.cur, done.t.delayed)
      /\ done.stop # "full" => Roomy(c, done.t.cur)
      /\ done.t.cur.dgrams \in Seq(Range(done.t.cur.dgrams)) /\ c.toEnd \in BOOLEAN
      /\ TxFields \cup {"turned"} \subseteq DOMAIN done.t
      /\ done.t.delayed \in BOOLEAN
  BY DEF LoopGood, Loop, IsBlock, Geometry, Filler
<1>2. n = 0 <=> done.t.cur.dgrams = <<>>
  BY <1>1
<1>3. IF n = 0 \/ waits THEN r = [t |-> done.t, out |-> None] ELSE r = [t |-> gone, out |-> full]
  BY DEF Decide
<1> HIDE DEF r, full
<1>4. CASE n = 0 \/ waits
  <2>1. r.t = done.t /\ r.out = None
    BY <1>3, <1>4
  <2>2. Roomy(c, done.t.cur)
    BY <1>1, <1>2, <1>4 DEF Roomy
  <2> QED  BY <1>1, <2>1, <2>2 DEF CallGood, FillerGood, r
<1>5. CASE ~(n = 0 \/ waits)
  <2>1. r.t = gone /\ r.out = full
    BY <1>3, <1>5
  <2>2. /\ TxFields \cup {"turned"} \subseteq DOMAIN gone
        /\ gone.cur = None /\ gone.rem = done.t.rem /\ gone.turned = done.t.turned
        /\ gone.delayed \in BOOLEAN
    BY <1>1 DEF TxFields
  <2> HIDE DEF gone
  <2>3. FillerGood(c, gone)
    BY <1>1, <2>2 DEF Filler, FillerGood, IndexGood
  <2>4. OutGood(c, full) /\ (~done.t.turned => full.ndp = full.table)
    <3>1. done.t.cur.dgrams # <<>> /\ Len(done.t.cur.dgrams) <= c.tx_max_datagrams
      BY <1>1, <1>2, <1>5
    <3> HIDE DEF n
    <3> QED  BY <1>1, <3>1, FinishGood DEF full
  <2> QED  BY <2>1, <2>2, <2>3, <2>4 DEF CallGood, r
<1> QED  BY <1>4, <1>5

\* A new block of whatever size: nothing but the header.
LEMMA NewBlockGood ==
  ASSUME NEW c, NEW size \in Nat, NEW delayed
  PROVE  /\ BlockGood(c, NewBlock(c, size), delayed) /\ Roomy(c, NewBlock(c, size))
         /\ NewBlock(c, size) # None
         /\ NewBlock(c, size).table = 0 /\ NewBlock(c, size).ndp = 0
<1> DEFINE s == NewBlock(c, size)
<1>1. /\ {"size", "len", "ndp", "table", "dgrams"} \subseteq DOMAIN s
      /\ s.size = size /\ s.len = Nth(c) /\ s.table = 0 /\ s.ndp = 0 /\ s.dgrams = <<>>
  BY DEF NewBlock
<1> HIDE DEF s
<1>2. IsBlock(s)
  BY <1>1 DEF IsBlock
<1>3. Nth(c) \in Nat
  BY NthNat
<1>4. BlockGood(c, s, delayed) /\ Roomy(c, s)
  BY <1>1, <1>2, <1>3, EmptyGood
<1> QED  BY <1>1, <1>2, <1>4, BlockNotNone DEF s

\* The block that is allocated (1244-1277).
LEMMA AllocGood ==
  ASSUME NEW c, NEW t, NEW skb, NEW first, NEW second, Geometry(c), FillerGood(c, t),
         FrameGood(skb), t.cur = None
  PROVE  LET u == AllocBlock(c, t, skb, first, second)
         IN FillerGood(c, u) /\ u.turned = t.turned /\ u.rem = t.rem
<1> DEFINE u == AllocBlock(c, t, skb, first, second)
           small == IF skb = None THEN NtbMin ELSE Upper(skb.len, NtbMin)
           low == Rearmed(t)
<1>1. /\ TxFields \cup {"turned"} \subseteq DOMAIN t /\ Filler(c, t) /\ c.tx_max \in Nat
      /\ t.delayed \in BOOLEAN /\ t.turned \in BOOLEAN
  BY DEF FillerGood, Filler, Geometry
<1>2. small \in Nat
  BY DEF FrameGood, Upper, NtbMin
<1> HIDE DEF small
<1>3. /\ TxFields \cup {"turned"} \subseteq DOMAIN low
      /\ low.cur = None /\ low.rem = t.rem /\ low.delayed = t.delayed /\ low.turned = t.turned
  BY <1>1 DEF Rearmed, TxFields
<1>4. \/ u = [t EXCEPT !.cur = NewBlock(c, c.tx_max)]
      \/ u = t
      \/ u = [low EXCEPT !.cur = NewBlock(c, small), !.lowVal = @ - 1, !.starved = TRUE]
      \/ u = low
  BY DEF AllocBlock, small
<1> HIDE DEF u, low
<1>5. /\ TxFields \cup {"turned"} \subseteq DOMAIN u
      /\ u.rem = t.rem /\ u.delayed = t.delayed /\ u.turned = t.turned
      /\ u.cur = None \/ \E size \in Nat : u.cur = NewBlock(c, size)
  <2>1. CASE u = t \/ u = low
    BY <1>1, <1>3, <2>1
  <2>2. CASE u = [t EXCEPT !.cur = NewBlock(c, c.tx_max)]
    BY <1>1, <2>2 DEF TxFields
  <2>3. CASE u = [low EXCEPT !.cur = NewBlock(c, small), !.lowVal = @ - 1, !.starved = TRUE]
    BY <1>2, <1>3, <2>3 DEF TxFields
  <2> QED  BY <1>4, <2>1, <2>2, <2>3
<1>6. IndexGood(c, u)
  BY <1>5, NewBlockGood DEF IndexGood
<1>7. u.cur # None => BlockGood(c, u.cur, u.delayed) /\ Roomy(c, u.cur)
  BY <1>5, NewBlockGood
<1>8. FillerGood(c, u)
  BY <1>1, <1>5, <1>6, <1>7 DEF FillerGood, Filler
<1> QED  BY <1>5, <1>8 DEF u

\* cdc_ncm_fill_tx_frame leaves, and sends, good blocks.
LEMMA FillGood ==
  ASSUME NEW c, NEW t, NEW skb, NEW first, NEW second, Geometry(c), FillerGood(c, t),
         TxGood(c, t), FrameGood(skb)
  PROVE  CallGood(c, t, FillTxFrame(c, t, skb, first, second))
<1> DEFINE head == IF skb = None THEN None ELSE t.rem
           u == IF t.cur = None THEN AllocBlock(c, t, head, first, second) ELSE t
           r == FillBlock(c, u, skb, head)
<1>1. FillTxFrame(c, t, skb, first, second) = r
  BY DEF FillTxFrame
<1>2. FrameGood(t.rem) /\ FrameGood(head)
  BY DEF FrameGood, FillerGood, Filler
<1>3. FillerGood(c, u) /\ u.turned = t.turned /\ u.rem = t.rem /\ TxGood(c, u)
  <2>1. CASE t.cur = None
    <3>1. c.tx_max_datagrams \in Nat \ {0}
      BY DEF Geometry
    <3> HIDE DEF head
    <3> QED  BY <1>2, <2>1, <3>1, AllocGood, AllocKeeps
  <2>2. CASE t.cur # None
    BY <2>2
  <2> QED  BY <2>1, <2>2
<1> HIDE DEF u
<1>4. /\ TxFields \cup {"turned"} \subseteq DOMAIN u /\ Filler(c, u)
      /\ u.delayed \in BOOLEAN /\ u.turned \in BOOLEAN
  BY <1>3 DEF FillerGood, Filler
<1>5. CASE u.cur = None
  <2> DEFINE v == [u EXCEPT !.rem = IF skb = None THEN @ ELSE skb, !.starved = TRUE,
                            !.dropped = IF head = None THEN @ ELSE @ \cup {head.id}]
  <2>1. r.t = v /\ r.out = None
    BY <1>5 DEF FillBlock
  <2>2. /\ TxFields \cup {"turned"} \subseteq DOMAIN v
        /\ v.cur = None /\ v.turned = u.turned /\ v.delayed = u.delayed
        /\ v.rem = (IF skb = None THEN u.rem ELSE skb)
    BY <1>4, <1>5 DEF TxFields
  <2> HIDE DEF v, r
  <2>3. FillerGood(c, v)
    BY <1>2, <1>3, <1>4, <2>2 DEF FillerGood, Filler, IndexGood, FrameGood
  <2> QED  BY <1>1, <1>3, <2>1, <2>2, <2>3 DEF CallGood
<1>6. CASE u.cur # None
  <2> DEFINE empty == [t |-> [u EXCEPT !.rem = None], stop |-> "no"]
             one == AddFrame(c, empty, u.rem)
             done == AddFrame(c, one, skb)
  <2>1. r = Decide(c, skb, done)
    BY <1>6 DEF FillBlock, Waiting
  <2>2. /\ TxFields \cup {"turned"} \subseteq DOMAIN empty.t /\ {"t", "stop"} \subseteq DOMAIN empty
        /\ empty.t.cur = u.cur /\ empty.t.rem = None /\ empty.stop = "no"
        /\ empty.t.turned = u.turned /\ empty.t.delayed = u.delayed
    BY <1>4 DEF TxFields
  <2>3. IsBlock(u.cur) /\ Len(u.cur.dgrams) < c.tx_max_datagrams /\ c.tx_max_datagrams \in Nat
    BY <1>3, <1>6 DEF TxGood, Geometry
  <2>4. BlockGood(c, u.cur, u.delayed) /\ Roomy(c, u.cur)
    BY <1>3, <1>6 DEF FillerGood
  <2> HIDE DEF empty, r
  <2>5. LoopGood(c, empty)
    <3>1. Loop(empty)
      BY <2>2, <2>3 DEF Loop
    <3>2. Filler(c, empty.t)
      BY <1>4, <2>2 DEF Filler, IndexGood
    <3>3. Len(u.cur.dgrams) <= c.tx_max_datagrams
      BY <2>3 DEF IsBlock
    <3> QED  BY <2>2, <2>4, <3>1, <3>2, <3>3 DEF LoopGood
  <2>6. LoopGood(c, one) /\ one.t.turned = u.turned
    BY <1>2, <1>3, <2>2, <2>5, AddFrameGood
  <2> HIDE DEF one
  <2>7. LoopGood(c, done) /\ done.t.turned = u.turned
    BY <2>6, AddFrameGood
  <2> HIDE DEF done
  <2>8. CallGood(c, done.t, r)
    BY <2>1, <2>7, DecideGood
  <2> QED  BY <1>1, <1>3, <2>7, <2>8 DEF CallGood
<1> QED  BY <1>5, <1>6

-----------------------------------------------------------------------------
(* The blocks over the whole run *)

\* Frames start where the device asked for (cdc_ncm_fix_modulus).
RemainderGood(c, d) ==
  LET rem == d.wNdpOutPayloadRemainder
      mod == c.tx_modulus
  IN c.tx_remainder = FrameRemainder(IF rem < mod THEN rem ELSE 0, mod)

BlocksInv ==
  /\ phase \in {"none", "claim"} => out = None
  /\ Bound =>
       /\ Geometry(ctx) /\ RemainderGood(ctx, device) /\ FillerGood(ctx, tx)
       /\ out # None => OutGood(ctx, out) /\ (~tx.turned => out.ndp = out.table)

\* Two sets of sizes by which the same blocks are built.
SameShape(c, u) ==
  /\ u.is_ndp16 = c.is_ndp16 /\ u.tx_modulus = c.tx_modulus
  /\ u.tx_remainder = c.tx_remainder /\ u.tx_ndp_modulus = c.tx_ndp_modulus
  /\ u.tx_max_datagrams = c.tx_max_datagrams /\ u.max_ndp_size = c.max_ndp_size

\* What is good by one is good by the other.
LEMMA ShapeMatters ==
  ASSUME NEW c, NEW u, SameShape(c, u)
  PROVE  /\ \A b : OutGood(c, b) => OutGood(u, b)
         /\ u.toEnd = c.toEnd => \A t : FillerGood(c, t) => FillerGood(u, t)
<1>1. Nth(u) = Nth(c) /\ \A x : Aligned(u, x) <=> Aligned(c, x)
  BY DEF SameShape, Nth, Aligned
<1>2. \A b : OutGood(c, b) => OutGood(u, b)
  BY <1>1 DEF SameShape, OutGood
<1>3. ASSUME u.toEnd = c.toEnd, NEW t, FillerGood(c, t)
      PROVE  FillerGood(u, t)
  <2>1. DelayedSize(u) = DelayedSize(c)
    BY <1>3 DEF SameShape, DelayedSize
  <2>2. \A s : DgramsGood(c, s) => DgramsGood(u, s)
    BY <1>1 DEF SameShape, DgramsGood
  <2>3. \A s, delayed : BlockGood(c, s, delayed) => BlockGood(u, s, delayed)
    BY <1>1, <1>3, <2>2 DEF SameShape, BlockGood
  <2>4. \A s : Roomy(c, s) => Roomy(u, s)
    BY <2>1 DEF Roomy
  <2>5. Filler(u, t)
    BY <1>3 DEF FillerGood, Filler, IndexGood
  <2> QED  BY <1>3, <2>3, <2>4, <2>5 DEF FillerGood
<1> QED  BY <1>2, <1>3

\* No store changes the shape, and but one the place of the table.
LEMMA StoresKeepShape ==
  ASSUME SizesInv, SizesInv', Bound, Bound', Geometry(ctx), Store
  PROVE  /\ SameShape(ctx, ctx') /\ Geometry(ctx')
         /\ NdpToEndStore \/ ctx'.toEnd = ctx.toEnd
<1>1. {"is_ndp16", "toEnd", "tx_modulus", "tx_remainder", "tx_ndp_modulus", "tx_max_datagrams",
       "max_ndp_size", "tx_max", "min_tx_pkt", "timer"} \subseteq DOMAIN ctx
  BY DEF Geometry
<1>2. /\ DOMAIN ctx' = DOMAIN ctx /\ SameShape(ctx, ctx')
      /\ ctx'.toEnd \in BOOLEAN
      /\ NdpToEndStore \/ ctx'.toEnd = ctx.toEnd
  <2>1. ctx.toEnd \in BOOLEAN
    BY DEF Geometry
  <2>2. CASE RxMaxStore \/ TxMaxStore
    <3>1. \E rx, txMax, h : ctx' = UpdateMax(ctx, device, rx, txMax, h)
      BY <2>2 DEF RxMaxStore, TxMaxStore, UpdateRxTxMax, Resized
    <3> QED  BY <1>1, <2>1, <3>1 DEF UpdateMax, SameShape
  <2>3. CASE StoreEnds
    BY <1>1, <2>1, <2>3 DEF StoreEnds, UpdateMinTxPkt, SameShape
  <2>4. CASE MinTxPktStore \/ TimerStore
    BY <1>1, <2>1, <2>4 DEF MinTxPktStore, TimerStore, SameShape
  <2>5. CASE NdpToEndStore
    <3>1. \E enable \in BOOLEAN : ctx' = [ctx EXCEPT !.toEnd = enable]
      BY <2>5 DEF NdpToEndStore
    <3> QED  BY <1>1, <2>5, <3>1 DEF SameShape
  <2>6. CASE ChangeMtu
    <3>1. \E mtu, n : ctx' = SetDgramSize([ctx EXCEPT !.mtu = mtu], device, n)
      BY <2>6 DEF ChangeMtu
    <3> QED  BY <1>1, <2>1, <3>1 DEF SetDgramSize, SameShape
  <2> QED  BY <2>2, <2>3, <2>4, <2>5, <2>6 DEF Store
<1>3. ctx'.tx_max \in Nat
  BY NtbLimits DEF SizesInv, SizesKept
<1>4. Ndp(ctx') = Ndp(ctx) /\ Dpe(ctx') = Dpe(ctx)
  BY <1>2 DEF SameShape, Ndp, Dpe
<1> QED  BY <1>2, <1>3, <1>4 DEF Geometry, SameShape

\* An alignment is never zero, whatever the device asks for.
LEMMA ModulusNat ==
  ASSUME NEW c, NEW v \in Nat
  PROVE  Modulus(c, v) \in Nat \ {0}
<1>1. v < AlignMin \/ v \in Nat \ {0}
  BY DEF AlignMin
<1>2. AlignMin \in Nat \ {0}
  BY DEF AlignMin
<1> DEFINE p == PowerOfTwo(v)
           q == v >= c.tx_max
<1>3. Modulus(c, v) = IF v < AlignMin \/ ~p \/ q THEN AlignMin ELSE v
  BY DEF Modulus
<1> HIDE DEF p, q
<1> QED  BY <1>1, <1>2, <1>3

\* The negotiation leaves alignments that blocks can be built by.
LEMMA SetupGood ==
  ASSUME NEW d \in Devices, NEW p \in BOOLEAN, NEW f \in BOOLEAN, NEW e \in BOOLEAN,
         NEW heard \in BOOLEAN
  PROVE  LET c == Setup(InitCtx(d, p, f, e), d, heard)
         IN Geometry(c) /\ RemainderGood(c, d)
<1> DEFINE c0 == InitCtx(d, p, f, e)
           rx == Lower(NtbDefault, d.dwNtbInMaxSize)
           tx0 == Lower(NtbDefault, d.dwNtbOutMaxSize)
           c1 == UpdateMinTxPkt(UpdateMax(c0, d, rx, tx0, heard))
           c2 == FixModulus(c1)
           c == Setup(c0, d, heard)
           fields == {"is_ndp16", "toEnd", "tx_modulus", "tx_remainder", "tx_ndp_modulus",
                      "tx_max_datagrams", "max_ndp_size", "tx_max", "min_tx_pkt", "timer"}
<1>1. c = SetDgramSize(c2, d, d.wMaxSegmentSize)
  BY DEF Setup
<1>2. SizesKept(c)
  BY SetupKeeps
<1>3. /\ fields \subseteq DOMAIN c0 /\ c0.toEnd = e
      /\ c0.tx_modulus = d.wNdpOutDivisor /\ c0.tx_ndp_modulus = d.wNdpOutAlignment
      /\ c0.tx_remainder = d.wNdpOutPayloadRemainder
      /\ c0.max_ndp_size = Ndp(c0) + (c0.tx_max_datagrams + 1) * Dpe(c0)
  BY DEF InitCtx, Ndp, Dpe
<1> HIDE DEF c0, c, rx, tx0
<1>4. /\ fields \subseteq DOMAIN c1 /\ c1.toEnd = e
      /\ c1.tx_modulus = d.wNdpOutDivisor /\ c1.tx_ndp_modulus = d.wNdpOutAlignment
      /\ c1.tx_remainder = d.wNdpOutPayloadRemainder
      /\ c1.is_ndp16 = c0.is_ndp16 /\ c1.max_ndp_size = c0.max_ndp_size
      /\ c1.tx_max_datagrams = c0.tx_max_datagrams
  BY <1>3 DEF UpdateMax, UpdateMinTxPkt
<1> HIDE DEF c1
<1> DEFINE mod == Modulus(c1, c1.tx_modulus)
           rem == IF c1.tx_remainder >= mod THEN 0 ELSE c1.tx_remainder
<1>5. /\ mod \in Nat \ {0} /\ Modulus(c1, c1.tx_ndp_modulus) \in Nat \ {0}
  BY <1>4, ModulusNat, NcmAssumption
<1>6. /\ fields \subseteq DOMAIN c2 /\ c2.toEnd = e /\ c2.tx_modulus = mod
      /\ c2.tx_ndp_modulus = Modulus(c1, c1.tx_ndp_modulus)
      /\ c2.tx_remainder = FrameRemainder(rem, mod)
      /\ c2.is_ndp16 = c1.is_ndp16 /\ c2.max_ndp_size = c1.max_ndp_size
      /\ c2.tx_max_datagrams = c1.tx_max_datagrams
  BY <1>4 DEF FixModulus
<1> HIDE DEF c2
<1>7. /\ fields \subseteq DOMAIN c /\ c.toEnd = c2.toEnd /\ c.tx_modulus = c2.tx_modulus
      /\ c.tx_ndp_modulus = c2.tx_ndp_modulus /\ c.tx_remainder = c2.tx_remainder
      /\ c.is_ndp16 = c2.is_ndp16 /\ c.max_ndp_size = c2.max_ndp_size
      /\ c.tx_max_datagrams = c2.tx_max_datagrams
  BY <1>1, <1>6 DEF SetDgramSize
<1> HIDE DEF mod
<1>8. rem \in Nat /\ rem = IF d.wNdpOutPayloadRemainder < mod THEN d.wNdpOutPayloadRemainder ELSE 0
  BY <1>4, <1>5, NcmAssumption
<1> HIDE DEF rem
<1>9. FrameRemainder(rem, mod) \in Nat
  BY <1>5, <1>8 DEF FrameRemainder, EthHlen
<1>10. RemainderGood(c, d)
  BY <1>6, <1>7, <1>8 DEF RemainderGood
<1>11. /\ c.max_ndp_size \in Nat /\ c.tx_max_datagrams \in Nat \ {0} /\ c.tx_max \in Nat
  BY <1>2, NtbLimits DEF SizesKept, TxNumbers, DatagramsMax
<1>12. c.max_ndp_size = Ndp(c) + (c.tx_max_datagrams + 1) * Dpe(c)
  <2>1. Ndp(c) = Ndp(c0) /\ Dpe(c) = Dpe(c0)
    BY <1>4, <1>6, <1>7 DEF Ndp, Dpe
  <2> QED  BY <1>3, <1>4, <1>6, <1>7, <2>1
<1>13. Geometry(c)
  BY <1>5, <1>6, <1>7, <1>9, <1>11, <1>12 DEF Geometry
<1> QED  BY <1>10, <1>13 DEF c, c0

\* An empty transmit side.
LEMMA NewTxFilled ==
  ASSUME NEW c
  PROVE  FillerGood(c, NewTx)
  BY DEF FillerGood, Filler, IndexGood, NewTx, TxFields

\* Without datagrams the place of the table can change: what the index leads to does
\* not matter if none is in the header, and is marked if one is (342-344).
LEMMA TurnGood ==
  ASSUME NEW c, NEW u, NEW t, NEW enable \in BOOLEAN, FillerGood(c, t), c.toEnd \in BOOLEAN,
         u.toEnd = enable, SameShape(c, u), Ids(t.cur) = {},
         t.cur # None => IsBlock(t.cur)
  PROVE  LET v == [t EXCEPT !.turned = @ \/ (enable # c.toEnd /\ Indexed(t.cur))]
         IN FillerGood(u, v) /\ v.cur = t.cur /\ (~v.turned => ~t.turned)
<1> DEFINE b == t.turned \/ (enable # c.toEnd /\ Indexed(t.cur))
           v == [t EXCEPT !.turned = b]
<1>1. /\ TxFields \cup {"turned"} \subseteq DOMAIN t
      /\ t.delayed \in BOOLEAN /\ t.turned \in BOOLEAN /\ IndexGood(c, t)
      /\ t.rem # None => t.rem.len \in Nat \ {0} /\ EthHlen <= t.rem.len
  BY DEF FillerGood, Filler
<1>2. b \in BOOLEAN
  BY <1>1 DEF Indexed
<1>3. /\ TxFields \cup {"turned"} \subseteq DOMAIN v
      /\ v.cur = t.cur /\ v.rem = t.rem /\ v.delayed = t.delayed /\ v.turned = b
  BY <1>1 DEF TxFields
<1>4. v = [t EXCEPT !.turned = @ \/ (enable # c.toEnd /\ Indexed(t.cur))]
  OBVIOUS
<1> HIDE DEF v
<1>5. IndexGood(u, v)
  <2> SUFFICES ASSUME ~v.turned, v.cur # None
               PROVE  IF u.toEnd THEN v.cur.table = 0 ELSE v.cur.ndp = v.cur.table
    BY DEF IndexGood
  <2>1. ~t.turned /\ t.cur # None /\ (enable = c.toEnd \/ ~Indexed(t.cur))
    BY <1>1, <1>3
  <2>2. IF c.toEnd THEN t.cur.table = 0 ELSE t.cur.ndp = t.cur.table
    BY <1>1, <2>1 DEF IndexGood
  <2>3. CASE enable = c.toEnd
    BY <1>3, <2>2, <2>3
  <2>4. CASE ~Indexed(t.cur)
    BY <1>3, <2>1, <2>2, <2>4 DEF Indexed
  <2> QED  BY <2>1, <2>3, <2>4
<1>6. ASSUME t.cur # None
      PROVE  BlockGood(u, t.cur, t.delayed) /\ Roomy(u, t.cur)
  <2>1. t.cur.dgrams = <<>>
    <3>1. t.cur.dgrams \in Seq(Range(t.cur.dgrams))
      BY <1>6 DEF IsBlock
    <3>2. DOMAIN t.cur.dgrams = {}
      BY <1>6 DEF Ids
    <3>3. Len(t.cur.dgrams) \in Nat /\ DOMAIN t.cur.dgrams = 1 .. Len(t.cur.dgrams)
      BY <3>1
    <3>4. 1 \notin 1 .. Len(t.cur.dgrams)
      BY <3>2, <3>3
    <3>5. Len(t.cur.dgrams) = 0
      BY <3>3, <3>4
    <3> QED  BY <3>1, <3>5
  <2>2. BlockGood(c, t.cur, t.delayed)
    BY <1>6 DEF FillerGood
  <2>3. Nth(u) = Nth(c)
    BY DEF SameShape, Nth
  <2> QED  BY <2>1, <2>2, <2>3, EmptyGood DEF BlockGood, SameShape
<1>7. FillerGood(u, v)
  BY <1>1, <1>2, <1>3, <1>5, <1>6 DEF FillerGood, Filler
<1>8. ~v.turned => ~t.turned
  BY <1>1, <1>3
<1> QED  BY <1>3, <1>4, <1>7, <1>8

\* A call leaves good blocks, and sends one.
LEMMA CallBuilds ==
  ASSUME NEW skb, NEW first, NEW second, NEW r, r = FillTxFrame(ctx, tx, skb, first, second),
         BlocksInv, FramesInv, Bound, FrameGood(skb), Sends(r)
  PROVE  /\ FillerGood(ctx, r.t) /\ r.t.turned = tx.turned
         /\ out' # None => OutGood(ctx, out') /\ (~tx.turned => out'.ndp = out'.table)
<1>1. Geometry(ctx) /\ FillerGood(ctx, tx) /\ TxGood(ctx, tx)
  BY DEF BlocksInv, FramesInv
<1>2. CallGood(ctx, tx, r)
  BY <1>1, FillGood
<1> QED  BY <1>2 DEF CallGood, Sends

\* Blocks are built in the calls of cdc_ncm_fill_tx_frame, by a shape that stays.
LEMMA BlocksStep ==
  ASSUME SizesInv, SizesInv', QuietInv, FramesInv, BlocksInv, [Next]_vars
  PROVE  BlocksInv'
<1>1. ASSUME UNCHANGED <<tx, out>>, Bound' => Bound,
             Bound' => UNCHANGED <<ctx, device>>, phase' \in {"none", "claim"} => phase \in {"none", "claim"}
      PROVE  BlocksInv'
  BY <1>1 DEF BlocksInv, RemainderGood
<1>2. ASSUME phase' = phase, Bound, UNCHANGED device, SameShape(ctx, ctx'), Geometry(ctx'),
             FillerGood(ctx', tx'), out' # None => OutGood(ctx, out') /\ (~tx'.turned => out'.ndp = out'.table)
      PROVE  BlocksInv'
  <2>1. RemainderGood(ctx', device')
    BY <1>2 DEF BlocksInv, RemainderGood, SameShape
  <2>2. out' # None => OutGood(ctx', out')
    BY <1>2, ShapeMatters
  <2> QED  BY <1>2, <2>1, <2>2 DEF BlocksInv, Bound
<1>3. SameShape(ctx, ctx)
  BY DEF SameShape
<1>4. CASE UNCHANGED vars
  BY <1>1, <1>4 DEF vars, Bound
<1>5. CASE BindClaims \/ BindFails
  BY <1>5 DEF BindClaims, BindFails, BlocksInv, Bound, wire
<1>6. CASE Bind
  <2>1. PICK p \in BOOLEAN, f \in BOOLEAN, h \in BOOLEAN, e \in NdpToEnd :
             ctx' = Setup(InitCtx(device, p, f, e), device, h)
    BY <1>6 DEF Bind
  <2>2. /\ tx' = NewTx /\ out' = out /\ phase = "claim" /\ phase' = "bound" /\ device' = device
        /\ e \in BOOLEAN /\ device \in Devices
    BY <1>6, NcmAssumption DEF Bind, wire, SizesInv
  <2>3. Geometry(ctx') /\ RemainderGood(ctx', device)
    BY <2>1, <2>2, SetupGood
  <2>4. FillerGood(ctx', NewTx)
    BY NewTxFilled
  <2>5. out' = None
    BY <2>2 DEF BlocksInv
  <2> QED  BY <2>2, <2>3, <2>4, <2>5 DEF BlocksInv
<1>7. CASE Open \/ UnbindStop \/ HrtimerCancel \/ TaskletKill
  BY <1>1, <1>7 DEF Open, UnbindStop, HrtimerCancel, TaskletKill, Bound, timing, wire
<1>8. CASE UnbindFree
  BY <1>8 DEF UnbindFree, BlocksInv, Bound
<1>9. CASE Xmit
  <2>1. PICK len \in FrameLens, first \in Memory, second \in Memory :
          Filled(FillTxFrame(ctx, tx, [id |-> issued + 1, len |-> len], first, second))
    BY <1>9 DEF Xmit, Fill
  <2> DEFINE skb == [id |-> issued + 1, len |-> len]
             r == FillTxFrame(ctx, tx, skb, first, second)
  <2>2. Bound /\ phase' = phase /\ ctx' = ctx /\ device' = device
    BY <1>9 DEF Xmit, Bound
  <2>3. FrameGood(skb)
    BY NcmAssumption DEF FrameGood
  <2>4. Sends(r) /\ tx' = r.t
    BY <2>1 DEF Filled
  <2> HIDE DEF skb
  <2>5. /\ FillerGood(ctx, r.t) /\ r.t.turned = tx.turned
        /\ out' # None => OutGood(ctx, out') /\ (~tx.turned => out'.ndp = out'.table)
    BY <2>2, <2>3, <2>4, CallBuilds
  <2> HIDE DEF r
  <2> QED  BY <1>2, <1>3, <2>2, <2>4, <2>5 DEF BlocksInv
<1>10. CASE TimerFires \/ BhRuns \/ BhStartsTimer \/ Receive \/ Status
  BY <1>1, <1>10 DEF TimerFires, BhRuns, BhStartsTimer, Receive, Status, wire, Bound
<1>11. CASE BhFlushes
  <2>1. PICK first \in Memory, second \in Memory :
          Filled(FillTxFrame(ctx, tx, None, first, second))
    BY <1>11 DEF BhFlushes, Fill
  <2> DEFINE r == FillTxFrame(ctx, tx, None, first, second)
  <2>2. Bound /\ phase' = phase /\ ctx' = ctx /\ device' = device
    BY <1>11, FlusherBound DEF BhFlushes
  <2>3. Sends(r) /\ tx' = r.t /\ FrameGood(None)
    BY <2>1 DEF Filled, FrameGood
  <2>4. /\ FillerGood(ctx, r.t) /\ r.t.turned = tx.turned
        /\ out' # None => OutGood(ctx, out') /\ (~tx.turned => out'.ndp = out'.table)
    BY <2>2, <2>3, CallBuilds
  <2> HIDE DEF r
  <2> QED  BY <1>2, <1>3, <2>2, <2>3, <2>4 DEF BlocksInv
<1>12. CASE Store
  <2>1. UNCHANGED <<phase, device>> /\ (Bound' <=> Bound)
    BY <1>12 DEF Store, RxMaxStore, TxMaxStore, UpdateRxTxMax, Resized, StoreEnds, MinTxPktStore,
                 TimerStore, NdpToEndStore, ChangeMtu, Bound
  <2>2. Bound => /\ SameShape(ctx, ctx') /\ Geometry(ctx')
                 /\ NdpToEndStore \/ ctx'.toEnd = ctx.toEnd
    BY <1>12, <2>1, StoresKeepShape DEF BlocksInv
  <2>3. ASSUME Bound, UNCHANGED <<tx, out>>, ~NdpToEndStore
        PROVE  BlocksInv'
    <3>1. FillerGood(ctx', tx)
      BY <2>2, <2>3, ShapeMatters DEF BlocksInv
    <3> QED  BY <1>2, <2>1, <2>2, <2>3, <3>1 DEF BlocksInv
  <2>4. ASSUME ~Bound, UNCHANGED out
        PROVE  BlocksInv'
    BY <2>1, <2>4 DEF BlocksInv
  <2>5. CASE NdpToEndStore
    <3>1. PICK enable \in BOOLEAN, first \in Memory, second \in Memory :
            LET r == FillTxFrame(ctx, tx, None, first, second)
            IN /\ ctx' = [ctx EXCEPT !.toEnd = enable]
               /\ tx' = [r.t EXCEPT !.turned = @ \/ (enable # ctx.toEnd /\ Indexed(r.t.cur))]
               /\ Sends(r)
      BY <2>5 DEF NdpToEndStore
    <3> DEFINE r == FillTxFrame(ctx, tx, None, first, second)
    <3>2. Bound
      BY <2>5 DEF NdpToEndStore, Storing, Bound
    <3>3. FrameGood(None) /\ Sends(r)
      BY <3>1 DEF FrameGood
    <3>4. /\ FillerGood(ctx, r.t) /\ r.t.turned = tx.turned
          /\ out' # None => OutGood(ctx, out') /\ (~tx.turned => out'.ndp = out'.table)
      BY <3>2, <3>3, CallBuilds
    <3>5. Ids(r.t.cur) = {} /\ TxGood(ctx, r.t)
      BY <3>2, <3>3, FlushKeeps
    <3>6. /\ r.t.cur # None => IsBlock(r.t.cur)
          /\ Geometry(ctx)
      BY <3>2, <3>5 DEF TxGood, BlocksInv
    <3>7. ctx'.toEnd = enable /\ ctx.toEnd \in BOOLEAN
      BY <3>1, <3>6 DEF Geometry
    <3>8. tx' = [r.t EXCEPT !.turned = @ \/ (enable # ctx.toEnd /\ Indexed(r.t.cur))]
      BY <3>1
    <3> HIDE DEF r
    <3>9. FillerGood(ctx', tx') /\ (~tx'.turned => ~r.t.turned)
      BY <2>2, <3>2, <3>4, <3>5, <3>6, <3>7, <3>8, TurnGood
    <3> QED  BY <1>2, <2>1, <2>2, <3>2, <3>4, <3>9
  <2>6. CASE (StoreEnds \/ MinTxPktStore \/ TimerStore \/ ChangeMtu) /\ ~NdpToEndStore
    <3>1. UNCHANGED <<tx, out>>
      BY <2>6 DEF StoreEnds, MinTxPktStore, TimerStore, ChangeMtu, wire
    <3> QED  BY <2>3, <2>4, <2>6, <3>1
  <2>7. CASE (RxMaxStore \/ TxMaxStore) /\ ~NdpToEndStore
    <3>1. Bound
      BY <2>7 DEF RxMaxStore, TxMaxStore, Storing, Bound
    <3>2. CASE UNCHANGED <<tx, out, sent>>
      BY <2>3, <2>7, <3>1, <3>2
    <3>3. CASE \E first, second \in Memory : Flushed(FillTxFrame(ctx, tx, None, first, second))
      <4>1. PICK first \in Memory, second \in Memory :
              Flushed(FillTxFrame(ctx, tx, None, first, second))
        BY <3>3
      <4> DEFINE r == FillTxFrame(ctx, tx, None, first, second)
      <4>2. Sends(r) /\ tx' = [r.t EXCEPT !.cur = None] /\ FrameGood(None)
        BY <4>1 DEF Flushed, FrameGood
      <4>3. /\ FillerGood(ctx, r.t) /\ r.t.turned = tx.turned
            /\ out' # None => OutGood(ctx, out') /\ (~tx.turned => out'.ndp = out'.table)
        BY <3>1, <4>2, CallBuilds
      <4> HIDE DEF r
      <4>4. /\ TxFields \cup {"turned"} \subseteq DOMAIN tx' /\ tx'.cur = None
            /\ tx'.rem = r.t.rem /\ tx'.delayed = r.t.delayed /\ tx'.turned = r.t.turned
        BY <4>2, <4>3 DEF FillerGood, Filler, TxFields
      <4>5. FillerGood(ctx, tx')
        BY <4>3, <4>4 DEF FillerGood, Filler, IndexGood
      <4>6. FillerGood(ctx', tx')
        BY <2>2, <2>7, <3>1, <4>5, ShapeMatters
      <4> QED  BY <1>2, <2>1, <2>2, <3>1, <4>3, <4>4, <4>6
    <3> QED
      BY <2>7, <3>2, <3>3 DEF RxMaxStore, TxMaxStore, UpdateRxTxMax, Resized
  <2> QED  BY <1>12, <2>5, <2>6, <2>7 DEF Store
<1> QED
  BY <1>4, <1>5, <1>6, <1>7, <1>8, <1>9, <1>10, <1>11, <1>12 DEF Next, Bh

\* Payloads sit where the device asked for: the frame starts EthHlen before them.
LEMMA PayloadSits ==
  ASSUME SizesInv, Bound, Geometry(ctx), RemainderGood(ctx, device), NEW d, Aligned(ctx, d.off)
  PROVE  PayloadAt(d)
<1> DEFINE mod == ctx.tx_modulus
           rem == IF device.wNdpOutPayloadRemainder < mod
                  THEN device.wNdpOutPayloadRemainder ELSE 0
<1>1. device \in Devices /\ device.wNdpOutPayloadRemainder \in Nat
  BY NcmAssumption DEF SizesInv, Bound
<1>2. mod \in Nat \ {0} /\ rem \in Nat /\ rem < mod
  BY <1>1 DEF Geometry
<1>3. ctx.tx_remainder = (rem - EthHlen) % mod
  BY DEF RemainderGood, FrameRemainder
<1>4. PICK k \in Nat : d.off = k * mod + ctx.tx_remainder
  BY DEF Aligned
<1>5. PayloadAt(d) <=> (d.off + EthHlen) % mod = rem
  BY DEF PayloadAt
<1> HIDE DEF mod, rem
<1> DEFINE x == rem - EthHlen
           q == x \div mod
<1>6. x \in Int /\ q \in Int /\ x < mod /\ x = mod * q + (x % mod) /\ (x % mod) \in 0 .. mod - 1
  BY <1>2 DEF EthHlen
<1>7. d.off + EthHlen = (k - q) * mod + rem
  <2>1. d.off = k * mod + (x % mod)
    BY <1>3, <1>4
  <2>2. (k - q) * mod = k * mod - mod * q
    BY <1>2, <1>4, <1>6
  <2>3. x + EthHlen = rem
    BY <1>2 DEF EthHlen
  <2> DEFINE a == k * mod
             b == mod * q
             y == x % mod
  <2>4. /\ a \in Int /\ b \in Int /\ y \in Int /\ EthHlen \in Int
        /\ d.off = a + y /\ (k - q) * mod = a - b /\ x = b + y
    BY <1>2, <1>4, <1>6, <2>1, <2>2 DEF EthHlen
  <2> HIDE DEF x, q, a, b, y
  <2> QED  BY <1>2, <1>6, <2>3, <2>4
<1>8. k - q \in Nat
  <2>1. q <= 0
    <3> SUFFICES ASSUME q > 0
                 PROVE  FALSE
      BY <1>6
    <3> DEFINE p == q - 1
    <3>1. p \in Nat /\ q = p + 1
      BY <1>6
    <3> HIDE DEF x, p
    <3>2. mod * q = mod * p + mod /\ mod * p \in Nat
      <4> HIDE DEF q
      <4> QED  BY <1>2, <3>1
    <3>3. mod * q > x
      <4> HIDE DEF q
      <4> QED  BY <1>2, <1>6, <3>2
    <3> HIDE DEF q
    <3> QED  BY <1>2, <1>6, <3>2, <3>3
  <2> QED  BY <1>6, <2>1
<1> HIDE DEF x, q
<1>9. ((k - q) * mod + rem) % mod = rem
  <2> DEFINE n == k - q
  <2>1. n \in Nat
    BY <1>8
  <2> HIDE DEF n
  <2>2. (n * mod + rem) % mod = rem
    BY <1>2, <2>1
  <2> QED  BY <2>2 DEF n
<1> QED  BY <1>5, <1>7, <1>9

\* Every block that is sent is well formed, for all devices, frames, stores and
\* allocations, and whatever the alignments are (1295-1446).
THEOREM BlocksWellFormed == Spec => []BlockWellFormed
<1> DEFINE I == SizesInv /\ QuietInv /\ FramesInv /\ BlocksInv
<1>1. Init => I
  <2>1. Init => BlocksInv
    BY DEF Init, BlocksInv, Bound
  <2> QED  BY <2>1, FramesInit
<1>2. I /\ [Next]_vars => I'
  BY SizesStep, QuietStep, FramesStep, BlocksStep
<1>3. I => BlockWellFormed
  <2> SUFFICES ASSUME I, out # None, Bound
               PROVE  /\ out.len <= out.size
                      /\ Len(out.dgrams) \in 1 .. ctx.tx_max_datagrams
                      /\ ~tx.turned => out.ndp = out.table
                      /\ \/ out.table % ctx.tx_ndp_modulus = 0
                         \/ out.table + ctx.max_ndp_size = out.size
                      /\ out.table >= Nth(ctx) /\ out.table + ctx.max_ndp_size <= out.len
                      /\ \A i \in DOMAIN out.dgrams :
                           /\ PayloadAt(out.dgrams[i])
                           /\ Ends(out.dgrams[i]) <= out.len
                           /\ \/ out.dgrams[i].off >= out.table + ctx.max_ndp_size
                              \/ Ends(out.dgrams[i]) <= out.table
                           /\ i > 1 => Ends(out.dgrams[i - 1]) <= out.dgrams[i].off
                           /\ out.dgrams[i].off >= Nth(ctx)
    BY DEF BlockWellFormed
  <2>1. /\ Geometry(ctx) /\ RemainderGood(ctx, device) /\ OutGood(ctx, out)
        /\ ~tx.turned => out.ndp = out.table
    BY DEF BlocksInv
  <2>2. ASSUME NEW i \in DOMAIN out.dgrams
        PROVE  PayloadAt(out.dgrams[i])
    BY <2>1, PayloadSits DEF OutGood
  <2>3. /\ out.table \in Nat /\ ctx.max_ndp_size \in Nat /\ Nth(ctx) \in Nat
        /\ \A i \in DOMAIN out.dgrams : out.dgrams[i].off \in Nat
    BY <2>1, NthNat DEF OutGood, Geometry
  <2> QED  BY <2>1, <2>2, <2>3 DEF OutGood
<1> QED
  BY <1>1, <1>2, <1>3, PTL DEF Spec

-----------------------------------------------------------------------------
(* Room for every frame *)

\* What a block takes that has room for a frame of any length up to largest.
Space(c, largest) ==
  Nth(c) + c.max_ndp_size + Upper(c.tx_ndp_modulus, c.tx_modulus + c.tx_remainder)
  + c.tx_modulus + c.tx_remainder + largest

\* A large block without datagrams is as it was allocated: no frame that found no
\* room has left a table or an alignment in it.
Ample(c, largest, s) ==
  s.dgrams = <<>> /\ Space(c, largest) <= s.size => s.len = Nth(c) /\ s.table = 0

FrameSmall(largest, f) == f = None \/ f.len \in 1 .. largest

\* Building the table and aligning the frame do not change the size.
LEMMA SizeStays ==
  ASSUME NEW c, NEW st, NEW f, Loop(st)
  PROVE  AddFrame(c, st, f).t.cur.size = st.t.cur.size
<1> DEFINE reserve == f.len + c.tx_modulus + c.tx_remainder
           found == WithTable(c, st.t, reserve)
           len == AlignTail(found.t.cur.len, c.tx_modulus, c.tx_remainder, found.t.cur.size)
           t == [found.t EXCEPT !.cur.len = len]
           d == [id |-> f.id, off |-> len, len |-> f.len]
           placed == [t EXCEPT !.cur.len = len + f.len, !.cur.dgrams = Append(@, d)]
           r == AddFrame(c, st, f)
<1>1. /\ TxFields \subseteq DOMAIN st.t /\ {"size", "len", "ndp", "dgrams"} \subseteq DOMAIN st.t.cur
      /\ {"t", "stop"} \subseteq DOMAIN st
  BY DEF Loop, IsBlock
<1>2. /\ TxFields \subseteq DOMAIN found.t
      /\ {"size", "len", "ndp", "dgrams"} \subseteq DOMAIN found.t.cur
      /\ found.t.cur.size = st.t.cur.size
  BY <1>1 DEF WithTable, TxFields
<1>3. \/ r = st
      \/ r = [st EXCEPT !.t.dropped = @ \cup {f.id}]
      \/ r = [st EXCEPT !.t.rem = f]
      \/ r = [st EXCEPT !.t = placed]
      \/ r = [t |-> [t EXCEPT !.dropped = @ \cup {f.id}], stop |-> "unfit"]
      \/ r = [t |-> [t EXCEPT !.rem = f], stop |-> "full"]
  BY DEF AddFrame, Place
<1> HIDE DEF found, r
<1>4. /\ TxFields \subseteq DOMAIN t /\ t.cur.size = st.t.cur.size
      /\ {"size", "len", "ndp", "dgrams"} \subseteq DOMAIN t.cur
  BY <1>2 DEF TxFields
<1> HIDE DEF t, d, len
<1>5. placed.cur.size = t.cur.size
  BY <1>4 DEF TxFields
<1> HIDE DEF placed
<1>6. r.t.cur.size = st.t.cur.size
  BY <1>1, <1>3, <1>4, <1>5 DEF TxFields
<1> QED  BY <1>6 DEF r

\* In a large block that is as it was allocated there is room for the table.
LEMMA TableFits ==
  ASSUME NEW c, NEW t, NEW largest \in Nat, NEW n \in 1 .. largest, Geometry(c),
         TxFields \subseteq DOMAIN t, IsBlock(t.cur), "table" \in DOMAIN t.cur,
         t.cur.size \in Nat, t.cur.len = Nth(c), t.cur.table = 0, t.delayed \in BOOLEAN,
         Space(c, largest) <= t.cur.size
  PROVE  LET w == WithTable(c, t, n + c.tx_modulus + c.tx_remainder)
         IN /\ w.ok /\ w.t.cur.size = t.cur.size /\ w.t.cur.len \in Nat
            /\ w.t.cur.len + c.tx_modulus + c.tx_remainder - 1 + n + DelayedSize(c)
                 <= t.cur.size
<1> DEFINE reserve == n + c.tx_modulus + c.tx_remainder
           w == WithTable(c, t, reserve)
           s == t.cur
           len == IF c.toEnd THEN s.len ELSE AlignTail(s.len, c.tx_ndp_modulus, 0, s.size)
           room == s.size - len - reserve
           body == IF c.toEnd THEN 0 ELSE c.max_ndp_size
           new == [t EXCEPT !.cur.len = len + body,
                            !.cur.ndp = IF @ = 0 THEN len ELSE @,
                            !.cur.table = IF c.toEnd THEN 0 ELSE len,
                            !.delayed = @ \/ c.toEnd]
           wide == Upper(c.tx_ndp_modulus, c.tx_modulus + c.tx_remainder)
<1>1. /\ c.tx_modulus \in Nat \ {0} /\ c.tx_ndp_modulus \in Nat \ {0}
      /\ c.tx_remainder \in Nat /\ c.max_ndp_size \in Nat /\ c.toEnd \in BOOLEAN
      /\ Nth(c) \in Nat
      /\ {"size", "len", "ndp", "table", "dgrams"} \subseteq DOMAIN s
  BY NthNat DEF Geometry, IsBlock
<1>2. wide \in Nat /\ c.tx_ndp_modulus <= wide /\ c.tx_modulus + c.tx_remainder <= wide
  BY <1>1 DEF Upper
<1>3. Nth(c) + c.max_ndp_size + wide + c.tx_modulus + c.tx_remainder + largest <= s.size
  BY DEF Space
<1>4. DelayedSize(c) = IF c.toEnd THEN c.max_ndp_size + wide - 1 ELSE 0
  BY DEF DelayedSize
<1> HIDE DEF wide
<1>5. len \in Nat /\ len <= Nth(c) + (IF c.toEnd THEN 0 ELSE c.tx_ndp_modulus - 1)
  <2>1. CASE c.toEnd
    BY <1>1, <2>1
  <2>2. CASE ~c.toEnd
    <3>1. len = AlignTail(s.len, c.tx_ndp_modulus, 0, s.size) /\ s.len \in Nat /\ s.size \in Int
      BY <1>1, <2>2
    <3> HIDE DEF len
    <3>2. len \in Nat /\ len <= s.len + c.tx_ndp_modulus - 1
      BY <1>1, <3>1, AlignPlainEnds
    <3> QED  BY <1>1, <2>2, <3>2
  <2> QED  BY <1>1, <2>1, <2>2
<1>6. \/ w = [ok |-> TRUE, t |-> t] /\ c.toEnd /\ t.delayed
      \/ room >= 0 /\ room < c.max_ndp_size
      \/ w = [ok |-> TRUE, t |-> new]
  BY DEF WithTable
<1> HIDE DEF w, len
<1>7. room >= c.max_ndp_size
  <2> HIDE DEF s
  <2>1. CASE c.toEnd
    BY <1>1, <1>2, <1>3, <1>5, <2>1 DEF s
  <2>2. CASE ~c.toEnd
    BY <1>1, <1>2, <1>3, <1>5, <2>2 DEF s
  <2> QED  BY <1>1, <2>1, <2>2
<1>8. room \in Int
  BY <1>1, <1>5
<1> HIDE DEF room
<1>9. CASE w = [ok |-> TRUE, t |-> t] /\ c.toEnd /\ t.delayed
  <2>1. /\ w.ok /\ w.t.cur.size = t.cur.size /\ w.t.cur.len \in Nat /\ w.t.cur.len = Nth(c)
    BY <1>1, <1>9
  <2>2. Nth(c) + c.tx_modulus + c.tx_remainder - 1 + n + DelayedSize(c) <= t.cur.size
    BY <1>1, <1>2, <1>3, <1>4, <1>9
  <2> QED  BY <2>1, <2>2 DEF w
<1>10. CASE w = [ok |-> TRUE, t |-> new]
  <2>1. new.cur.size = s.size /\ new.cur.len = len + body
    BY <1>1 DEF TxFields
  <2>2. w.ok /\ w.t.cur.size = s.size /\ w.t.cur.len = len + body
    BY <1>10, <2>1
  <2>3. /\ len + body \in Nat
        /\ len + body + c.tx_modulus + c.tx_remainder - 1 + n + DelayedSize(c) <= s.size
    <3>1. CASE c.toEnd
      BY <1>1, <1>2, <1>3, <1>4, <1>5, <3>1
    <3>2. CASE ~c.toEnd
      BY <1>1, <1>2, <1>3, <1>4, <1>5, <3>2
    <3> QED  BY <1>1, <3>1, <3>2
  <2> HIDE DEF body, new
  <2> QED  BY <2>2, <2>3 DEF w
<1> QED  BY <1>1, <1>6, <1>7, <1>8, <1>9, <1>10

\* So there is room for the frame.
LEMMA PlaceFits ==
  ASSUME NEW c, NEW st, NEW largest \in Nat, NEW f, f.len \in 1 .. largest, Geometry(c),
         LoopGood(c, st), Ample(c, largest, st.t.cur), st.t.cur.dgrams = <<>>,
         Space(c, largest) <= st.t.cur.size
  PROVE  LET r == Place(c, st, f, WithTable(c, st.t, f.len + c.tx_modulus + c.tx_remainder))
         IN r.stop = st.stop /\ r.t.dropped = st.t.dropped /\ r.t.cur.dgrams # <<>>
<1> DEFINE reserve == f.len + c.tx_modulus + c.tx_remainder
           found == WithTable(c, st.t, reserve)
           s == found.t.cur
           len == AlignTail(s.len, c.tx_modulus, c.tx_remainder, s.size)
           t == [found.t EXCEPT !.cur.len = len]
           fits == found.ok /\ len + f.len + DelayedSize(c) <= s.size
           d == [id |-> f.id, off |-> len, len |-> f.len]
           placed == [t EXCEPT !.cur.len = len + f.len, !.cur.dgrams = Append(@, d)]
           r == Place(c, st, f, found)
<1>1. /\ Loop(st) /\ TxFields \subseteq DOMAIN st.t /\ IsBlock(st.t.cur)
      /\ "table" \in DOMAIN st.t.cur /\ st.t.cur.size \in Nat
      /\ st.t.delayed \in BOOLEAN
      /\ {"t", "stop"} \subseteq DOMAIN st
  BY DEF LoopGood, Loop, BlockGood, Filler
<1>2. st.t.cur.len = Nth(c) /\ st.t.cur.table = 0
  BY DEF Ample
<1>3. /\ found.ok /\ s.size = st.t.cur.size /\ s.len \in Nat
      /\ s.len + c.tx_modulus + c.tx_remainder - 1 + f.len + DelayedSize(c) <= s.size
  <2>1. LET w == WithTable(c, st.t, reserve)
        IN /\ w.ok /\ w.t.cur.size = st.t.cur.size /\ w.t.cur.len \in Nat
           /\ w.t.cur.len + c.tx_modulus + c.tx_remainder - 1 + f.len + DelayedSize(c)
                <= st.t.cur.size
    BY <1>1, <1>2, TableFits
  <2> HIDE DEF reserve
  <2> QED  BY <2>1
<1>4. /\ TxFields \subseteq DOMAIN found.t /\ IsBlock(found.t.cur)
      /\ found.t.dropped = st.t.dropped
  BY <1>1, TableKeeps
<1>5. fits => r = [st EXCEPT !.t = placed]
  BY DEF Place
<1> HIDE DEF found, r, reserve
<1>6. /\ c.tx_modulus \in Nat \ {0} /\ c.tx_remainder \in Nat /\ DelayedSize(c) \in Nat
  BY RoomKept DEF Geometry
<1>7. len \in Nat /\ len <= s.len + c.tx_modulus - 1 + c.tx_remainder
  <2> DEFINE l == s.len
             max == s.size
  <2>1. l \in Nat /\ max \in Int /\ len = AlignTail(l, c.tx_modulus, c.tx_remainder, max)
    BY <1>1, <1>3
  <2> HIDE DEF l, max, len
  <2>2. len \in Nat /\ len <= l + c.tx_modulus - 1 + c.tx_remainder
    BY <1>6, <2>1, AlignTailEnds
  <2> QED  BY <2>2 DEF l
<1> HIDE DEF len
<1>8. fits
  <2> DEFINE delayed == DelayedSize(c)
             l == s.len
             max == s.size
             n == f.len
             ok == found.ok
             mod == c.tx_modulus
             rem == c.tx_remainder
  <2>1. /\ max \in Nat /\ l \in Nat /\ n \in Nat /\ delayed \in Nat
        /\ mod \in Nat /\ rem \in Nat /\ len \in Nat
        /\ l + mod + rem - 1 + n + delayed <= max /\ len <= l + mod - 1 + rem
    BY <1>1, <1>3, <1>6, <1>7
  <2>2. ok
    BY <1>3
  <2>3. fits <=> ok /\ len + n + delayed <= max
    OBVIOUS
  <2> HIDE DEF fits, delayed, l, max, n, ok, mod, rem
  <2>4. len + n + delayed <= max
    BY <2>1
  <2> QED  BY <2>2, <2>3, <2>4
<1> HIDE DEF fits
<1>9. /\ TxFields \subseteq DOMAIN t /\ t.dropped = found.t.dropped
      /\ {"size", "len", "ndp", "dgrams"} \subseteq DOMAIN t.cur
      /\ t.cur.dgrams = s.dgrams
  BY <1>4 DEF TxFields, IsBlock
<1> HIDE DEF t
<1>10. placed.dropped = t.dropped /\ placed.cur.dgrams = Append(s.dgrams, d)
  BY <1>9 DEF TxFields
<1>11. Append(s.dgrams, d) # <<>>
  <2>1. s.dgrams \in Seq(Range(s.dgrams))
    BY <1>4 DEF IsBlock
  <2>2. Len(Append(s.dgrams, d)) = Len(s.dgrams) + 1 /\ Len(s.dgrams) \in Nat
    BY <2>1, AppendGrows
  <2> HIDE DEF d, s
  <2>3. Len(Append(s.dgrams, d)) # 0
    BY <2>2
  <2> QED  BY <2>3
<1> HIDE DEF placed
<1>12. r.stop = st.stop /\ r.t.dropped = st.t.dropped /\ r.t.cur.dgrams # <<>>
  <2>1. r.t = placed /\ r.stop = st.stop
    BY <1>1, <1>5, <1>8
  <2> QED  BY <1>4, <1>9, <1>10, <1>11, <2>1
<1> QED  BY <1>12 DEF r, found, reserve

\* The loop for one frame drops none while there is room.
LEMMA AddFrameFits ==
  ASSUME NEW c, NEW st, NEW largest \in Nat, NEW f, Geometry(c), LoopGood(c, st),
         st.stop = "no", FrameSmall(largest, f), FrameSmall(largest, st.t.rem),
         Ample(c, largest, st.t.cur)
  PROVE  LET r == AddFrame(c, st, f)
         IN /\ FrameSmall(largest, r.t.rem)
            /\ Space(c, largest) <= st.t.cur.size =>
                 /\ r.t.dropped = st.t.dropped /\ Ample(c, largest, r.t.cur)
                 /\ st.t.cur.dgrams = <<>> => r.stop = "no"
<1> DEFINE r == AddFrame(c, st, f)
           p == Place(c, st, f, WithTable(c, st.t, f.len + c.tx_modulus + c.tx_remainder))
<1>1. Loop(st) /\ AddedHow(c, st, r, f)
  BY AddFrameEnds DEF LoopGood
<1>2. /\ {"t", "stop"} \subseteq DOMAIN st /\ st.t.cur.dgrams \in Seq(Range(st.t.cur.dgrams))
      /\ TxFields \subseteq DOMAIN st.t
  BY <1>1 DEF Loop, IsBlock
<1>3. FrameSmall(largest, r.t.rem)
  <2> HIDE DEF r
  <2> QED  BY <1>1 DEF AddedHow, PlacedIn, PlacedNowhere, PlacedLater
<1>4. ASSUME Space(c, largest) <= st.t.cur.size
      PROVE  /\ r.t.dropped = st.t.dropped /\ Ample(c, largest, r.t.cur)
             /\ st.t.cur.dgrams = <<>> => r.stop = "no"
  <2>1. CASE f = None
    BY <2>1 DEF AddFrame
  <2>2. CASE f # None /\ Len(st.t.cur.dgrams) >= c.tx_max_datagrams
    <3>1. r = [st EXCEPT !.t.rem = f]
      BY <2>2 DEF AddFrame
    <3>2. r.t.dropped = st.t.dropped /\ r.t.cur = st.t.cur /\ r.stop = st.stop
      BY <1>2, <3>1 DEF TxFields
    <3> QED  BY <3>2
  <2>3. CASE f # None /\ ~(Len(st.t.cur.dgrams) >= c.tx_max_datagrams)
    <3>1. r = p
      BY <2>3 DEF AddFrame
    <3>2. f.len \in 1 .. largest
      BY <2>3 DEF FrameSmall
    <3>3. CASE st.t.cur.dgrams = <<>>
      <4>1. p.stop = st.stop /\ p.t.dropped = st.t.dropped /\ p.t.cur.dgrams # <<>>
        BY <1>4, <3>2, <3>3, PlaceFits
      <4> HIDE DEF r, p
      <4> QED  BY <3>1, <4>1 DEF Ample
    <3>4. CASE st.t.cur.dgrams # <<>>
      <4> HIDE DEF r
      <4>1. PlacedIn(st, r, f) \/ PlacedLater(st, r, f)
        <5>1. Len(st.t.cur.dgrams) \in Nat
          BY <1>2
        <5> QED  BY <1>1, <2>3, <3>4 DEF AddedHow, PlacedNowhere
      <4>2. r.t.dropped = st.t.dropped
        BY <4>1 DEF PlacedIn, PlacedLater
      <4>3. r.t.cur.dgrams # <<>>
        <5>1. CASE PlacedLater(st, r, f)
          BY <5>1 DEF PlacedLater
        <5>2. CASE PlacedIn(st, r, f)
          <6>1. PICK d : r.t.cur.dgrams = Append(st.t.cur.dgrams, d)
            BY <5>2 DEF PlacedIn
          <6>2. Len(r.t.cur.dgrams) = Len(st.t.cur.dgrams) + 1 /\ Len(st.t.cur.dgrams) \in Nat
            BY <1>2, <6>1, AppendGrows
          <6>3. Len(r.t.cur.dgrams) # 0
            BY <6>2
          <6> QED  BY <6>3
        <5> QED  BY <4>1, <5>1, <5>2
      <4> QED  BY <3>4, <4>2, <4>3 DEF Ample
    <3> QED  BY <3>3, <3>4
  <2> QED  BY <2>1, <2>2, <2>3
<1> QED  BY <1>3, <1>4

\* What a call leaves: room, and no frame dropped but for want of memory or of a block
\* large enough.
CallFits(c, largest, t, r) ==
  /\ r.t.cur # None => Ample(c, largest, r.t.cur)
  /\ FrameSmall(largest, r.t.rem)
  /\ r.t.dropped # t.dropped =>
       r.t.starved \/ (IF t.cur = None THEN c.tx_max ELSE t.cur.size) < Space(c, largest)

\* The block that is allocated is small for want of memory only.
LEMMA AllocFits ==
  ASSUME NEW c, NEW largest, NEW t, NEW skb, NEW first, NEW second, TxFields \subseteq DOMAIN t,
         t.cur = None
  PROVE  LET u == AllocBlock(c, t, skb, first, second)
         IN /\ u.dropped = t.dropped /\ u.rem = t.rem
            /\ u.cur # None => /\ Ample(c, largest, u.cur)
                               /\ u.starved \/ u.cur.size = c.tx_max
<1> DEFINE u == AllocBlock(c, t, skb, first, second)
           small == IF skb = None THEN NtbMin ELSE Upper(skb.len, NtbMin)
           low == Rearmed(t)
<1>1. /\ TxFields \subseteq DOMAIN low
      /\ low.cur = None /\ low.rem = t.rem /\ low.dropped = t.dropped
  BY DEF Rearmed, TxFields
<1>2. \/ u = [t EXCEPT !.cur = NewBlock(c, c.tx_max)]
      \/ u = t
      \/ u = [low EXCEPT !.cur = NewBlock(c, small), !.lowVal = @ - 1, !.starved = TRUE]
      \/ u = low
  BY DEF AllocBlock
<1>3. \A size : NewBlock(c, size).size = size /\ Ample(c, largest, NewBlock(c, size))
  BY DEF NewBlock, Ample
<1> HIDE DEF u, low, small
<1>4. CASE u = t \/ u = low
  BY <1>1, <1>4 DEF u
<1>5. CASE u = [t EXCEPT !.cur = NewBlock(c, c.tx_max)]
  <2>1. u.dropped = t.dropped /\ u.rem = t.rem /\ u.cur = NewBlock(c, c.tx_max)
    BY <1>5 DEF TxFields
  <2> QED  BY <1>3, <2>1 DEF u
<1>6. CASE u = [low EXCEPT !.cur = NewBlock(c, small), !.lowVal = @ - 1, !.starved = TRUE]
  <2>1. /\ u.dropped = low.dropped /\ u.rem = low.rem /\ u.cur = NewBlock(c, small)
        /\ u.starved = TRUE
    BY <1>1, <1>6 DEF TxFields
  <2> QED  BY <1>1, <1>3, <2>1 DEF u
<1> QED  BY <1>2, <1>4, <1>5, <1>6

\* cdc_ncm_fill_tx_frame drops no frame that has room.
LEMMA FillFits ==
  ASSUME NEW c, NEW largest \in Nat, NEW t, NEW skb, NEW first, NEW second, Geometry(c),
         FillerGood(c, t), TxGood(c, t), FrameSmall(largest, skb), FrameSmall(largest, t.rem),
         t.cur # None => Ample(c, largest, t.cur)
  PROVE  CallFits(c, largest, t, FillTxFrame(c, t, skb, first, second))
<1> DEFINE head == IF skb = None THEN None ELSE t.rem
           u == IF t.cur = None THEN AllocBlock(c, t, head, first, second) ELSE t
           r == FillBlock(c, u, skb, head)
           size == IF t.cur = None THEN c.tx_max ELSE t.cur.size
<1>1. FillTxFrame(c, t, skb, first, second) = r
  BY DEF FillTxFrame
<1>2. FrameGood(t.rem) /\ FrameGood(head) /\ TxFields \subseteq DOMAIN t
  BY DEF FrameGood, FillerGood, Filler
<1>3. /\ FillerGood(c, u) /\ u.rem = t.rem /\ TxGood(c, u) /\ u.dropped = t.dropped
      /\ u.cur # None => Ample(c, largest, u.cur) /\ (u.starved \/ u.cur.size = size)
  <2>1. CASE t.cur = None
    <3>1. c.tx_max_datagrams \in Nat \ {0}
      BY DEF Geometry
    <3>2. u = AllocBlock(c, t, head, first, second) /\ size = c.tx_max
      BY <2>1
    <3> HIDE DEF head, u, size
    <3>3. FillerGood(c, u) /\ u.rem = t.rem
      BY <1>2, <2>1, <3>2, AllocGood
    <3>4. TxGood(c, u)
      BY <2>1, <3>1, <3>2, AllocKeeps
    <3>5. /\ u.dropped = t.dropped
          /\ u.cur # None => Ample(c, largest, u.cur) /\ (u.starved \/ u.cur.size = c.tx_max)
      BY <1>2, <2>1, <3>2, AllocFits
    <3> QED  BY <3>2, <3>3, <3>4, <3>5
  <2>2. CASE t.cur # None
    BY <2>2
  <2> QED  BY <2>1, <2>2
<1> HIDE DEF u
<1>4. TxFields \cup {"turned"} \subseteq DOMAIN u /\ Filler(c, u)
  BY <1>3 DEF FillerGood, Filler
<1>5. CASE u.cur = None
  <2> DEFINE v == [u EXCEPT !.rem = IF skb = None THEN @ ELSE skb, !.starved = TRUE,
                            !.dropped = IF head = None THEN @ ELSE @ \cup {head.id}]
  <2>1. r.t = v
    BY <1>5 DEF FillBlock
  <2>2. v.cur = None /\ v.starved = TRUE /\ v.rem = (IF skb = None THEN u.rem ELSE skb)
    BY <1>4, <1>5 DEF TxFields
  <2> HIDE DEF v, r, size
  <2>3. FrameSmall(largest, v.rem)
    BY <1>3, <2>2
  <2> QED  BY <1>1, <2>1, <2>2, <2>3 DEF CallFits
<1>6. CASE u.cur # None
  <2> DEFINE empty == [t |-> [u EXCEPT !.rem = None], stop |-> "no"]
             one == AddFrame(c, empty, u.rem)
             done == AddFrame(c, one, skb)
  <2>1. r = Decide(c, skb, done)
    BY <1>6 DEF FillBlock, Waiting
  <2>2. /\ TxFields \cup {"turned"} \subseteq DOMAIN empty.t /\ {"t", "stop"} \subseteq DOMAIN empty
        /\ empty.t.cur = u.cur /\ empty.t.rem = None /\ empty.stop = "no"
        /\ empty.t.turned = u.turned /\ empty.t.delayed = u.delayed
        /\ empty.t.dropped = u.dropped /\ empty.t.starved = u.starved
    BY <1>4 DEF TxFields
  <2>3. IsBlock(u.cur) /\ Len(u.cur.dgrams) < c.tx_max_datagrams /\ c.tx_max_datagrams \in Nat
        /\ (u.cur.dgrams # <<>> => u.rem = None)
    BY <1>3, <1>6 DEF TxGood, Geometry
  <2>4. BlockGood(c, u.cur, u.delayed) /\ Roomy(c, u.cur)
    BY <1>3, <1>6 DEF FillerGood
  <2> HIDE DEF empty, r
  <2>5. LoopGood(c, empty)
    <3>1. Loop(empty)
      BY <2>2, <2>3 DEF Loop
    <3>2. Filler(c, empty.t)
      BY <1>4, <2>2 DEF Filler, IndexGood
    <3>3. Len(u.cur.dgrams) <= c.tx_max_datagrams
      BY <2>3 DEF IsBlock
    <3> QED  BY <2>2, <2>4, <3>1, <3>2, <3>3 DEF LoopGood
  <2>6. LoopGood(c, one) /\ Loop(one) /\ Untouched(empty, one) /\ one.t.cur.size = u.cur.size
    BY <1>2, <1>3, <2>2, <2>5, AddFrameGood, AddFrameEnds, SizeStays DEF LoopGood
  <2>7. /\ FrameSmall(largest, one.t.rem)
        /\ Space(c, largest) <= u.cur.size =>
             one.t.dropped = u.dropped /\ Ample(c, largest, one.t.cur) /\ one.stop = "no"
    <3>1. FrameSmall(largest, None)
      BY DEF FrameSmall
    <3>2. /\ FrameSmall(largest, one.t.rem)
          /\ Space(c, largest) <= u.cur.size =>
               /\ one.t.dropped = u.dropped /\ Ample(c, largest, one.t.cur)
               /\ u.cur.dgrams = <<>> => one.stop = "no"
      <4> DEFINE f == u.rem
                 q == AddFrame(c, empty, f)
      <4>1. /\ FrameSmall(largest, f) /\ FrameSmall(largest, empty.t.rem)
            /\ Ample(c, largest, empty.t.cur)
        BY <1>3, <1>6, <2>2, <3>1
      <4>2. q = one
        OBVIOUS
      <4> HIDE DEF one, f
      <4>3. /\ FrameSmall(largest, q.t.rem)
            /\ Space(c, largest) <= empty.t.cur.size =>
                 /\ q.t.dropped = empty.t.dropped /\ Ample(c, largest, q.t.cur)
                 /\ empty.t.cur.dgrams = <<>> => q.stop = "no"
        BY <2>2, <2>5, <4>1, AddFrameFits
      <4> HIDE DEF q
      <4> QED  BY <2>2, <4>2, <4>3
    <3>3. u.rem = None => one = empty
      BY DEF AddFrame
    <3> QED  BY <2>2, <2>3, <3>2, <3>3
  <2> HIDE DEF one
  <2>8. Loop(done) /\ Untouched(one, done) /\ done.t.cur.size = u.cur.size
        /\ AddedHow(c, one, done, skb)
    BY <2>6, AddFrameEnds, SizeStays
  <2>9. Space(c, largest) <= u.cur.size =>
          done.t.dropped = u.dropped /\ Ample(c, largest, done.t.cur)
    BY <2>6, <2>7, AddFrameFits
  <2> HIDE DEF done
  <2>10. FrameSmall(largest, done.t.rem)
    BY <2>7, <2>8 DEF AddedHow, PlacedIn, PlacedNowhere, PlacedLater
  <2>11. Ample(c, largest, done.t.cur)
    BY <2>8, <2>9 DEF Ample
  <2>12. /\ r.t.cur # None => r.t.cur = done.t.cur
         /\ r.t.rem = done.t.rem /\ r.t.dropped = done.t.dropped /\ r.t.starved = done.t.starved
    <3>1. TxFields \subseteq DOMAIN done.t
      BY <2>8 DEF Loop
    <3> DEFINE gone == [done.t EXCEPT !.cur = None, !.delayed = IF c.toEnd THEN FALSE ELSE @]
    <3>2. r.t = done.t \/ r.t = gone
      BY <2>1 DEF Decide
    <3>3. /\ gone.cur = None /\ gone.rem = done.t.rem /\ gone.dropped = done.t.dropped
          /\ gone.starved = done.t.starved
      BY <3>1 DEF TxFields
    <3> HIDE DEF gone
    <3> QED  BY <3>2, <3>3
  <2>13. done.t.starved = u.starved
    BY <2>2, <2>6, <2>8 DEF Untouched
  <2>14. r.t.dropped # t.dropped => r.t.starved \/ size < Space(c, largest)
    <3>1. u.cur.size \in Nat /\ Space(c, largest) \in Nat
      <4>1. u.cur.size \in Nat /\ Nth(c) \in Nat
        BY <2>4, NthNat DEF BlockGood
      <4>2. Space(c, largest) \in Nat
        BY <4>1 DEF Space, Geometry, Upper
      <4> QED  BY <4>1, <4>2
    <3> HIDE DEF size
    <3> SUFFICES ASSUME r.t.dropped # t.dropped, ~r.t.starved
                 PROVE  size < Space(c, largest)
      OBVIOUS
    <3>2. ~(Space(c, largest) <= u.cur.size)
      BY <1>3, <2>9, <2>12
    <3>3. u.cur.size = size
      BY <1>3, <1>6, <2>12, <2>13
    <3> QED  BY <3>1, <3>2, <3>3
  <2> HIDE DEF size
  <2>15. CallFits(c, largest, t, r)
    BY <2>10, <2>11, <2>12, <2>14 DEF CallFits, size
  <2> QED  BY <1>1, <2>15
<1> QED  BY <1>5, <1>6

\* What is kept about the room: no frame is longer than the device's largest datagram,
\* whatever mtu is set (SetDgramSize and ChangeMtu).
SpareInv ==
  Bound =>
    /\ "mtu" \in DOMAIN ctx /\ ctx.mtu \in Int /\ ctx.mtu + EthHlen <= LargestDatagram
    /\ FrameSmall(LargestDatagram, tx.rem)
    /\ tx.cur # None => Ample(ctx, LargestDatagram, tx.cur)

\* The limits of a datagram.
LEMMA LargestNat ==
  ASSUME SizesInv, Bound
  PROVE  LargestDatagram \in Nat /\ device \in Devices /\ device.wMaxSegmentSize \in Nat
<1>1. device \in Devices
  BY DEF SizesInv, Bound
<1>2. device.wMaxSegmentSize \in Nat
  BY <1>1, NcmAssumption
<1> QED
  BY <1>1, <1>2 DEF LargestDatagram, Clamp, Upper, Lower, MinDatagram, MaxDatagram

\* The size of a datagram follows the limit it is set by, and the mtu follows it.
LEMMA DgramSizeFits ==
  ASSUME NEW c, NEW d \in Devices, NEW n \in Nat, "mtu" \in DOMAIN c, c.mtu \in Int,
         n <= d.wMaxSegmentSize
  PROVE  LET u == SetDgramSize(c, d, n)
         IN /\ "mtu" \in DOMAIN u /\ u.mtu \in Int
            /\ u.mtu + EthHlen <= Clamp(d.wMaxSegmentSize, MinDatagram, MaxDatagram)
<1> DEFINE size == Clamp(n, MinDatagram, MaxDatagram)
           most == Clamp(d.wMaxSegmentSize, MinDatagram, MaxDatagram)
           u == SetDgramSize(c, d, n)
<1>1. d.wMaxSegmentSize \in Nat
  BY NcmAssumption
<1>2. size \in Nat /\ most \in Nat /\ size <= most
  BY <1>1 DEF Clamp, Upper, Lower, MinDatagram, MaxDatagram
<1>3. "mtu" \in DOMAIN u /\ u.mtu = Lower(c.mtu, size - EthHlen)
  BY DEF SetDgramSize
<1> HIDE DEF size, most, u
<1>4. u.mtu \in Int /\ u.mtu + EthHlen <= most
  BY <1>2, <1>3 DEF Lower, EthHlen
<1> QED  BY <1>3, <1>4 DEF u, most

\* A call takes a frame in hand that fits its device.
LEMMA CallSpares ==
  ASSUME NEW skb, NEW first, NEW second, NEW r, r = FillTxFrame(ctx, tx, skb, first, second),
         SizesInv, FramesInv, BlocksInv, SpareInv, Bound, FrameSmall(LargestDatagram, skb)
  PROVE  CallFits(ctx, LargestDatagram, tx, r)
<1>1. LargestDatagram \in Nat /\ Geometry(ctx) /\ FillerGood(ctx, tx) /\ TxGood(ctx, tx)
  BY LargestNat DEF BlocksInv, FramesInv
<1>2. /\ FrameSmall(LargestDatagram, tx.rem)
      /\ tx.cur # None => Ample(ctx, LargestDatagram, tx.cur)
  BY DEF SpareInv
<1> QED  BY <1>1, <1>2, FillFits

\* The room depends on the shape only.
LEMMA ShapeSpares ==
  ASSUME NEW c, NEW u, SameShape(c, u), NEW largest
  PROVE  Space(u, largest) = Space(c, largest)
         /\ \A s : Ample(c, largest, s) => Ample(u, largest, s)
<1>1. Nth(u) = Nth(c) /\ Space(u, largest) = Space(c, largest)
  BY DEF SameShape, Nth, Space
<1> QED  BY <1>1 DEF Ample

\* A frame that the stack sends.
LEMMA FrameFits ==
  ASSUME SizesInv, Bound, SpareInv, NEW id, NEW len \in FrameLens, len <= ctx.mtu + EthHlen
  PROVE  FrameSmall(LargestDatagram, [id |-> id, len |-> len])
<1>1. len \in Nat \ {0} /\ LargestDatagram \in Nat /\ ctx.mtu \in Int
      /\ ctx.mtu + EthHlen <= LargestDatagram
  BY LargestNat, NcmAssumption DEF SpareInv
<1>2. len \in 1 .. LargestDatagram
  BY <1>1 DEF EthHlen
<1> QED  BY <1>2 DEF FrameSmall

\* The binding and the stores keep mtu below what the device takes.
LEMMA MtuStep ==
  ASSUME SizesInv, SpareInv, [Next]_vars, Bound'
  PROVE  "mtu" \in DOMAIN ctx' /\ ctx'.mtu \in Int /\ ctx'.mtu + EthHlen <= LargestDatagram'
<1> DEFINE Good(c, d) ==
      /\ "mtu" \in DOMAIN c /\ c.mtu \in Int
      /\ c.mtu + EthHlen <= Clamp(d.wMaxSegmentSize, MinDatagram, MaxDatagram)
<1>1. SUFFICES Good(ctx', device')
  BY DEF LargestDatagram
<1>2. Bound => Good(ctx, device)
  BY DEF SpareInv, LargestDatagram
<1>3. CASE Bind
  <2>1. PICK p \in BOOLEAN, f \in BOOLEAN, h \in BOOLEAN, e \in NdpToEnd :
             ctx' = Setup(InitCtx(device, p, f, e), device, h)
    BY <1>3 DEF Bind
  <2>2. device' = device /\ device \in Devices /\ device.wMaxSegmentSize \in Nat
    BY <1>3, NcmAssumption DEF Bind, SizesInv
  <2>3. PICK c : /\ ctx' = SetDgramSize(c, device, device.wMaxSegmentSize)
                 /\ "mtu" \in DOMAIN c /\ c.mtu = InitialMtu
    <3> DEFINE c0 == InitCtx(device, p, f, e)
               rx == Lower(NtbDefault, device.dwNtbInMaxSize)
               tx0 == Lower(NtbDefault, device.dwNtbOutMaxSize)
               c1 == UpdateMax(c0, device, rx, tx0, h)
               c2 == UpdateMinTxPkt(c1)
               c3 == FixModulus(c2)
    <3>1. "mtu" \in DOMAIN c0 /\ c0.mtu = InitialMtu
      BY DEF InitCtx
    <3>2. ctx' = SetDgramSize(c3, device, device.wMaxSegmentSize)
      BY <2>1 DEF Setup
    <3> HIDE DEF c0, rx, tx0
    <3>3. "mtu" \in DOMAIN c1 /\ c1.mtu = InitialMtu
      BY <3>1 DEF UpdateMax
    <3> HIDE DEF c1
    <3>4. "mtu" \in DOMAIN c2 /\ c2.mtu = InitialMtu
      BY <3>3 DEF UpdateMinTxPkt
    <3> HIDE DEF c2
    <3>5. "mtu" \in DOMAIN c3 /\ c3.mtu = InitialMtu
      BY <3>4 DEF FixModulus
    <3> HIDE DEF c3
    <3> QED  BY <3>2, <3>5
  <2>4. c.mtu \in Int
    BY <2>3, NcmAssumption
  <2> HIDE DEF Good
  <2>5. Good(SetDgramSize(c, device, device.wMaxSegmentSize), device)
    BY <2>2, <2>3, <2>4, DgramSizeFits DEF Good
  <2> QED  BY <2>2, <2>3, <2>5
<1>4. CASE ChangeMtu
  <2>1. PICK mtu \in Mtus :
               /\ mtu \in 0 .. (device.wMaxSegmentSize - EthHlen)
               /\ ctx' = SetDgramSize([ctx EXCEPT !.mtu = mtu], device, mtu + EthHlen)
    BY <1>4 DEF ChangeMtu
  <2>2. Bound /\ device' = device
    BY <1>4 DEF ChangeMtu, Storing, Bound
  <2>3. device \in Devices /\ device.wMaxSegmentSize \in Nat
    BY <2>2, LargestNat
  <2>4. mtu + EthHlen \in Nat /\ mtu + EthHlen <= device.wMaxSegmentSize /\ mtu \in Int
    BY <2>1, <2>3 DEF EthHlen
  <2> DEFINE c == [ctx EXCEPT !.mtu = mtu]
  <2>5. "mtu" \in DOMAIN c /\ c.mtu = mtu
    BY <1>2, <2>2
  <2> HIDE DEF c, Good
  <2>6. Good(SetDgramSize(c, device, mtu + EthHlen), device)
    BY <2>3, <2>4, <2>5, DgramSizeFits DEF Good
  <2> QED  BY <2>1, <2>2, <2>6 DEF c
<1>5. CASE Store /\ ~ChangeMtu
  <2>1. device' = device /\ Bound
    BY <1>5 DEF Store, RxMaxStore, TxMaxStore, UpdateRxTxMax, StoreEnds, MinTxPktStore,
                TimerStore, NdpToEndStore, Bound
  <2>2. ctx'.mtu = ctx.mtu /\ "mtu" \in DOMAIN ctx'
    <3>1. \/ \E rx, txMax, h : ctx' = UpdateMax(ctx, device, rx, txMax, h)
          \/ ctx' = UpdateMinTxPkt(ctx)
          \/ ctx' = [ctx EXCEPT !.min_tx_pkt = 0]
          \/ ctx' = [ctx EXCEPT !.timer = ~@]
          \/ \E enable : ctx' = [ctx EXCEPT !.toEnd = enable]
      BY <1>5 DEF Store, RxMaxStore, TxMaxStore, UpdateRxTxMax, Resized, StoreEnds,
                  MinTxPktStore, TimerStore, NdpToEndStore
    <3>2. "mtu" \in DOMAIN ctx
      BY <1>2, <2>1
    <3>3. CASE \E rx, txMax, h : ctx' = UpdateMax(ctx, device, rx, txMax, h)
      BY <3>2, <3>3 DEF UpdateMax
    <3>4. CASE ctx' = UpdateMinTxPkt(ctx)
      BY <3>2, <3>4 DEF UpdateMinTxPkt
    <3>5. CASE ctx' = [ctx EXCEPT !.min_tx_pkt = 0] \/ ctx' = [ctx EXCEPT !.timer = ~@]
      BY <3>2, <3>5
    <3>6. CASE \E enable : ctx' = [ctx EXCEPT !.toEnd = enable]
      BY <3>2, <3>6
    <3> QED  BY <3>1, <3>3, <3>4, <3>5, <3>6
  <2> QED  BY <1>2, <2>1, <2>2
<1>6. CASE ~Bind /\ ~Store
  <2>1. UNCHANGED <<ctx, device>> /\ Bound
    BY <1>6 DEF Next, vars, BindClaims, BindFails, Open, UnbindStop, HrtimerCancel, TaskletKill,
                UnbindFree, Xmit, TimerFires, Bh, BhRuns, BhStartsTimer, BhFlushes, Receive,
                Status, Bound
  <2> QED  BY <1>2, <2>1
<1> QED  BY <1>3, <1>4, <1>5, <1>6

\* What may happen to a frame in a step.
DropsExcused ==
  tx'.dropped # tx.dropped /\ Bound' => tx'.starved \/ BlockSize < Needed(ctx)

\* Every step keeps the room, and drops no frame that has it.
LEMMA SpareStep ==
  ASSUME SizesInv, SizesInv', QuietInv, FramesInv, BlocksInv, SpareInv, [Next]_vars
  PROVE  SpareInv' /\ DropsExcused
<1> DEFINE L == LargestDatagram
<1>1. ASSUME ~Bound'
      PROVE  SpareInv' /\ DropsExcused
  BY <1>1 DEF SpareInv, DropsExcused
<1>2. Bound' => "mtu" \in DOMAIN ctx' /\ ctx'.mtu \in Int /\ ctx'.mtu + EthHlen <= LargestDatagram'
  BY MtuStep
<1>3. ASSUME Bound, Bound', UNCHANGED device, SameShape(ctx, ctx'),
             tx'.cur # None => Ample(ctx, L, tx'.cur), FrameSmall(L, tx'.rem),
             tx'.dropped # tx.dropped => tx'.starved \/ BlockSize < Space(ctx, L)
      PROVE  SpareInv' /\ DropsExcused
  <2>1. LargestDatagram' = L
    BY <1>3 DEF LargestDatagram
  <2>2. Needed(ctx) = Space(ctx, L)
    BY DEF Needed, Space
  <2>3. tx'.cur # None => Ample(ctx', L, tx'.cur)
    <3> HIDE DEF L
    <3> QED  BY <1>3, ShapeSpares
  <2> HIDE DEF L
  <2> QED  BY <1>2, <1>3, <2>1, <2>2, <2>3 DEF SpareInv, DropsExcused
<1>4. ASSUME Bound, Bound', UNCHANGED <<device, tx>>, SameShape(ctx, ctx')
      PROVE  SpareInv' /\ DropsExcused
  BY <1>3, <1>4 DEF SpareInv
<1>5. ASSUME NEW r, Bound, Bound', UNCHANGED device, SameShape(ctx, ctx'),
             CallFits(ctx, L, tx, r),
             tx'.cur = r.t.cur \/ tx'.cur = None, tx'.rem = r.t.rem,
             tx'.dropped = r.t.dropped, tx'.starved = r.t.starved
      PROVE  SpareInv' /\ DropsExcused
  <2>1. BlockSize = IF tx.cur = None THEN ctx.tx_max ELSE tx.cur.size
    BY DEF BlockSize
  <2> HIDE DEF L
  <2>2. /\ tx'.cur # None => Ample(ctx, L, tx'.cur)
        /\ FrameSmall(L, tx'.rem)
        /\ tx'.dropped # tx.dropped => tx'.starved \/ BlockSize < Space(ctx, L)
    BY <1>5, <2>1 DEF CallFits
  <2> QED  BY <1>3, <1>5, <2>2 DEF L
<1> HIDE DEF L
<1>6. SameShape(ctx, ctx) /\ FrameSmall(L, None)
  BY DEF SameShape, FrameSmall
<1>7. Bound => TxGood(ctx, tx) /\ FillerGood(ctx, tx)
  BY DEF FramesInv, BlocksInv
<1>8. CASE UNCHANGED vars
  BY <1>1, <1>4, <1>6, <1>8 DEF vars, Bound
<1>9. CASE BindClaims \/ BindFails \/ UnbindFree
  BY <1>1, <1>9 DEF BindClaims, BindFails, UnbindFree, Bound
<1>10. CASE Bind
  <2>1. tx' = NewTx /\ tx = NewTx
    BY <1>10 DEF Bind, FramesInv, Bound
  <2>2. tx'.rem = None /\ tx'.cur = None
    BY <2>1, NewTxGood
  <2> QED  BY <1>2, <2>1, <2>2 DEF SpareInv, DropsExcused, FrameSmall
<1>11. CASE Open \/ UnbindStop \/ HrtimerCancel \/ TaskletKill \/ TimerFires \/ BhRuns
            \/ BhStartsTimer \/ Receive \/ Status
  <2>1. UNCHANGED <<tx, device, ctx>> /\ (Bound' => Bound)
    BY <1>11 DEF Open, UnbindStop, HrtimerCancel, TaskletKill, TimerFires, BhRuns, BhStartsTimer,
                 Receive, Status, Bound
  <2> QED  BY <1>1, <1>4, <1>6, <2>1
<1>12. CASE Xmit
  <2>1. PICK len \in FrameLens :
          /\ len <= ctx.mtu + EthHlen
          /\ \E first, second \in Memory :
               Filled(FillTxFrame(ctx, tx, [id |-> issued + 1, len |-> len], first, second))
    BY <1>12 DEF Xmit, Fill
  <2>2. PICK first \in Memory, second \in Memory :
          Filled(FillTxFrame(ctx, tx, [id |-> issued + 1, len |-> len], first, second))
    BY <2>1
  <2> DEFINE skb == [id |-> issued + 1, len |-> len]
             r == FillTxFrame(ctx, tx, skb, first, second)
  <2>3. Bound /\ Bound' /\ ctx' = ctx /\ device' = device
    BY <1>12 DEF Xmit, Bound
  <2>4. FrameSmall(L, skb)
    BY <2>1, <2>3, FrameFits DEF L
  <2>5. tx' = r.t
    BY <2>2 DEF Filled
  <2> HIDE DEF skb
  <2>6. CallFits(ctx, L, tx, r)
    BY <2>3, <2>4, CallSpares DEF L
  <2> HIDE DEF r
  <2> QED  BY <1>5, <1>6, <2>3, <2>5, <2>6
<1>13. CASE BhFlushes
  <2>1. PICK first \in Memory, second \in Memory :
          Filled(FillTxFrame(ctx, tx, None, first, second))
    BY <1>13 DEF BhFlushes, Fill
  <2> DEFINE r == FillTxFrame(ctx, tx, None, first, second)
  <2>2. Bound /\ Bound' /\ ctx' = ctx /\ device' = device
    BY <1>13, FlusherBound DEF BhFlushes, Bound
  <2>3. tx' = r.t
    BY <2>1 DEF Filled
  <2>4. CallFits(ctx, L, tx, r)
    BY <1>6, <2>2, CallSpares DEF L
  <2> HIDE DEF r
  <2> QED  BY <1>5, <1>6, <2>2, <2>3, <2>4
<1>14. CASE Store
  <2>1. UNCHANGED <<phase, device>> /\ (Bound' <=> Bound)
    BY <1>14 DEF Store, RxMaxStore, TxMaxStore, UpdateRxTxMax, Resized, StoreEnds, MinTxPktStore,
                 TimerStore, NdpToEndStore, ChangeMtu, Bound
  <2>2. Bound => SameShape(ctx, ctx')
    BY <1>14, <2>1, StoresKeepShape DEF BlocksInv
  <2>3. CASE UNCHANGED tx
    BY <1>1, <1>4, <2>1, <2>2, <2>3
  <2>4. CASE NdpToEndStore
    <3>1. PICK enable \in BOOLEAN, first \in Memory, second \in Memory :
            LET r == FillTxFrame(ctx, tx, None, first, second)
            IN tx' = [r.t EXCEPT !.turned = @ \/ (enable # ctx.toEnd /\ Indexed(r.t.cur))]
      BY <2>4 DEF NdpToEndStore
    <3> DEFINE r == FillTxFrame(ctx, tx, None, first, second)
    <3>2. Bound
      BY <2>4 DEF NdpToEndStore, Storing, Bound
    <3>3. CallFits(ctx, L, tx, r)
      BY <1>6, <3>2, CallSpares DEF L
    <3>4. TxFields \subseteq DOMAIN r.t
      <4>1. Geometry(ctx) /\ FrameGood(None)
        BY <3>2 DEF BlocksInv, FrameGood
      <4>2. CallGood(ctx, tx, r)
        BY <1>7, <3>2, <4>1, FillGood
      <4> QED  BY <4>2 DEF CallGood, FillerGood, Filler
    <3>5. \E b : tx' = [r.t EXCEPT !.turned = b]
      BY <3>1
    <3> HIDE DEF r
    <3>6. /\ tx'.cur = r.t.cur /\ tx'.rem = r.t.rem
          /\ tx'.dropped = r.t.dropped /\ tx'.starved = r.t.starved
      BY <3>4, <3>5 DEF TxFields
    <3> QED  BY <1>5, <2>1, <2>2, <3>2, <3>3, <3>6
  <2>5. CASE \E first, second \in Memory : Flushed(FillTxFrame(ctx, tx, None, first, second))
    <3>1. CASE ~Bound
      BY <1>1, <2>1, <3>1
    <3>2. CASE Bound
      <4>1. PICK first \in Memory, second \in Memory :
              Flushed(FillTxFrame(ctx, tx, None, first, second))
        BY <2>5
      <4> DEFINE r == FillTxFrame(ctx, tx, None, first, second)
      <4>2. tx' = [r.t EXCEPT !.cur = None]
        BY <4>1 DEF Flushed
      <4>3. CallFits(ctx, L, tx, r)
        BY <1>6, <3>2, CallSpares DEF L
      <4>4. TxFields \subseteq DOMAIN r.t
        <5>1. Geometry(ctx) /\ FrameGood(None)
          BY <3>2 DEF BlocksInv, FrameGood
        <5>2. CallGood(ctx, tx, r)
          BY <1>7, <3>2, <5>1, FillGood
        <5> QED  BY <5>2 DEF CallGood, FillerGood, Filler
      <4> HIDE DEF r
      <4>5. /\ tx'.cur = None /\ tx'.rem = r.t.rem
            /\ tx'.dropped = r.t.dropped /\ tx'.starved = r.t.starved
        BY <4>2, <4>4 DEF TxFields
      <4> QED  BY <1>5, <2>1, <2>2, <3>2, <4>3, <4>5
    <3> QED  BY <3>1, <3>2
  <2> QED
    BY <1>14, <2>3, <2>4, <2>5 DEF Store, RxMaxStore, TxMaxStore, UpdateRxTxMax, Resized, StoreEnds,
       MinTxPktStore, TimerStore, ChangeMtu
<1> QED
  BY <1>8, <1>9, <1>10, <1>11, <1>12, <1>13, <1>14 DEF Next, Bh

\* While there is memory no frame is dropped that a block of the size in force takes with
\* every alignment, whatever was collected before it (1318-1334, 1362-1366).
THEOREM NoNeedlessDrop == Spec => NothingDropped
<1> DEFINE I == SizesInv /\ QuietInv /\ FramesInv /\ BlocksInv /\ SpareInv
<1>1. Init => I
  <2>1. Init => BlocksInv /\ SpareInv
    BY DEF Init, BlocksInv, SpareInv, Bound
  <2> QED  BY <2>1, FramesInit
<1>2. I /\ [Next]_vars => I'
  BY SizesStep, QuietStep, FramesStep, BlocksStep, SpareStep
<1>3. I /\ [Next]_vars => [tx'.dropped # tx.dropped /\ Bound' => tx'.starved \/ BlockSize < Needed(ctx)]_vars
  BY SizesStep, SpareStep DEF DropsExcused
<1> QED
  BY <1>1, <1>2, <1>3, PTL DEF Spec, NothingDropped

-----------------------------------------------------------------------------
(* Induction over the natural numbers, on a set: < is well-founded on them   *)

\* A set of natural numbers has a least one.
LEMMA Least ==
  ASSUME NEW T, T \subseteq Nat, T # {}
  PROVE  \E x \in T : \A y \in T : x <= y
<1>1. IsWellFoundedOn(OpToRel(<, Nat), Nat)
  BY NatLessThanWellFounded
<1>2. PICK x \in T : \A y \in T : ~ (<<y, x>> \in OpToRel(<, Nat))
  BY <1>1, WFMin, Zenon
<1>3. \A y \in T : ~(y < x)
  BY <1>2 DEF OpToRel
<1>4. \A y \in T : x <= y
  BY <1>3
<1> QED  BY <1>4

\* Induction.
LEMMA Induct ==
  ASSUME NEW S, 0 \in S, \A n \in Nat : n \in S => n + 1 \in S
  PROVE  Nat \subseteq S
<1> SUFFICES ASSUME Nat \ S # {}
             PROVE  FALSE
  OBVIOUS
<1>1. PICK x \in Nat \ S : \A y \in Nat \ S : x <= y
  BY Least
<1>2. x # 0 /\ x - 1 \in Nat /\ x - 1 \in S
  BY <1>1
<1> QED  BY <1>1, <1>2

-----------------------------------------------------------------------------
(* The loop over the tables is what its turns are                            *)

\* f is the first n turns of the loop.
RxTurns(c, b, mem, n, f) ==
  f = [k \in 0 .. n |-> IF k = 0 THEN RxBegin(b, mem) ELSE RxTurn(c, b, f[k - 1])]

\* The turns exist, however many there are.
LEMMA TurnsExist ==
  ASSUME NEW c, NEW b, NEW mem, NEW last \in Nat
  PROVE  \E f : RxTurns(c, b, mem, last, f)
<1> DEFINE S == {n \in Nat : \E f : RxTurns(c, b, mem, n, f)}
<1>1. 0 \in S
  <2>1. RxTurns(c, b, mem, 0, [k \in 0 .. 0 |-> RxBegin(b, mem)])
    BY DEF RxTurns
  <2> QED  BY <2>1
<1>2. ASSUME NEW n \in Nat, n \in S
      PROVE  n + 1 \in S
  <2>1. PICK f : RxTurns(c, b, mem, n, f)
    BY <1>2
  <2> DEFINE g == [k \in 0 .. n + 1 |-> IF k <= n THEN f[k] ELSE RxTurn(c, b, f[n])]
  <2>2. ASSUME NEW k \in 0 .. n + 1
        PROVE  g[k] = IF k = 0 THEN RxBegin(b, mem) ELSE RxTurn(c, b, g[k - 1])
    <3>1. CASE k = n + 1
      BY <3>1
    <3>2. CASE k # n + 1
      BY <2>1, <3>2 DEF RxTurns
    <3> QED  BY <3>1, <3>2
  <2>3. g = [k \in 0 .. n + 1 |-> g[k]]
    OBVIOUS
  <2> HIDE DEF g
  <2>4. RxTurns(c, b, mem, n + 1, g)
    BY <2>2, <2>3 DEF RxTurns
  <2> QED  BY <2>4
<1>3. Nat \subseteq S
  <2> HIDE DEF S
  <2> QED  BY <1>1, <1>2, Induct
<1> QED  BY <1>3

\* Turn by turn.
RxRun(c, b, mem, f) ==
  /\ f[0] = RxBegin(b, mem)
  /\ \A k \in 0 .. LoopMax : f[k + 1] = RxTurn(c, b, f[k])

\* What the loop gives is what its last turn leaves.
LEMMA RxTablesRuns ==
  ASSUME NEW c, NEW b, NEW mem
  PROVE  \E f : /\ RxRun(c, b, mem, f)
                /\ RxTables(c, b, mem) =
                     [ok |-> f[LoopMax + 1].end # "error", up |-> f[LoopMax + 1].up]
<1> DEFINE turn == CHOOSE f : RxTurns(c, b, mem, LoopMax + 1, f)
<1>1. LoopMax \in Nat /\ LoopMax + 1 \in Nat
  BY NcmAssumption
<1>2. \E f : RxTurns(c, b, mem, LoopMax + 1, f)
  BY <1>1, TurnsExist
<1>3. RxTurns(c, b, mem, LoopMax + 1, turn)
  BY <1>2
<1>4. RxTables(c, b, mem) = [ok |-> turn[LoopMax + 1].end # "error", up |-> turn[LoopMax + 1].up]
  BY DEF RxTables, RxTurns
<1> HIDE DEF turn
<1>5. \A k \in 0 .. LoopMax + 1 :
         turn[k] = IF k = 0 THEN RxBegin(b, mem) ELSE RxTurn(c, b, turn[k - 1])
  BY <1>3 DEF RxTurns
<1>6. ASSUME NEW k \in 0 .. LoopMax
      PROVE  turn[k + 1] = RxTurn(c, b, turn[k])
  <2>1. k + 1 \in 0 .. LoopMax + 1 /\ k + 1 # 0 /\ k + 1 - 1 = k
    BY <1>1
  <2> QED  BY <1>5, <2>1
<1>7. 0 \in 0 .. LoopMax + 1
  BY <1>1
<1>8. RxRun(c, b, mem, turn)
  BY <1>5, <1>6, <1>7 DEF RxRun
<1> QED  BY <1>4, <1>8

-----------------------------------------------------------------------------
(* What one table gives *)

\* Entries as a device may write them: unsigned, inside the block or not.
Listed(b, E) ==
  /\ b.len \in Nat /\ b.block \in Nat /\ DOMAIN b.tables \subseteq Nat
  /\ \A e \in E : e.off \in Nat /\ e.len \in Nat
  /\ \A o \in DOMAIN b.tables :
       b.tables[o].entries \in Seq(E) /\ b.tables[o].wLength \in Nat

\* An entry that announces a frame in the block that the driver takes.
FrameIn(c, b, e) == e.off > 0 /\ Ends(e) <= b.len /\ e.len \in EthHlen .. c.rx_max

\* The tests of an entry refuse the others and no more, without a wrap.
LEMMA RefusedMeans ==
  ASSUME NEW c, c.rx_max \in Int, NEW b, b.len \in Nat, NEW e, e.off \in Nat, e.len \in Nat
  PROVE  Refused(c, b, e) <=> ~FrameIn(c, b, e)
  BY DEF Refused, FrameIn, Ends, EthHlen

\* A table that is verified is one of the block's.
LEMMA VerifiedListed ==
  ASSUME NEW c, NEW b, NEW E, Listed(b, E), NEW o
  PROVE  /\ VerifyNdp(c, b, o) \in Int
         /\ VerifyNdp(c, b, o) >= 0 => o \in DOMAIN b.tables
<1> DEFINE w == TableAt(b, o).wLength
           ret == (w - Ndp(c)) \div Dpe(c) - 1
           p == o + Ndp(c) > b.len
           q == Ndp(c) + ret * Dpe(c) > b.len
<1>1. VerifyNdp(c, b, o) = IF p \/ w < 4 * Dpe(c) THEN -1 ELSE IF q THEN -1 ELSE ret
  BY DEF VerifyNdp
<1>2. w \in Nat /\ (o \notin DOMAIN b.tables => w = 0)
  BY DEF Listed, TableAt
<1>3. Ndp(c) \in Nat /\ Dpe(c) \in Nat \ {0}
  BY DEF Ndp, Dpe
<1> HIDE DEF w, p, q
<1>4. ret \in Int
  BY <1>2, <1>3
<1>5. o \notin DOMAIN b.tables => w < 4 * Dpe(c)
  BY <1>2, <1>3
<1> HIDE DEF ret
<1> QED  BY <1>1, <1>4, <1>5

\* The entries before the first bad one.
LEMMA AcceptedFrames ==
  ASSUME NEW c, c.rx_max \in Int, NEW b, NEW E, Listed(b, E), NEW t, t.entries \in Seq(E),
         NEW n \in Nat
  PROVE  LET got == Accepted(c, b, t, n)
         IN /\ got \in Seq(E)
            /\ \A i \in DOMAIN got : FrameIn(c, b, got[i])
            /\ /\ t.sign /\ n = Len(t.entries)
               /\ \A i \in DOMAIN t.entries : FrameIn(c, b, t.entries[i])
               => got = t.entries
<1> DEFINE m == Lower(n, Len(t.entries))
           bad == {i \in 1 .. m : Refused(c, b, t.entries[i])}
           end == IF bad = {} THEN m ELSE Min(bad) - 1
           got == Accepted(c, b, t, n)
<1>1. /\ m \in Nat /\ m <= Len(t.entries) /\ DOMAIN t.entries = 1 .. Len(t.entries)
      /\ Len(t.entries) \in Nat /\ n = Len(t.entries) => m = Len(t.entries)
  BY DEF Lower
<1>2. ASSUME NEW i \in 1 .. m
      PROVE  /\ t.entries[i] \in E
             /\ Refused(c, b, t.entries[i]) <=> ~FrameIn(c, b, t.entries[i])
  <2>1. t.entries[i] \in E
    BY <1>1
  <2>2. t.entries[i].off \in Nat /\ t.entries[i].len \in Nat /\ b.len \in Nat
    BY <2>1 DEF Listed
  <2> QED  BY <2>1, <2>2, RefusedMeans
<1>3. got = IF t.sign THEN SubSeq(t.entries, 1, end) ELSE <<>>
  BY DEF Accepted
<1> HIDE DEF m, got
<1>4. /\ end \in 0 .. m
      /\ \A i \in 1 .. end : i \in 1 .. m /\ ~Refused(c, b, t.entries[i])
      /\ bad = {} => end = m
  <2>1. CASE bad = {}
    BY <1>1, <2>1
  <2>2. CASE bad # {}
    <3>1. bad \subseteq Nat
      BY <1>1
    <3>2. \E x \in bad : \A y \in bad : x <= y
      BY <2>2, <3>1, Least
    <3>3. Min(bad) \in bad /\ \A y \in bad : Min(bad) <= y
      BY <3>2 DEF Min
    <3> HIDE DEF bad
    <3>4. end = Min(bad) - 1
      BY <2>2
    <3>5. Min(bad) \in 1 .. m
      BY <3>3 DEF bad
    <3>6. ASSUME NEW i \in 1 .. end
          PROVE  i \in 1 .. m /\ i \notin bad
      BY <1>1, <3>3, <3>4, <3>5
    <3>7. \A i \in 1 .. m : i \notin bad => ~Refused(c, b, t.entries[i])
      BY DEF bad
    <3> QED  BY <1>1, <2>2, <3>4, <3>5, <3>6, <3>7
  <2> QED  BY <2>1, <2>2
<1> HIDE DEF end
<1>5. /\ SubSeq(t.entries, 1, end) \in Seq(E) /\ Len(SubSeq(t.entries, 1, end)) = end
      /\ \A i \in 1 .. end : SubSeq(t.entries, 1, end)[i] = t.entries[i]
  <2>1. end \in Int /\ \A i \in 1 .. end : t.entries[i] \in E
    BY <1>1, <1>2, <1>4
  <2> QED  BY <1>1, <1>4, <2>1, SubSeqProperties
<1>6. got \in Seq(E) /\ \A i \in DOMAIN got : FrameIn(c, b, got[i])
  <2>1. CASE t.sign
    <3>1. got = SubSeq(t.entries, 1, end) /\ DOMAIN got = 1 .. end
      BY <1>3, <1>5, <2>1
    <3> QED  BY <1>2, <1>4, <1>5, <3>1
  <2>2. CASE ~t.sign
    <3>1. got = <<>>
      BY <1>3, <2>2
    <3> QED  BY <3>1
  <2> QED  BY <2>1, <2>2
<1>7. ASSUME t.sign, n = Len(t.entries),
             \A i \in DOMAIN t.entries : FrameIn(c, b, t.entries[i])
      PROVE  got = t.entries
  <2>1. bad = {}
    BY <1>1, <1>2, <1>7
  <2>2. end = Len(t.entries)
    BY <1>1, <1>4, <1>7, <2>1
  <2> QED  BY <1>3, <1>7, <2>2, SubSeqFull
<1> QED  BY <1>6, <1>7 DEF got

-----------------------------------------------------------------------------
(* Whatever the block is *)

\* After any number of turns: what came up are frames of the block, no more than
\* have found memory.
RxGood(c, b, E, mem, s) ==
  /\ s.up \in Seq(E) /\ s.room \in Nat
  /\ \A i \in DOMAIN s.up : FrameIn(c, b, s.up[i])
  /\ Len(s.up) <= mem /\ (s.end = "no" => Len(s.up) + s.room = mem)

\* A turn keeps that.
LEMMA RxTurnGood ==
  ASSUME NEW c, c.rx_max \in Int, NEW b, NEW E, Listed(b, E), NEW mem \in Nat,
         NEW s, RxGood(c, b, E, mem, s)
  PROVE  RxGood(c, b, E, mem, RxTurn(c, b, s))
<1> DEFINE t == TableAt(b, s.at)
           n == VerifyNdp(c, b, s.at)
           got == Accepted(c, b, t, n)
           some == SubSeq(got, 1, s.room)
           r == RxTurn(c, b, s)
<1> SUFFICES RxGood(c, b, E, mem, r)
  OBVIOUS
<1>1. r = IF s.end # "no" THEN s
          ELSE IF n < 0 THEN [s EXCEPT !.end = "error"]
          ELSE IF Len(got) > s.room
          THEN [s EXCEPT !.end = "error", !.up = @ \o some]
          ELSE [at |-> t.next, room |-> s.room - Len(got), up |-> s.up \o got,
                end |-> IF t.next = 0 THEN "last" ELSE "no"]
  BY DEF RxTurn
<1>2. /\ s.up \in Seq(E) /\ s.room \in Nat /\ Len(s.up) \in Nat
      /\ \A i \in DOMAIN s.up : FrameIn(c, b, s.up[i])
      /\ Len(s.up) <= mem /\ (s.end = "no" => Len(s.up) + s.room = mem)
  BY DEF RxGood
<1>3. n \in Int /\ (n >= 0 => t.entries \in Seq(E))
  <2>1. n \in Int /\ (n >= 0 => s.at \in DOMAIN b.tables)
    BY VerifiedListed
  <2> QED  BY <2>1 DEF Listed, TableAt
<1> HIDE DEF t, n, r
<1>4. n >= 0 => got \in Seq(E) /\ \A i \in DOMAIN got : FrameIn(c, b, got[i])
  BY <1>3, AcceptedFrames
<1> HIDE DEF got
<1>5. ASSUME NEW x \in Seq(E), \A i \in DOMAIN x : FrameIn(c, b, x[i])
      PROVE  /\ s.up \o x \in Seq(E) /\ Len(s.up \o x) = Len(s.up) + Len(x)
             /\ \A i \in DOMAIN (s.up \o x) : FrameIn(c, b, (s.up \o x)[i])
  <2> DEFINE y == s.up \o x
  <2>1. /\ y \in Seq(E) /\ Len(y) = Len(s.up) + Len(x) /\ Len(x) \in Nat
        /\ DOMAIN y = 1 .. Len(y) /\ DOMAIN x = 1 .. Len(x) /\ DOMAIN s.up = 1 .. Len(s.up)
        /\ \A i \in 1 .. Len(s.up) + Len(x) :
             y[i] = IF i <= Len(s.up) THEN s.up[i] ELSE x[i - Len(s.up)]
    BY <1>2, ConcatProperties
  <2> HIDE DEF y
  <2>2. ASSUME NEW i \in DOMAIN y
        PROVE  FrameIn(c, b, y[i])
    <3>1. CASE i <= Len(s.up)
      BY <1>2, <2>1, <3>1
    <3>2. CASE ~(i <= Len(s.up))
      <4>1. y[i] = x[i - Len(s.up)] /\ i - Len(s.up) \in DOMAIN x
        BY <1>2, <2>1, <3>2
      <4> QED  BY <1>5, <4>1
    <3> QED  BY <3>1, <3>2
  <2> QED  BY <2>1, <2>2 DEF y
<1>6. CASE s.end # "no"
  BY <1>1, <1>6
<1>7. CASE s.end = "no" /\ n < 0
  <2>1. r.up = s.up /\ r.room = s.room /\ r.end # "no"
    BY <1>1, <1>2, <1>7
  <2> QED  BY <1>2, <2>1 DEF RxGood
<1>8. CASE s.end = "no" /\ ~(n < 0) /\ Len(got) > s.room
  <2>1. got \in Seq(E) /\ \A i \in DOMAIN got : FrameIn(c, b, got[i])
    BY <1>3, <1>4, <1>8
  <2>2. /\ some \in Seq(E) /\ Len(some) = s.room
        /\ \A i \in DOMAIN some : FrameIn(c, b, some[i])
    <3>1. /\ Len(got) \in Nat /\ DOMAIN got = 1 .. Len(got) /\ s.room \in Int
          /\ \A i \in 1 .. s.room : got[i] \in E /\ i \in DOMAIN got
      BY <1>2, <1>8, <2>1
    <3>2. /\ some \in Seq(E) /\ Len(some) = s.room
          /\ \A i \in 1 .. s.room : some[i] = got[i]
      BY <1>2, <3>1, SubSeqProperties
    <3> QED  BY <2>1, <3>1, <3>2
  <2> HIDE DEF some
  <2>3. r = [s EXCEPT !.end = "error", !.up = @ \o some]
    BY <1>1, <1>8
  <2>4. r.up = s.up \o some /\ r.room = s.room /\ r.end # "no"
    BY <1>2, <1>8, <2>3
  <2> QED  BY <1>2, <1>5, <1>8, <2>2, <2>4 DEF RxGood
<1>9. CASE s.end = "no" /\ ~(n < 0) /\ ~(Len(got) > s.room)
  <2>1. got \in Seq(E) /\ \A i \in DOMAIN got : FrameIn(c, b, got[i])
    BY <1>3, <1>4, <1>9
  <2>2. r.up = s.up \o got /\ r.room = s.room - Len(got)
    BY <1>1, <1>9
  <2>3. Len(got) \in Nat
    BY <2>1
  <2> QED  BY <1>2, <1>5, <1>9, <2>1, <2>2, <2>3 DEF RxGood
<1> QED  BY <1>6, <1>7, <1>8, <1>9

\* cdc_ncm_rx_fixup: the same of what comes up in the end.
LEMMA RxFixupGood ==
  ASSUME NEW c, c.rx_max \in Int, NEW b, NEW E, Listed(b, E), NEW mem \in Nat
  PROVE  LET r == RxFixup(c, b, mem)
         IN /\ r.up \in Seq(E) /\ Len(r.up) <= mem
            /\ \A i \in DOMAIN r.up : FrameIn(c, b, r.up[i])
<1>1. PICK f : /\ RxRun(c, b, mem, f)
               /\ RxTables(c, b, mem) =
                    [ok |-> f[LoopMax + 1].end # "error", up |-> f[LoopMax + 1].up]
  BY RxTablesRuns
<1> DEFINE S == {k \in Nat : k <= LoopMax + 1 => RxGood(c, b, E, mem, f[k])}
<1>2. LoopMax \in Nat /\ LoopMax + 1 \in Nat
  BY NcmAssumption
<1>3. 0 \in S
  <2>1. f[0] = [at |-> b.ndp, room |-> mem, up |-> <<>>, end |-> "no"]
    BY <1>1 DEF RxRun, RxBegin
  <2>2. /\ f[0].up = <<>> /\ f[0].room = mem /\ Len(f[0].up) = 0
        /\ <<>> \in Seq(E) /\ DOMAIN f[0].up = {}
    BY <2>1
  <2>3. RxGood(c, b, E, mem, f[0])
    BY <2>2 DEF RxGood
  <2> QED  BY <2>3
<1>4. ASSUME NEW k \in Nat, k \in S
      PROVE  k + 1 \in S
  <2> SUFFICES ASSUME k + 1 <= LoopMax + 1
               PROVE  RxGood(c, b, E, mem, f[k + 1])
    OBVIOUS
  <2>1. RxGood(c, b, E, mem, f[k]) /\ f[k + 1] = RxTurn(c, b, f[k])
    BY <1>1, <1>2, <1>4 DEF RxRun
  <2> QED  BY <2>1, RxTurnGood
<1>5. RxGood(c, b, E, mem, f[LoopMax + 1])
  <2>1. Nat \subseteq S
    <3> HIDE DEF S
    <3> QED  BY <1>3, <1>4, Induct
  <2> QED  BY <1>2, <2>1
<1>6. \/ RxFixup(c, b, mem) = [ok |-> FALSE, up |-> <<>>]
      \/ RxFixup(c, b, mem) = RxTables(c, b, mem)
  BY DEF RxFixup
<1>7. CASE RxFixup(c, b, mem) = [ok |-> FALSE, up |-> <<>>]
  <2>1. RxFixup(c, b, mem).up = <<>>
    BY <1>7
  <2> QED  BY <2>1
<1>8. CASE RxFixup(c, b, mem) = RxTables(c, b, mem)
  <2>1. RxFixup(c, b, mem).up = f[LoopMax + 1].up
    BY <1>1, <1>8
  <2> QED  BY <1>5, <2>1 DEF RxGood
<1> QED  BY <1>6, <1>7, <1>8

-----------------------------------------------------------------------------
(* A conforming block *)

\* Every table of it is taken as it is.
LEMMA ConformingTaken ==
  ASSUME NEW c, c.rx_max \in Int, NEW b, NEW E, Listed(b, E), Conforming(c, b),
         NEW o \in DOMAIN b.tables
  PROVE  LET t == TableAt(b, o)
             n == VerifyNdp(c, b, o)
         IN /\ t = b.tables[o] /\ n \in Nat
            /\ Accepted(c, b, t, n) = t.entries
<1> DEFINE t == b.tables[o]
           n == VerifyNdp(c, b, o)
           m == Len(t.entries)
           ret == (t.wLength - Ndp(c)) \div Dpe(c) - 1
           p == o + Ndp(c) > b.len
           q == Ndp(c) + ret * Dpe(c) > b.len
<1>1. TableAt(b, o) = t
  BY DEF TableAt
<1>2. /\ o \in Nat /\ b.len \in Nat /\ t.entries \in Seq(E) /\ t.wLength \in Nat
      /\ t.sign /\ t.entries # <<>> /\ t.wLength = Ndp(c) + (m + 1) * Dpe(c)
      /\ o + t.wLength <= b.len
      /\ \A i \in DOMAIN t.entries : FrameIn(c, b, t.entries[i])
  BY DEF Listed, Conforming, FrameIn
<1>3. m \in Nat /\ m >= 1
  BY <1>2
<1>4. n = IF p \/ t.wLength < 4 * Dpe(c) THEN -1 ELSE IF q THEN -1 ELSE ret
  BY <1>1 DEF VerifyNdp
<1> HIDE DEF m, t, n
<1>5. ret = m
  <2> DEFINE k == m + 1
  <2>1. k \in Nat /\ t.wLength - Ndp(c) = k * Dpe(c)
    BY <1>2, <1>3 DEF Ndp, Dpe
  <2> HIDE DEF k
  <2>2. (k * Dpe(c)) \div Dpe(c) = k
    BY <2>1 DEF Dpe
  <2>3. ret = k - 1
    BY <2>1, <2>2
  <2> QED  BY <1>3, <2>3 DEF k
<1>6. ~p /\ ~(t.wLength < 4 * Dpe(c)) /\ ~q
  <2>1. q <=> Ndp(c) + m * Dpe(c) > b.len
    BY <1>5
  <2> HIDE DEF q, ret
  <2> QED  BY <1>2, <1>3, <2>1 DEF Ndp, Dpe
<1>7. n = m
  BY <1>4, <1>5, <1>6
<1> HIDE DEF p, q, ret
<1>8. Accepted(c, b, t, n) = t.entries
  <2>1. t.entries \in Seq(E) /\ n \in Nat /\ t.sign /\ n = Len(t.entries)
    BY <1>2, <1>3, <1>7 DEF m
  <2>2. \A i \in DOMAIN t.entries : FrameIn(c, b, t.entries[i])
    BY <1>2
  <2> QED  BY <2>1, <2>2, AcceptedFrames
<1> QED  BY <1>1, <1>3, <1>7, <1>8 DEF t, n

\* g is the first n steps along the chain.
Reads(b, n, g) ==
  g = [k \in 0 .. n |->
         IF k = 0 THEN [at |-> b.ndp, dgrams |-> <<>>] ELSE Further(b, g[k - 1])]

\* The steps exist.
LEMMA ReadsExist ==
  ASSUME NEW b, NEW last \in Nat
  PROVE  \E f : Reads(b, last, f)
<1> DEFINE S == {n \in Nat : \E f : Reads(b, n, f)}
           first == [at |-> b.ndp, dgrams |-> <<>>]
<1>1. 0 \in S
  <2>1. Reads(b, 0, [k \in 0 .. 0 |-> first])
    BY DEF Reads
  <2> QED  BY <2>1
<1>2. ASSUME NEW n \in Nat, n \in S
      PROVE  n + 1 \in S
  <2>1. PICK f : Reads(b, n, f)
    BY <1>2
  <2> DEFINE g == [k \in 0 .. n + 1 |-> IF k <= n THEN f[k] ELSE Further(b, f[n])]
  <2>2. ASSUME NEW k \in 0 .. n + 1
        PROVE  g[k] = IF k = 0 THEN first ELSE Further(b, g[k - 1])
    <3>1. CASE k = n + 1
      BY <3>1
    <3>2. CASE k # n + 1
      BY <2>1, <3>2 DEF Reads
    <3> QED  BY <3>1, <3>2
  <2>3. g = [k \in 0 .. n + 1 |-> g[k]]
    OBVIOUS
  <2> HIDE DEF g
  <2>4. Reads(b, n + 1, g)
    BY <2>2, <2>3 DEF Reads
  <2> QED  BY <2>4
<1>3. Nat \subseteq S
  <2> HIDE DEF S
  <2> QED  BY <1>1, <1>2, Induct
<1> QED  BY <1>3

\* Step by step.
ReadRun(b, g) ==
  /\ g[0] = [at |-> b.ndp, dgrams |-> <<>>]
  /\ \A k \in 0 .. LoopMax : g[k + 1] = Further(b, g[k])

\* What a chain announces is what its last step leaves.
LEMMA AnnouncedRuns ==
  ASSUME NEW b
  PROVE  \E g : ReadRun(b, g) /\ Announced(b) = g[LoopMax + 1].dgrams
<1> DEFINE read == CHOOSE g : Reads(b, LoopMax + 1, g)
<1>1. LoopMax \in Nat /\ LoopMax + 1 \in Nat
  BY NcmAssumption
<1>2. \E g : Reads(b, LoopMax + 1, g)
  BY <1>1, ReadsExist
<1>3. Reads(b, LoopMax + 1, read)
  BY <1>2
<1>4. Announced(b) = read[LoopMax + 1].dgrams
  BY DEF Announced, Reads
<1> HIDE DEF read
<1>5. \A k \in 0 .. LoopMax + 1 :
         read[k] = IF k = 0 THEN [at |-> b.ndp, dgrams |-> <<>>] ELSE Further(b, read[k - 1])
  BY <1>3 DEF Reads
<1>6. ASSUME NEW k \in 0 .. LoopMax
      PROVE  read[k + 1] = Further(b, read[k])
  <2>1. k + 1 \in 0 .. LoopMax + 1 /\ k + 1 # 0 /\ k + 1 - 1 = k
    BY <1>1
  <2> QED  BY <1>5, <2>1
<1>7. 0 \in 0 .. LoopMax + 1
  BY <1>1
<1>8. ReadRun(b, read)
  BY <1>5, <1>6, <1>7 DEF ReadRun
<1> QED  BY <1>4, <1>8

\* The first m of two sequences: of the first alone, or all of it and some of the other.
LEMMA PrefixOfTwo ==
  ASSUME NEW E, NEW x \in Seq(E), NEW y \in Seq(E), NEW m \in Nat, m <= Len(x) + Len(y)
  PROVE  SubSeq(x \o y, 1, m) =
           IF m <= Len(x) THEN SubSeq(x, 1, m) ELSE x \o SubSeq(y, 1, m - Len(x))
<1> DEFINE z == x \o y
<1>1. /\ z \in Seq(E) /\ Len(z) = Len(x) + Len(y) /\ Len(x) \in Nat /\ Len(y) \in Nat
      /\ DOMAIN x = 1 .. Len(x) /\ DOMAIN y = 1 .. Len(y) /\ DOMAIN z = 1 .. Len(z)
      /\ \A i \in 1 .. Len(x) + Len(y) : z[i] = IF i <= Len(x) THEN x[i] ELSE y[i - Len(x)]
  BY ConcatProperties
<1> HIDE DEF z
<1>2. /\ SubSeq(z, 1, m) \in Seq(E) /\ Len(SubSeq(z, 1, m)) = m
      /\ \A i \in 1 .. m : SubSeq(z, 1, m)[i] = z[i]
  <2>1. \A i \in 1 .. m : z[i] \in E
    BY <1>1
  <2> QED  BY <1>1, <2>1, SubSeqProperties
<1>3. CASE m <= Len(x)
  <2>1. /\ SubSeq(x, 1, m) \in Seq(E) /\ Len(SubSeq(x, 1, m)) = m
        /\ \A i \in 1 .. m : SubSeq(x, 1, m)[i] = x[i]
    <3>1. \A i \in 1 .. m : x[i] \in E
      BY <1>1, <1>3
    <3> QED  BY <3>1, SubSeqProperties
  <2> DEFINE u == SubSeq(z, 1, m)
             v == SubSeq(x, 1, m)
  <2>2. \A i \in 1 .. m : u[i] = v[i]
    BY <1>1, <1>2, <1>3, <2>1
  <2>3. u \in Seq(E) /\ v \in Seq(E) /\ Len(u) = m /\ Len(v) = m
    BY <1>2, <2>1
  <2> HIDE DEF u, v
  <2>4. u = v
    BY <2>2, <2>3, SeqEqual
  <2> QED  BY <1>3, <2>4 DEF u, v, z
<1>4. CASE ~(m <= Len(x))
  <2> DEFINE w == SubSeq(y, 1, m - Len(x))
             u == SubSeq(z, 1, m)
             v == x \o w
  <2>1. /\ w \in Seq(E) /\ Len(w) = m - Len(x)
        /\ \A i \in 1 .. m - Len(x) : w[i] = y[i]
    <3>1. \A i \in 1 .. m - Len(x) : y[i] \in E
      BY <1>1, <1>4
    <3>2. m - Len(x) \in Int /\ m - Len(x) >= 1 /\ 1 \in Int
      BY <1>1, <1>4
    <3> QED  BY <3>1, <3>2, SubSeqProperties
  <2> HIDE DEF w
  <2>2. /\ v \in Seq(E) /\ Len(v) = m
        /\ \A i \in 1 .. m : v[i] = IF i <= Len(x) THEN x[i] ELSE w[i - Len(x)]
    BY <1>1, <1>4, <2>1, ConcatProperties
  <2> HIDE DEF v
  <2>3. ASSUME NEW i \in 1 .. m
        PROVE  u[i] = v[i]
    <3>1. u[i] = IF i <= Len(x) THEN x[i] ELSE y[i - Len(x)]
      BY <1>1, <1>2
    <3>2. CASE i <= Len(x)
      BY <2>2, <3>1, <3>2
    <3>3. CASE ~(i <= Len(x))
      <4>1. i - Len(x) \in 1 .. m - Len(x)
        BY <1>1, <3>3
      <4> QED  BY <2>1, <2>2, <3>1, <3>3, <4>1
    <3> QED  BY <3>2, <3>3
  <2>4. u \in Seq(E) /\ Len(u) = m
    BY <1>2
  <2> HIDE DEF u
  <2>5. u = v
    BY <2>2, <2>3, <2>4, SeqEqual
  <2> QED  BY <1>4, <2>5 DEF u, v, w, z
<1> QED  BY <1>3, <1>4

\* The reader's loop and the chain side by side: as long as there is memory they
\* agree, then the loop has stopped with what had memory.
InStep(b, E, mem, g, s) ==
  /\ g.dgrams \in Seq(E) /\ g.at \in DOMAIN b.tables \cup {0}
  /\ \/ /\ Len(g.dgrams) <= mem
        /\ s.at = g.at /\ s.room = mem - Len(g.dgrams) /\ s.up = g.dgrams
        /\ s.end = IF g.at = 0 THEN "last" ELSE "no"
     \/ /\ Len(g.dgrams) > mem
        /\ s.end = "error" /\ s.up = SubSeq(g.dgrams, 1, mem)

\* A turn and a step.
LEMMA StepTogether ==
  ASSUME NEW c, c.rx_max \in Int, NEW b, NEW E, Listed(b, E), Conforming(c, b),
         NEW mem \in Nat, NEW g, NEW s, InStep(b, E, mem, g, s)
  PROVE  InStep(b, E, mem, Further(b, g), RxTurn(c, b, s))
<1> DEFINE h == Further(b, g)
           r == RxTurn(c, b, s)
           d == g.dgrams
<1> SUFFICES InStep(b, E, mem, h, r)
  OBVIOUS
<1>1. d \in Seq(E) /\ Len(d) \in Nat /\ g.at \in DOMAIN b.tables \cup {0}
  BY DEF InStep
<1>2. CASE g.at = 0
  <2>1. h = g
    BY <1>2 DEF Further
  <2>2. s.end # "no"
    BY <1>2 DEF InStep
  <2>3. r = s
    BY <2>2 DEF RxTurn
  <2> HIDE DEF h, r
  <2> QED  BY <2>1, <2>3
<1>3. CASE g.at # 0
  <2> DEFINE t == b.tables[g.at]
             e == t.entries
  <2>1. /\ g.at \in DOMAIN b.tables /\ e \in Seq(E) /\ Len(e) \in Nat
        /\ t.next \in DOMAIN b.tables \cup {0}
    BY <1>1, <1>3 DEF Listed, Conforming
  <2>2. h = [at |-> t.next, dgrams |-> d \o e]
    BY <1>3 DEF Further
  <2>3. d \o e \in Seq(E) /\ Len(d \o e) = Len(d) + Len(e)
    BY <1>1, <2>1, ConcatProperties
  <2>4. CASE Len(d) > mem
    <3>1. s.end = "error" /\ s.up = SubSeq(d, 1, mem)
      BY <1>1, <2>4 DEF InStep
    <3>2. r = s
      BY <3>1 DEF RxTurn
    <3> HIDE DEF r, d, e, t
    <3>3. SubSeq(d \o e, 1, mem) = SubSeq(d, 1, mem)
      <4>1. mem <= Len(d) /\ mem <= Len(d) + Len(e)
        BY <1>1, <2>1, <2>4
      <4> QED  BY <1>1, <2>1, <4>1, PrefixOfTwo
    <3>4. Len(d \o e) > mem
      BY <1>1, <2>1, <2>3, <2>4
    <3> QED  BY <2>1, <2>2, <2>3, <3>1, <3>2, <3>3, <3>4 DEF InStep
  <2>5. CASE ~(Len(d) > mem)
    <3> DEFINE n == VerifyNdp(c, b, g.at)
    <3>1. /\ Len(d) <= mem /\ s.at = g.at /\ s.room = mem - Len(d) /\ s.up = d
          /\ s.end = "no"
      BY <1>1, <1>3, <2>5 DEF InStep
    <3>2. TableAt(b, g.at) = t /\ n \in Nat /\ Accepted(c, b, t, n) = e
      BY <2>1, ConformingTaken
    <3>3. r = IF Len(e) > s.room
              THEN [s EXCEPT !.end = "error", !.up = @ \o SubSeq(e, 1, s.room)]
              ELSE [at |-> t.next, room |-> s.room - Len(e), up |-> s.up \o e,
                    end |-> IF t.next = 0 THEN "last" ELSE "no"]
      <4> HIDE DEF n, t, e
      <4> QED  BY <3>1, <3>2 DEF RxTurn, n
    <3> HIDE DEF r, d, e, t, n
    <3>4. CASE Len(e) > s.room
      <4>1. r = [s EXCEPT !.end = "error", !.up = @ \o SubSeq(e, 1, s.room)]
        BY <3>3, <3>4
      <4>2. r.end = "error" /\ r.up = d \o SubSeq(e, 1, mem - Len(d))
        BY <3>1, <4>1
      <4>3. Len(d \o e) > mem
        BY <1>1, <2>1, <2>3, <3>1, <3>4
      <4>4. SubSeq(d \o e, 1, mem) = r.up
        <5>1. CASE mem <= Len(d)
          <6>1. mem = Len(d)
            BY <1>1, <3>1, <5>1
          <6>2. SubSeq(d \o e, 1, mem) = SubSeq(d, 1, mem)
            BY <1>1, <2>1, <5>1, PrefixOfTwo
          <6>3. SubSeq(d, 1, mem) = d
            BY <1>1, <6>1, SubSeqFull
          <6>4. SubSeq(e, 1, mem - Len(d)) = <<>>
            BY <1>1, <6>1, SubSeqEmpty
          <6>5. d \o <<>> = d
            BY <1>1, ConcatEmptySeq
          <6> QED  BY <4>2, <6>2, <6>3, <6>4, <6>5
        <5>2. CASE ~(mem <= Len(d))
          <6>1. mem <= Len(d) + Len(e)
            BY <1>1, <2>1, <2>3, <4>3
          <6> QED  BY <1>1, <2>1, <4>2, <5>2, <6>1, PrefixOfTwo
        <5> QED  BY <5>1, <5>2
      <4> QED  BY <2>1, <2>2, <2>3, <4>2, <4>3, <4>4 DEF InStep
    <3>5. CASE ~(Len(e) > s.room)
      <4>1. /\ r.at = t.next /\ r.room = s.room - Len(e) /\ r.up = d \o e
            /\ r.end = IF t.next = 0 THEN "last" ELSE "no"
        BY <3>1, <3>3, <3>5
      <4>2. Len(d \o e) <= mem /\ r.room = mem - Len(d \o e)
        BY <1>1, <2>1, <2>3, <3>1, <3>5, <4>1
      <4> QED  BY <2>1, <2>2, <2>3, <4>1, <4>2 DEF InStep
    <3> QED  BY <3>4, <3>5
  <2> QED  BY <2>4, <2>5
<1> QED  BY <1>2, <1>3

\* cdc_ncm_rx_fixup takes all that a conforming block announces, in order, or as much
\* as has memory.
LEMMA RxFixupTakes ==
  ASSUME NEW c, c.rx_max \in Int, NEW b, NEW E, Listed(b, E), Conforming(c, b), NEW mem \in Nat
  PROVE  /\ Announced(b) \in Seq(E)
         /\ RxFixup(c, b, mem) =
              [ok |-> Len(Announced(b)) <= mem,
               up |-> SubSeq(Announced(b), 1, Lower(mem, Len(Announced(b))))]
<1>1. PICK f : /\ RxRun(c, b, mem, f)
               /\ RxTables(c, b, mem) =
                    [ok |-> f[LoopMax + 1].end # "error", up |-> f[LoopMax + 1].up]
  BY RxTablesRuns
<1>2. PICK g : ReadRun(b, g) /\ Announced(b) = g[LoopMax + 1].dgrams
  BY AnnouncedRuns
<1> DEFINE S == {k \in Nat : k <= LoopMax + 1 => InStep(b, E, mem, g[k], f[k])}
           A == Announced(b)
<1>3. LoopMax \in Nat /\ LoopMax + 1 \in Nat
  BY NcmAssumption
<1>4. b.ndp \in DOMAIN b.tables /\ b.ndp \in Nat \ {0} /\ b.ndp >= Nth(c)
  <2>1. b.ndp \in DOMAIN b.tables /\ b.ndp \in Nat /\ b.ndp >= Nth(c)
    BY DEF Conforming, Listed
  <2> QED  BY <2>1, NthNat
<1>5. 0 \in S
  <2>1. f[0] = [at |-> b.ndp, room |-> mem, up |-> <<>>, end |-> "no"]
    BY <1>1 DEF RxRun, RxBegin
  <2>2. g[0] = [at |-> b.ndp, dgrams |-> <<>>]
    BY <1>2 DEF ReadRun
  <2>3. <<>> \in Seq(E) /\ Len(<<>>) = 0
    OBVIOUS
  <2>4. InStep(b, E, mem, g[0], f[0])
    BY <1>4, <2>1, <2>2, <2>3 DEF InStep
  <2> QED  BY <2>4
<1>6. ASSUME NEW k \in Nat, k \in S
      PROVE  k + 1 \in S
  <2> SUFFICES ASSUME k + 1 <= LoopMax + 1
               PROVE  InStep(b, E, mem, g[k + 1], f[k + 1])
    OBVIOUS
  <2>1. /\ InStep(b, E, mem, g[k], f[k])
        /\ f[k + 1] = RxTurn(c, b, f[k]) /\ g[k + 1] = Further(b, g[k])
    BY <1>1, <1>2, <1>3, <1>6 DEF RxRun, ReadRun
  <2> QED  BY <2>1, StepTogether
<1>7. InStep(b, E, mem, g[LoopMax + 1], f[LoopMax + 1])
  <2>1. Nat \subseteq S
    <3> HIDE DEF S
    <3> QED  BY <1>5, <1>6, Induct
  <2> QED  BY <1>3, <2>1
<1> DEFINE last == f[LoopMax + 1]
<1>8. /\ A \in Seq(E) /\ Len(A) \in Nat
      /\ \/ Len(A) <= mem /\ last.up = A /\ last.end # "error"
         \/ Len(A) > mem /\ last.up = SubSeq(A, 1, mem) /\ last.end = "error"
  BY <1>2, <1>7 DEF InStep
<1>9. RxFixup(c, b, mem) = RxTables(c, b, mem)
  <2>1. /\ b.tables[b.ndp].wLength = Ndp(c) + (Len(b.tables[b.ndp].entries) + 1) * Dpe(c)
        /\ b.tables[b.ndp].entries \in Seq(E) /\ b.ndp + b.tables[b.ndp].wLength <= b.len
        /\ b.sign /\ b.block <= c.rx_max /\ b.len \in Nat
    BY <1>4 DEF Conforming, Listed
  <2>2. b.tables[b.ndp].wLength \in Nat /\ b.tables[b.ndp].wLength >= Ndp(c)
    <3> DEFINE m == Len(b.tables[b.ndp].entries)
               w == b.tables[b.ndp].wLength
    <3>1. m \in Nat /\ w = Ndp(c) + (m + 1) * Dpe(c)
      BY <2>1
    <3> HIDE DEF m, w
    <3>2. w \in Nat /\ w >= Ndp(c)
      BY <3>1 DEF Ndp, Dpe
    <3> QED  BY <3>2 DEF w
  <2>3. ~(b.len < Nth(c) + Ndp(c))
    BY <1>4, <2>1, <2>2 DEF Nth, Ndp
  <2>4. VerifyNth(c, b) = -1 \/ VerifyNth(c, b) = b.ndp
    BY DEF VerifyNth
  <2>5. ~(b.block > c.rx_max)
    BY DEF Conforming, Listed
  <2>6. VerifyNth(c, b) = b.ndp
    BY <2>1, <2>3, <2>5 DEF VerifyNth
  <2> QED  BY <1>4, <2>6 DEF RxFixup
<1> HIDE DEF A, last
<1>10. RxFixup(c, b, mem) = [ok |-> last.end # "error", up |-> last.up]
  BY <1>1, <1>9 DEF last
<1>11. last.end # "error" <=> Len(A) <= mem
  BY <1>8
<1>12. last.up = SubSeq(A, 1, Lower(mem, Len(A)))
  <2>1. Len(A) <= mem => Lower(mem, Len(A)) = Len(A)
    BY <1>8 DEF Lower
  <2>2. Len(A) > mem => Lower(mem, Len(A)) = mem
    BY <1>8 DEF Lower
  <2>3. SubSeq(A, 1, Len(A)) = A
    BY <1>8, SubSeqFull
  <2> QED  BY <1>8, <2>1, <2>2, <2>3
<1>13. (last.end # "error") = (Len(A) <= mem)
  BY <1>11
<1> QED  BY <1>8, <1>10, <1>12, <1>13 DEF A

\* What a device may send can be read.
LEMMA TypedListed ==
  ASSUME NEW b, BlockTyped(b)
  PROVE  Listed(b, [id : Nat, off : Nat, len : Nat])
  BY DEF BlockTyped, Listed

\* Delivered, of any block the device sends.
LEMMA TakenDelivered ==
  ASSUME NEW c, c.rx_max \in Nat, NEW b \in Blocks, b.ndp16 = c.is_ndp16, NEW mem \in RxMemory
  PROVE  DeliveredFrom(Taken(c, b, mem, RxFixup(c, b, mem)))
<1> DEFINE E == [id : Nat, off : Nat, len : Nat]
           k == [is_ndp16 |-> b.ndp16, rx_max |-> c.rx_max]
           r == RxFixup(c, b, mem)
           A == Announced(b)
           u == Taken(c, b, mem, r)
<1>1. BlockTyped(b) /\ mem \in Nat
  BY NcmAssumption
<1>2. Listed(b, E) /\ c.rx_max \in Int
  BY <1>1, TypedListed
<1> HIDE DEF E, r, A
<1>3. /\ u.block = b /\ u.max = c.rx_max /\ u.mem = mem
      /\ u.got = r.up /\ u.ok = r.ok
  BY DEF Taken, r
<1>4. /\ \A i \in DOMAIN r.up : Ends(r.up[i]) <= b.len /\ r.up[i].len \in EthHlen .. c.rx_max
      /\ Len(r.up) <= mem
  BY <1>1, <1>2, RxFixupGood DEF r, FrameIn
<1>5. Conforming(k, b) => Conforming(c, b)
  <2>1. Nth(k) = Nth(c) /\ Ndp(k) = Ndp(c) /\ Dpe(k) = Dpe(c) /\ k.rx_max = c.rx_max
    BY DEF Nth, Ndp, Dpe
  <2> HIDE DEF k
  <2> QED  BY <2>1 DEF Conforming
<1> HIDE DEF k
<1>6. ASSUME Conforming(k, b)
      PROVE  r.ok = (Len(A) <= mem) /\ r.up = SubSeq(A, 1, Lower(mem, Len(A)))
  <2>1. r = [ok |-> Len(A) <= mem, up |-> SubSeq(A, 1, Lower(mem, Len(A)))]
    BY <1>1, <1>2, <1>5, <1>6, RxFixupTakes DEF r, A
  <2> QED  BY <2>1
<1>7. DeliveredFrom(u)
  <2> HIDE DEF u
  <2> QED  BY <1>3, <1>4, <1>6 DEF DeliveredFrom, k, A
<1> QED  BY <1>7 DEF r

\* What comes up from a block is what a conforming block announces, in order, and
\* from any other nothing but frames that lie in it (1720-1846).
THEOREM BlocksDelivered == Spec => []Delivered
<1> DEFINE I == SizesInv /\ Delivered
<1>1. Init => I
  BY DEF Init, SizesInv, Bound, Delivered, DeliveredFrom, NoUp
<1>2. I /\ [Next]_vars => I'
  <2> SUFFICES ASSUME SizesInv, Delivered, [Next]_vars
               PROVE  SizesInv' /\ Delivered'
    OBVIOUS
  <2>1. SizesInv'
    BY SizesStep
  <2>2. UNCHANGED up \/ Receive
    BY DEF Next, vars, BindClaims, BindFails, Bind, Open, UnbindStop, HrtimerCancel, TaskletKill,
           UnbindFree, Xmit, TimerFires, Bh, BhRuns, BhStartsTimer, BhFlushes, Store, RxMaxStore,
           TxMaxStore, UpdateRxTxMax, StoreEnds, MinTxPktStore, TimerStore, NdpToEndStore,
           ChangeMtu, Status
  <2>3. CASE UNCHANGED up
    <3>1. up' = up
      BY <2>3
    <3> QED  BY <2>1, <3>1 DEF Delivered
  <2>4. CASE Receive
    <3>1. phase = "up" /\ ctx.rx_max \in Nat
      BY <2>4 DEF Receive, SizesInv, Bound, SizesKept, RxKept
    <3>2. PICK b \in {x \in Blocks : x.ndp16 = ctx.is_ndp16}, mem \in RxMemory :
             up' = Taken(ctx, b, mem, RxFixup(ctx, b, mem))
      BY <2>4 DEF Receive
    <3>3. b \in Blocks /\ b.ndp16 = ctx.is_ndp16
      BY <3>2
    <3>4. DeliveredFrom(Taken(ctx, b, mem, RxFixup(ctx, b, mem)))
      BY <3>1, <3>2, <3>3, TakenDelivered
    <3> QED  BY <2>1, <3>2, <3>4 DEF Delivered
  <2> QED  BY <2>1, <2>2, <2>3, <2>4
<1>3. I => Delivered
  OBVIOUS
<1> QED
  BY <1>1, <1>2, <1>3, PTL DEF Spec

-----------------------------------------------------------------------------
(* A block read by the driver that built it *)

\* A single table is all there is to read.
LEMMA OneTableAnnounced ==
  ASSUME NEW b, NEW E, b.ndp \in DOMAIN b.tables, b.ndp # 0, b.tables[b.ndp].next = 0,
         b.tables[b.ndp].entries \in Seq(E)
  PROVE  Announced(b) = b.tables[b.ndp].entries
<1>1. PICK g : ReadRun(b, g) /\ Announced(b) = g[LoopMax + 1].dgrams
  BY AnnouncedRuns
<1> DEFINE e == b.tables[b.ndp].entries
           S == {k \in Nat : k <= LoopMax => g[k + 1] = [at |-> 0, dgrams |-> e]}
<1>2. LoopMax \in Nat
  BY NcmAssumption
<1>3. 0 \in S
  <2>1. g[0] = [at |-> b.ndp, dgrams |-> <<>>] /\ g[1] = Further(b, g[0])
    BY <1>1, <1>2 DEF ReadRun
  <2>2. <<>> \o e = e
    BY ConcatEmptySeq
  <2>3. g[1] = [at |-> 0, dgrams |-> e]
    BY <2>1, <2>2 DEF Further
  <2> QED  BY <2>3
<1>4. ASSUME NEW k \in Nat, k \in S
      PROVE  k + 1 \in S
  <2> SUFFICES ASSUME k + 1 <= LoopMax
               PROVE  g[k + 1 + 1] = [at |-> 0, dgrams |-> e]
    OBVIOUS
  <2>1. g[k + 1] = [at |-> 0, dgrams |-> e] /\ k + 1 \in 0 .. LoopMax
    BY <1>2, <1>4
  <2>2. g[k + 1 + 1] = Further(b, g[k + 1])
    BY <1>1, <2>1 DEF ReadRun
  <2> QED  BY <2>1, <2>2 DEF Further
<1>5. LoopMax \in S
  <2>1. Nat \subseteq S
    <3> HIDE DEF S
    <3> QED  BY <1>3, <1>4, Induct
  <2> QED  BY <1>2, <2>1
<1> QED  BY <1>1, <1>2, <1>5

\* wBlockLength has 16 bits in the short headers (1442).
LEMMA Length16 ==
  ASSUME NEW n \in Nat
  PROVE  n % 65536 \in Nat /\ n % 65536 <= n
  OBVIOUS

\* A block that is sent conforms, if its header leads to its table.
LEMMA OutConforms ==
  ASSUME NEW c, NEW b, Geometry(c), OutGood(c, b), b.ndp = b.table
  PROVE  LET k == [c EXCEPT !.rx_max = b.size]
             r == Received(c, b)
         IN Conforming(k, r) /\ Listed(r, Range(b.dgrams))
<1> DEFINE k == [c EXCEPT !.rx_max = b.size]
           r == Received(c, b)
           d == b.dgrams
           E == Range(d)
           n == Len(d)
           w == Ndp(c) + (n + 1) * Dpe(c)
           t == [sign |-> TRUE, next |-> 0, entries |-> d, wLength |-> w]
           block == IF c.is_ndp16 THEN b.len % 65536 ELSE b.len
<1>1. /\ d \in Seq(E) /\ n \in 1 .. c.tx_max_datagrams
      /\ b.size \in Nat /\ b.len \in Nat /\ b.table \in Nat /\ b.len <= b.size
      /\ Nth(c) <= b.table /\ b.table + c.max_ndp_size <= b.len
      /\ \A i \in DOMAIN d :
           /\ d[i].off \in Nat /\ d[i].len \in Nat /\ EthHlen <= d[i].len
           /\ Ends(d[i]) <= b.len /\ Nth(c) <= d[i].off
  BY DEF OutGood, IsBlock
<1>2. /\ c.max_ndp_size = Ndp(c) + (c.tx_max_datagrams + 1) * Dpe(c)
      /\ c.tx_max_datagrams \in Nat /\ c.max_ndp_size \in Nat
  BY DEF Geometry
<1>3. /\ r.len = b.len /\ r.sign = TRUE /\ r.ndp = b.table /\ r.block = block
      /\ DOMAIN r.tables = {b.table} /\ r.tables[b.table] = t
  BY DEF Received
<1>4. k.is_ndp16 = c.is_ndp16 /\ k.rx_max = b.size
  BY DEF Geometry
<1>5. Nth(k) = Nth(c) /\ Ndp(k) = Ndp(c) /\ Dpe(k) = Dpe(c)
  BY <1>4 DEF Nth, Ndp, Dpe
<1>6. block \in Nat /\ block <= b.len
  <2>1. b.len \in Nat
    BY <1>1
  <2>2. b.len % 65536 \in Nat /\ b.len % 65536 <= b.len
    BY <2>1, Length16
  <2> QED  BY <2>1, <2>2
<1>7. n \in Nat /\ w \in Nat /\ w <= c.max_ndp_size
  <2>1. n \in Nat /\ n <= c.tx_max_datagrams
    BY <1>1, <1>2
  <2> HIDE DEF n
  <2> QED  BY <1>2, <2>1 DEF Ndp, Dpe
<1> HIDE DEF k, r, block, w
<1>8. b.table + w <= b.len
  BY <1>1, <1>2, <1>7
<1>9. ASSUME NEW i \in DOMAIN d
      PROVE  d[i].off > 0 /\ d[i].len \in EthHlen .. b.size
  <2>1. /\ d[i].off \in Nat /\ d[i].len \in Nat /\ EthHlen <= d[i].len
        /\ Ends(d[i]) <= b.len /\ Nth(c) <= d[i].off
    BY <1>1
  <2>2. d[i].len <= b.len
    BY <1>1, <2>1 DEF Ends
  <2> QED  BY <1>1, <2>1, <2>2, NthNat DEF EthHlen
<1>10. Conforming(k, r)
  <2>1. r.sign /\ r.block <= k.rx_max /\ r.ndp \in DOMAIN r.tables
    BY <1>1, <1>3, <1>4, <1>6
  <2>2. /\ t.sign /\ t.entries # <<>> /\ t.next \in DOMAIN r.tables \cup {0}
        /\ t.wLength = Ndp(k) + (Len(t.entries) + 1) * Dpe(k)
        /\ b.table >= Nth(k) /\ b.table + t.wLength <= r.len
    BY <1>1, <1>3, <1>5, <1>8, NthNat DEF w
  <2>3. ASSUME NEW i \in DOMAIN t.entries
        PROVE  /\ t.entries[i].off > 0 /\ Ends(t.entries[i]) <= r.len
               /\ t.entries[i].len \in EthHlen .. k.rx_max
    BY <1>1, <1>3, <1>4, <1>9
  <2> HIDE DEF t
  <2> QED  BY <1>3, <2>1, <2>2, <2>3 DEF Conforming
<1>11. Listed(r, E)
  <2>1. ASSUME NEW e \in E
        PROVE  e.off \in Nat /\ e.len \in Nat
    BY <1>1 DEF Range
  <2>2. t.entries \in Seq(E) /\ t.wLength \in Nat
    BY <1>1, <1>7
  <2> HIDE DEF E, t
  <2> QED  BY <1>1, <1>3, <1>6, <2>1, <2>2 DEF Listed
<1> QED  BY <1>10, <1>11 DEF k, r

\* The driver reads what it built: all the frames, in order (1295-1446, 1720-1846).
THEOREM FormatAgrees == Spec => []ReadBack
<1> DEFINE I == SizesInv /\ QuietInv /\ FramesInv /\ BlocksInv
<1>1. Init => I
  <2>1. Init => BlocksInv
    BY DEF Init, BlocksInv, Bound
  <2> QED  BY <2>1, FramesInit
<1>2. I /\ [Next]_vars => I'
  BY SizesStep, QuietStep, FramesStep, BlocksStep
<1>3. I => ReadBack
  <2> DEFINE k == [ctx EXCEPT !.rx_max = out.size]
             r == Received(ctx, out)
             d == out.dgrams
             E == Range(d)
  <2> SUFFICES ASSUME I, out # None, Bound, ~tx.turned
               PROVE  RxFixup(k, r, 100) = [ok |-> TRUE, up |-> d]
    BY DEF ReadBack
  <2>1. Geometry(ctx) /\ OutGood(ctx, out) /\ out.ndp = out.table
    BY DEF BlocksInv
  <2>2. Conforming(k, r) /\ Listed(r, E)
    BY <2>1, OutConforms
  <2>3. "rx_max" \in DOMAIN ctx /\ ctx.tx_max_datagrams \in 1 .. DatagramsMax
    BY DEF SizesInv, SizesKept, RxKept, TxNumbers
  <2>4. k.rx_max \in Int
    BY <2>1, <2>3 DEF OutGood
  <2>5. d \in Seq(E) /\ Len(d) \in Nat /\ Len(d) <= 100
    <3>1. d \in Seq(E) /\ Len(d) \in 1 .. ctx.tx_max_datagrams
      BY <2>1 DEF OutGood, IsBlock
    <3>2. ctx.tx_max_datagrams \in Nat /\ ctx.tx_max_datagrams <= 40
      BY <2>3 DEF DatagramsMax
    <3> HIDE DEF d, E
    <3> QED  BY <3>1, <3>2
  <2>6. Announced(r) = d
    <3>1. /\ r.ndp \in DOMAIN r.tables /\ r.ndp # 0 /\ r.tables[r.ndp].next = 0
          /\ r.tables[r.ndp].entries = d
      BY <2>1, NthNat DEF Received, OutGood
    <3> HIDE DEF r, d, E
    <3> QED  BY <2>5, <3>1, OneTableAnnounced
  <2> HIDE DEF k, r, d, E
  <2>7. RxFixup(k, r, 100) = [ok |-> Len(d) <= 100, up |-> SubSeq(d, 1, Lower(100, Len(d)))]
    BY <2>2, <2>4, <2>6, RxFixupTakes
  <2>8. Lower(100, Len(d)) = Len(d) /\ SubSeq(d, 1, Len(d)) = d
    BY <2>5, SubSeqFull DEF Lower
  <2> QED  BY <2>5, <2>7, <2>8
<1> QED
  BY <1>1, <1>2, <1>3, PTL DEF Spec

=============================================================================
