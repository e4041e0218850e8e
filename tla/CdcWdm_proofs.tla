---------------------------- MODULE CdcWdm_proofs ----------------------------
(***************************************************************************)
(* Proof that CdcWdm keeps its types, for every number of processes and    *)
(* every buffer size.  TypeOK is not inductive: that a read copies no more *)
(* than ubuf holds (CopyBounded) rests on rlock having one owner (Owners), *)
(* and that the core has the locks it works under rests on what it is      *)
(* doing (CoreAgrees).  IInv is the conjunction, and is inductive.         *)
(*                                                                         *)
(* Every action has a step.  One whose effect is small is one leaf; in a   *)
(* lemma named ...ByPart an action is a step for each part of IInv.        *)
(*                                                                         *)
(* On IInv rests the order of the bytes that readers get (OrderInv, at the *)
(* end).                                                                   *)
(***************************************************************************)
EXTENDS CdcWdm, SequenceTheorems, TLAPS

\* Where a read holds rlock, a write wlock, and the core both.
Reading == {"r_retry", "r_wait", "r_check", "r_spin", "r_copy", "r_trim",
            "z_submit", "z_ok", "z_fail", "d_submit", "d_ok", "d_fail"}

Writing == {"w_pm", "w_wait", "w_check", "w_fill", "w_submit"}

Both == {"p1", "p2", "p3", "p4", "c_svc", "c_unpoison", "c_post", "c_end"}

\* What the core is about when it is at l.
CoreOpAt(l) ==
  IF l \in {"c_rlock", "c_wlock"} THEN {"suspend", "reset", "disconnect"}
  ELSE IF l = "c_flag" THEN {"suspend", "autosuspend", "reset", "disconnect"}
  ELSE IF l \in {"c_mutex", "c_deinit", "c_end"} THEN {"disconnect"}
  ELSE IF l = "c_unpoison" THEN {"suspend", "autosuspend", "reset"}
  ELSE IF l = "c_post" THEN {"reset"}
  ELSE IF l = "left" THEN {"deinit"}
  ELSE IF l \in {"p1", "p2", "p3", "p4"}
    THEN {"suspend", "autosuspend", "reset", "disconnect", "deinit"}
  ELSE IF l = "c_svc" THEN {"suspend", "autosuspend", "reset", "disconnect"}
  ELSE {"none"}

CoreAgrees == coreOp \in CoreOpAt(pc["core"])

Owners ==
  /\ \A p \in Procs : pc[p] \in Reading => lock["rlock"] = p
  /\ \A p \in Procs : pc[p] \in Writing => lock["wlock"] = p
  /\ pc["core"] = "c_wlock" => lock["rlock"] = "core"
  /\ \/ pc["core"] \in Both /\ coreOp \in {"suspend", "reset", "disconnect"}
     \/ pc["core"] = "c_flag" /\ coreOp = "suspend"
     => lock["rlock"] = "core" /\ lock["wlock"] = "core"

IInv == TypeOK /\ CoreAgrees /\ Owners /\ CopyBounded

-----------------------------------------------------------------------------
\* The threads are pairwise different, and none of them is None.
LEMMA ThreadsDiffer ==
  /\ \A p \in Procs : /\ p \in Threads /\ p # None
                      /\ p # "core" /\ p # "wwan" /\ p # "rx" /\ p # "svc"
                      /\ p # "int" /\ p # "out"
  /\ {"core", "wwan", "rx", "svc", "int", "out"} \subseteq Threads
  /\ None \notin Threads
BY ConstantsAssumption DEF Threads

\* What the lemmas below use of the assumption on the constants.
LEMMA ConstantTypes ==
  /\ wMaxCommand \in Nat /\ ReadSizes \subseteq Nat
  /\ SubmitFaults \subseteq {"ENOMEM"}
  /\ CoreOps \subseteq {"suspend", "autosuspend", "reset", "disconnect"}
BY ConstantsAssumption

\* usb_submit_urb leaves urb a function from URBs to Booleans.
LEMMA SubmittedType ==
  ASSUME urb \in [Urbs -> BOOLEAN], NEW u \in Urbs, NEW rv
  PROVE  Submitted(u, rv) \in [Urbs -> BOOLEAN]
BY DEF Submitted

\* The results of usb_submit_urb that the handlers tell apart.
LEMMA SubmitResultsKnown ==
  ASSUME NEW u
  PROVE  SubmitResults(u) \subseteq {"ok", "EBUSY", "EPERM", "EHOSTUNREACH", "ENOMEM"}
BY ConstantTypes DEF SubmitResults

\* The bytes of a response of length n.
LEMMA BytesType ==
  ASSUME sent \in Nat, NEW n \in Nat
  PROVE  Bytes(n) \in Seq(Nat) /\ Len(Bytes(n)) = n
<1>1. \A i \in 1 .. n : sent + i \in Nat
  OBVIOUS
<1> QED
  BY <1>1 DEF Bytes

\* The loop and length -= cntr of wdm_read (656-659) leave the bytes after the
\* first c.
LEMMA TrimType ==
  ASSUME ubuf \in Seq(Nat), NEW c \in Nat, c <= Len(ubuf)
  PROVE  /\ SubSeq(ubuf, c + 1, Len(ubuf)) \in Seq(Nat)
         /\ Len(SubSeq(ubuf, c + 1, Len(ubuf))) = Len(ubuf) - c
<1>1. \A i \in c + 1 .. Len(ubuf) : ubuf[i] \in Nat
  OBVIOUS
<1>2. Len(ubuf) \in Nat
  OBVIOUS
<1> QED
  BY <1>1, <1>2, SubSeqProperties

\* An answer is appended only if it fits (259): ubuf stays within wMaxCommand.
LEMMA InDataType ==
  ASSUME BytesTypeOK, NEW n \in 0 .. wMaxCommand, InData(n)
  PROVE  /\ ubuf' \in Seq(Nat) /\ Len(ubuf') <= wMaxCommand
         /\ Len(ubuf) <= Len(ubuf') /\ reslength' \in 0 .. wMaxCommand
<1> USE ConstantTypes DEF BytesTypeOK
<1>1. CASE UNCHANGED <<ubuf, reslength>>
  BY <1>1
<1>2. CASE ~Overflows(n) /\ ubuf' = ubuf \o Bytes(n) /\ reslength' = n
  <2>1. Bytes(n) \in Seq(Nat) /\ Len(Bytes(n)) = n
    BY BytesType
  <2>2. n + Len(ubuf) <= wMaxCommand
    BY <1>2 DEF Overflows
  <2>3. ubuf' \in Seq(Nat) /\ Len(ubuf') = Len(ubuf) + n
    BY <1>2, <2>1, ConcatProperties
  <2> QED
    BY <1>2, <2>2, <2>3
<1> QED
  BY <1>1, <1>2 DEF InData

\* The statuses and lengths of the answers.
LEMMA AnswersKnown ==
  \A r \in InOutcomes : r[1] \in {"ok", "EPIPE", "EPROTO"} /\ r[2] \in 0 .. wMaxCommand
BY ConstantsAssumption DEF InOutcomes

\* write(), fsync() and flush() keep the invariant.
LEMMA WriteInv ==
  ASSUME IInv, NEW p \in Procs,
            WriteLock(p) \/ WritePm(p) \/ WriteWait(p) \/ WriteCheck(p) \/ WriteFill(p)
         \/ WriteStart(p) \/ Fsync(p) \/ Flush(p)
  PROVE  IInv'
<1> USE ThreadsDiffer, ConstantTypes, SubmittedType
<1> USE DEF IInv, TypeOK, PcTypeOK, LocksTypeOK, BitsTypeOK, HostTypeOK, PowerTypeOK,
    FieldsTypeOK, BytesTypeOK, CoreAgrees, CoreOpAt, Owners, CopyBounded, Reading, Writing,
    Both, Locks, Urbs, Works, ProcPc, CorePc, PortPc, Flags, At, Goto, Free, Acquire,
    Release, Set, Clear, locking, usb, life, wr, rsp, buf, dev, power
<1>1. CASE WriteLock(p)
  BY <1>1, SMTT(30) DEF WriteLock
<1>2. CASE WritePm(p)
  BY <1>2, SMTT(30) DEF WritePm, PmReady
<1>3. CASE WriteWait(p)
  BY <1>3, SMTT(30) DEF WriteWait
<1>4. CASE WriteCheck(p)
  BY <1>4, SMTT(60) DEF WriteCheck, WriteReturn
<1>5. CASE WriteFill(p)
  BY <1>5, SMTT(30) DEF WriteFill
<1>6. CASE WriteStart(p)
  BY <1>6, SMTT(30) DEF WriteStart
<1>7. CASE Fsync(p)
  BY <1>7, SMTT(30) DEF Fsync
<1>8. CASE Flush(p)
  BY <1>8, SMTT(30) DEF Flush
<1> HIDE DEF IInv
<1> QED
  BY <1>1, <1>2, <1>3, <1>4, <1>5, <1>6, <1>7, <1>8

\* The submission of a command, and giving up, keep it.
LEMMA WriteInvByPart ==
  ASSUME IInv, NEW p \in Procs,
         WriteSubmit(p) \/ WriteGiveUp(p)
  PROVE  IInv'
<1> USE ThreadsDiffer, ConstantTypes, SubmittedType
<1>1. CASE WriteSubmit(p)
  <2> USE <1>1 DEF WriteSubmit, WriteReturn, At, Goto, Release, Clear, life, rsp, buf, dev
  <2>1. (PcTypeOK /\ CoreAgrees)'
    BY DEF IInv, TypeOK, PcTypeOK, ProcPc, CorePc, PortPc, CoreAgrees, CoreOpAt
  <2>2. (LocksTypeOK /\ Owners)'
    BY DEF IInv, TypeOK, PcTypeOK, CorePc, LocksTypeOK, Locks, CoreAgrees, CoreOpAt, Owners,
           Reading, Writing, Both
  <2>3. BitsTypeOK'
    BY DEF IInv, TypeOK, BitsTypeOK, Flags, Works
  <2>4. (HostTypeOK /\ PowerTypeOK /\ FieldsTypeOK)'
    BY DEF IInv, TypeOK, HostTypeOK, Urbs, PowerTypeOK, FieldsTypeOK
  <2>5. (BytesTypeOK /\ CopyBounded)'
    BY DEF IInv, TypeOK, PcTypeOK, BytesTypeOK, CopyBounded, Owners, Reading
  <2> QED
    BY <2>1, <2>2, <2>3, <2>4, <2>5 DEF IInv, TypeOK
<1>2. CASE WriteGiveUp(p)
  <2> USE <1>2 DEF WriteGiveUp, WriteReturn, At, Goto, Release, usb, life, wr, rsp, buf,
        dev, power
  <2>1. (PcTypeOK /\ CoreAgrees)'
    BY DEF IInv, TypeOK, PcTypeOK, ProcPc, CorePc, PortPc, CoreAgrees, CoreOpAt
  <2>2. (LocksTypeOK /\ Owners)'
    BY DEF IInv, TypeOK, PcTypeOK, CorePc, LocksTypeOK, Locks, CoreAgrees, CoreOpAt, Owners,
           Reading, Writing, Both
  <2>3. BitsTypeOK'
    BY DEF IInv, TypeOK, BitsTypeOK, Flags, Works
  <2>4. (HostTypeOK /\ PowerTypeOK /\ FieldsTypeOK)'
    BY DEF IInv, TypeOK, HostTypeOK, Urbs, PowerTypeOK, FieldsTypeOK
  <2>5. (BytesTypeOK /\ CopyBounded)'
    BY DEF IInv, TypeOK, PcTypeOK, BytesTypeOK, CopyBounded, Owners, Reading
  <2> QED
    BY <2>1, <2>2, <2>3, <2>4, <2>5 DEF IInv, TypeOK
<1> QED
  BY <1>1, <1>2

\* wdm_wait_for_response keeps it.
LEMMA AwaitInv ==
  ASSUME IInv, NEW p \in Procs, NEW k \in {"fsync", "flush"},
         AwaitCommand(p, k) \/ AwaitGiveUp(p, k) \/ AwaitStatus(p, k)
  PROVE  IInv'
<1> USE ThreadsDiffer, ConstantTypes, SubmittedType
<1> USE DEF IInv, TypeOK, PcTypeOK, LocksTypeOK, BitsTypeOK, HostTypeOK, PowerTypeOK,
    FieldsTypeOK, BytesTypeOK, CoreAgrees, CoreOpAt, Owners, CopyBounded, Reading, Writing,
    Both, Locks, Urbs, Works, ProcPc, CorePc, PortPc, Flags, At, Goto, Free, Acquire,
    Release, Set, Clear, locking, usb, life, wr, rsp, buf, dev, power
<1>1. CASE AwaitCommand(p, k)
  BY <1>1, SMTT(30) DEF AwaitCommand, WerrAt, WaitReturn, WaitAt
<1>2. CASE AwaitGiveUp(p, k)
  BY <1>2, SMTT(30) DEF AwaitGiveUp, WaitReturn, WaitAt
<1>3. CASE AwaitStatus(p, k)
  BY <1>3, SMTT(30) DEF AwaitStatus, WaitReturn, WerrAt
<1> HIDE DEF IInv
<1> QED
  BY <1>1, <1>2, <1>3

\* read() keeps it: the actions that change little.
LEMMA ReadInv ==
  ASSUME IInv, NEW p \in Procs,
         ReadLock(p) \/ ReadGiveUp(p) \/ ReadWait(p) \/ ReadCopy(p)
  PROVE  IInv'
<1> USE ThreadsDiffer, ConstantTypes, SubmittedType
<1> USE DEF IInv, TypeOK, PcTypeOK, LocksTypeOK, BitsTypeOK, HostTypeOK, PowerTypeOK,
    FieldsTypeOK, BytesTypeOK, CoreAgrees, CoreOpAt, Owners, CopyBounded, Reading, Writing,
    Both, Locks, Urbs, Works, ProcPc, CorePc, PortPc, Flags, At, Goto, Free, Acquire,
    Release, Set, Clear, locking, usb, life, wr, rsp, buf, dev, power
<1>1. CASE ReadLock(p)
  BY <1>1, SMTT(30) DEF ReadLock
<1>2. CASE ReadGiveUp(p)
  BY <1>2, SMTT(30) DEF ReadGiveUp, ReadReturn
<1>3. CASE ReadWait(p)
  BY <1>3, SMTT(30) DEF ReadWait
<1>4. CASE ReadCopy(p)
  BY <1>4, SMTT(30) DEF ReadCopy
<1> HIDE DEF IInv
<1> QED
  BY <1>1, <1>2, <1>3, <1>4

\* read() keeps it: the actions under iuspin.
LEMMA ReadInvByPart ==
  ASSUME IInv, NEW p \in Procs,
            ReadRetry(p) \/ ReadCheck(p) \/ ReadLockIuspin(p) \/ ReadEmpty(p)
         \/ ReadEmptyRelock(p) \/ ReadTrim(p) \/ ReadDrained(p)
  PROVE  IInv'
<1> USE ThreadsDiffer, ConstantTypes, SubmittedType
<1>1. CASE ReadRetry(p)
  <2> USE <1>1 DEF ReadRetry, ReadReturn, At, Goto, Release, Clear, usb, life, wr, rsp, dev,
        power
  <2>1. (PcTypeOK /\ CoreAgrees)'
    BY DEF IInv, TypeOK, PcTypeOK, ProcPc, CorePc, PortPc, CoreAgrees, CoreOpAt
  <2>2. (LocksTypeOK /\ Owners)'
    BY DEF IInv, TypeOK, PcTypeOK, CorePc, LocksTypeOK, Locks, CoreAgrees, CoreOpAt, Owners,
           Reading, Writing, Both
  <2>3. BitsTypeOK'
    BY DEF IInv, TypeOK, BitsTypeOK, Flags, Works
  <2>4. (HostTypeOK /\ PowerTypeOK /\ FieldsTypeOK)'
    BY DEF IInv, TypeOK, HostTypeOK, Urbs, PowerTypeOK, FieldsTypeOK
  <2>5. (BytesTypeOK /\ CopyBounded)'
    <3>1. BytesTypeOK'
      BY ConstantTypes DEF IInv, TypeOK, BytesTypeOK
    <3>2. CopyBounded'
      BY DEF IInv, TypeOK, PcTypeOK, CopyBounded, Owners, Reading
    <3> QED
      BY <3>1, <3>2
  <2> QED
    BY <2>1, <2>2, <2>3, <2>4, <2>5 DEF IInv, TypeOK
<1>2. CASE ReadCheck(p)
  <2> USE <1>2 DEF ReadCheck, ReadReturn, At, Goto, Release, usb, life, wr, rsp, dev, power
  <2>1. (PcTypeOK /\ CoreAgrees)'
    BY DEF IInv, TypeOK, PcTypeOK, ProcPc, CorePc, PortPc, CoreAgrees, CoreOpAt
  <2>2. (LocksTypeOK /\ Owners)'
    BY DEF IInv, TypeOK, PcTypeOK, CorePc, LocksTypeOK, Locks, CoreAgrees, CoreOpAt, Owners,
           Reading, Writing, Both
  <2>3. BitsTypeOK'
    BY DEF IInv, TypeOK, BitsTypeOK, Flags, Works
  <2>4. (HostTypeOK /\ PowerTypeOK /\ FieldsTypeOK)'
    BY DEF IInv, TypeOK, HostTypeOK, Urbs, PowerTypeOK, FieldsTypeOK
  <2>5. (BytesTypeOK /\ CopyBounded)'
    BY DEF IInv, TypeOK, PcTypeOK, BytesTypeOK, CopyBounded, Owners, Reading
  <2> QED
    BY <2>1, <2>2, <2>3, <2>4, <2>5 DEF IInv, TypeOK
<1>3. CASE ReadLockIuspin(p)
  <2> USE <1>3 DEF ReadLockIuspin, ReadReturn, At, Goto, Free, Release, usb, life, wr, dev,
        power
  <2>1. (PcTypeOK /\ CoreAgrees)'
    BY DEF IInv, TypeOK, PcTypeOK, ProcPc, CorePc, PortPc, CoreAgrees, CoreOpAt
  <2>2. (LocksTypeOK /\ Owners)'
    BY DEF IInv, TypeOK, PcTypeOK, CorePc, LocksTypeOK, Locks, CoreAgrees, CoreOpAt, Owners,
           Reading, Writing, Both
  <2>3. BitsTypeOK'
    BY DEF IInv, TypeOK, BitsTypeOK, Flags, Works
  <2>4. (HostTypeOK /\ PowerTypeOK /\ FieldsTypeOK)'
    BY DEF IInv, TypeOK, HostTypeOK, Urbs, PowerTypeOK, FieldsTypeOK
  <2>5. (BytesTypeOK /\ CopyBounded)'
    BY DEF IInv, TypeOK, PcTypeOK, BytesTypeOK, CopyBounded, Owners, Reading
  <2> QED
    BY <2>1, <2>2, <2>3, <2>4, <2>5 DEF IInv, TypeOK
<1>4. CASE ReadEmpty(p)
  <2> USE <1>4 DEF ReadEmpty, Owed, Refused, Settled, TakeOwed, At, Goto, Free, Acquire,
        Clear, usb, life, wr, dev, power
  <2>1. (PcTypeOK /\ CoreAgrees)'
    BY DEF IInv, TypeOK, PcTypeOK, ProcPc, CorePc, PortPc, CoreAgrees, CoreOpAt
  <2>2. (LocksTypeOK /\ Owners)'
    BY DEF IInv, TypeOK, PcTypeOK, CorePc, LocksTypeOK, Locks, CoreAgrees, CoreOpAt, Owners,
           Reading, Writing, Both
  <2>3. BitsTypeOK'
    BY DEF IInv, TypeOK, BitsTypeOK, Flags, Works
  <2>4. (HostTypeOK /\ PowerTypeOK /\ FieldsTypeOK)'
    BY DEF IInv, TypeOK, HostTypeOK, Urbs, PowerTypeOK, FieldsTypeOK
  <2>5. (BytesTypeOK /\ CopyBounded)'
    BY DEF IInv, TypeOK, PcTypeOK, BytesTypeOK, CopyBounded, Owners, Reading
  <2> QED
    BY <2>1, <2>2, <2>3, <2>4, <2>5 DEF IInv, TypeOK
<1>5. CASE ReadEmptyRelock(p)
  <2> USE <1>5 DEF ReadEmptyRelock, At, Goto, Free, Acquire, Clear, usb, life, wr, dev,
        power
  <2>1. (PcTypeOK /\ CoreAgrees)'
    BY DEF IInv, TypeOK, PcTypeOK, ProcPc, CorePc, PortPc, CoreAgrees, CoreOpAt
  <2>2. (LocksTypeOK /\ Owners)'
    BY DEF IInv, TypeOK, PcTypeOK, CorePc, LocksTypeOK, Locks, CoreAgrees, CoreOpAt, Owners,
           Reading, Writing, Both
  <2>3. BitsTypeOK'
    BY DEF IInv, TypeOK, BitsTypeOK, Flags, Works
  <2>4. (HostTypeOK /\ PowerTypeOK /\ FieldsTypeOK)'
    BY DEF IInv, TypeOK, HostTypeOK, Urbs, PowerTypeOK, FieldsTypeOK
  <2>5. (BytesTypeOK /\ CopyBounded)'
    BY DEF IInv, TypeOK, PcTypeOK, BytesTypeOK, CopyBounded, Owners, Reading
  <2> QED
    BY <2>1, <2>2, <2>3, <2>4, <2>5 DEF IInv, TypeOK
<1>6. CASE ReadTrim(p)
  <2> USE <1>6 DEF ReadTrim, TakeOwed, Owed, Refused, Settled, ReadReturn, At, Goto, Free,
        Release, Clear, usb, life, wr, dev, power
  <2>1. (PcTypeOK /\ CoreAgrees)'
    BY DEF IInv, TypeOK, PcTypeOK, ProcPc, CorePc, PortPc, CoreAgrees, CoreOpAt
  <2>2. (LocksTypeOK /\ Owners)'
    BY DEF IInv, TypeOK, PcTypeOK, CorePc, LocksTypeOK, Locks, CoreAgrees, CoreOpAt, Owners,
           Reading, Writing, Both
  <2>3. BitsTypeOK'
    BY DEF IInv, TypeOK, BitsTypeOK, Flags, Works
  <2>4. (HostTypeOK /\ PowerTypeOK /\ FieldsTypeOK)'
    BY DEF IInv, TypeOK, HostTypeOK, Urbs, PowerTypeOK, FieldsTypeOK
  <2>5. (BytesTypeOK /\ CopyBounded)'
    <3>1. cntr[p] \in Nat /\ cntr[p] <= Len(ubuf)
      BY ConstantTypes DEF IInv, TypeOK, BytesTypeOK, CopyBounded
    <3>2. /\ ubuf' \in Seq(Nat)
          /\ Len(ubuf') = Len(ubuf) - cntr[p]
      BY <3>1, TrimType DEF IInv, TypeOK, BytesTypeOK
    <3>3. BytesTypeOK'
      <4>1. /\ cntr' = cntr \/ cntr' = [cntr EXCEPT ![p] = 0]
            /\ UNCHANGED <<reslength, sent, got, told>>
        OBVIOUS
      <4> HIDE <1>6
      <4>2. /\ cntr \in [Procs -> 0 .. wMaxCommand] /\ Len(ubuf) <= wMaxCommand
            /\ Len(ubuf) \in Nat /\ wMaxCommand \in Nat
        BY ConstantTypes DEF IInv, TypeOK, BytesTypeOK
      <4>3. cntr' \in [Procs -> 0 .. wMaxCommand]
        BY <4>1, <4>2
      <4>4. Len(ubuf') <= wMaxCommand
        BY <3>1, <3>2, <4>2
      <4>5. /\ reslength' \in 0 .. wMaxCommand
            /\ sent' \in Nat /\ got' \in Nat /\ told' \in Nat
        BY <4>1 DEF IInv, TypeOK, BytesTypeOK
      <4> QED
        BY <3>2, <4>3, <4>4, <4>5 DEF BytesTypeOK
    <3>4. CopyBounded'
      BY DEF IInv, TypeOK, PcTypeOK, CopyBounded, Owners, Reading
    <3> QED
      BY <3>3, <3>4
  <2> QED
    BY <2>1, <2>2, <2>3, <2>4, <2>5 DEF IInv, TypeOK
<1>7. CASE ReadDrained(p)
  <2> USE <1>7 DEF ReadDrained, ReadReturn, At, Goto, Free, Release, Clear, usb, life, wr,
        dev, power
  <2>1. (PcTypeOK /\ CoreAgrees)'
    BY DEF IInv, TypeOK, PcTypeOK, ProcPc, CorePc, PortPc, CoreAgrees, CoreOpAt
  <2>2. (LocksTypeOK /\ Owners)'
    BY DEF IInv, TypeOK, PcTypeOK, CorePc, LocksTypeOK, Locks, CoreAgrees, CoreOpAt, Owners,
           Reading, Writing, Both
  <2>3. BitsTypeOK'
    BY DEF IInv, TypeOK, BitsTypeOK, Flags, Works
  <2>4. (HostTypeOK /\ PowerTypeOK /\ FieldsTypeOK)'
    BY DEF IInv, TypeOK, HostTypeOK, Urbs, PowerTypeOK, FieldsTypeOK
  <2>5. (BytesTypeOK /\ CopyBounded)'
    BY DEF IInv, TypeOK, PcTypeOK, BytesTypeOK, CopyBounded, Owners, Reading
  <2> QED
    BY <2>1, <2>2, <2>3, <2>4, <2>5 DEF IInv, TypeOK
<1> QED
  BY <1>1, <1>2, <1>3, <1>4, <1>5, <1>6, <1>7

\* A reader that submits the response URB keeps it.
LEMMA ReadSubmitInv ==
  ASSUME IInv, NEW p \in Procs,
            SubmitOwed(p, "z_submit", "z_ok", "z_fail")
         \/ SubmitOwed(p, "d_submit", "d_ok", "d_fail")
  PROVE  IInv'
<1> USE ThreadsDiffer, ConstantTypes, SubmittedType
<1> USE DEF IInv, TypeOK, PcTypeOK, LocksTypeOK, BitsTypeOK, HostTypeOK, PowerTypeOK,
    FieldsTypeOK, BytesTypeOK, CoreAgrees, CoreOpAt, Owners, CopyBounded, Reading, Writing,
    Both, Locks, Urbs, Works, ProcPc, CorePc, PortPc, Flags, At, Goto, Free, Acquire,
    Release, Set, Clear, locking, usb, life, wr, rsp, buf, dev, power
<1>1. CASE SubmitOwed(p, "z_submit", "z_ok", "z_fail")
  BY <1>1, SMTT(30) DEF SubmitOwed
<1>2. CASE SubmitOwed(p, "d_submit", "d_ok", "d_fail")
  BY <1>2, SMTT(30) DEF SubmitOwed
<1> HIDE DEF IInv
<1> QED
  BY <1>1, <1>2

\* open() and release() keep it.
LEMMA FileInv ==
  ASSUME IInv, NEW p \in Procs,
            OpenCall(p) \/ OpenLock(p) \/ OpenPm(p) \/ OpenCount(p) \/ ReleaseLock(p)
         \/ ReleaseCount(p) \/ ReleaseForget(p) \/ ReleaseUnpoison(p)
  PROVE  IInv'
<1> USE ThreadsDiffer, ConstantTypes, SubmittedType
<1> USE DEF IInv, TypeOK, PcTypeOK, LocksTypeOK, BitsTypeOK, HostTypeOK, PowerTypeOK,
    FieldsTypeOK, BytesTypeOK, CoreAgrees, CoreOpAt, Owners, CopyBounded, Reading, Writing,
    Both, Locks, Urbs, Works, ProcPc, CorePc, PortPc, Flags, At, Goto, Free, Acquire,
    Release, Set, Clear, locking, usb, life, wr, rsp, buf, dev, power
<1>1. CASE OpenCall(p)
  BY <1>1, SMTT(30) DEF OpenCall
<1>2. CASE OpenLock(p)
  BY <1>2, SMTT(30) DEF OpenLock
<1>3. CASE OpenPm(p)
  BY <1>3, SMTT(30) DEF OpenPm, PmReady
<1>4. CASE OpenCount(p)
  <2>1. (PcTypeOK /\ CoreAgrees)'
    BY <1>4, SMTT(30) DEF OpenCount
  <2>2. (LocksTypeOK /\ Owners)'
    BY <1>4, SMTT(30) DEF OpenCount
  <2>3. (BitsTypeOK /\ HostTypeOK /\ PowerTypeOK /\ FieldsTypeOK)'
    BY <1>4, SMTT(30) DEF OpenCount
  <2>4. (BytesTypeOK /\ CopyBounded)'
    BY <1>4, SMTT(30) DEF OpenCount
  <2> QED
    BY <2>1, <2>2, <2>3, <2>4 DEF IInv, TypeOK
<1>5. CASE ReleaseLock(p)
  BY <1>5, SMTT(30) DEF ReleaseLock
<1>6. CASE ReleaseCount(p)
  BY <1>6, SMTT(30) DEF ReleaseCount
<1>7. CASE ReleaseForget(p)
  BY <1>7, SMTT(30) DEF ReleaseForget, Poisoned, Quiet
<1>8. CASE ReleaseUnpoison(p)
  BY <1>8, SMTT(30) DEF ReleaseUnpoison, UnpoisonUrbs, PmReady
<1> HIDE DEF IInv
<1> QED
  BY <1>1, <1>2, <1>3, <1>4, <1>5, <1>6, <1>7, <1>8

\* poison_urbs keeps it, for each of the threads that call it.
LEMMA PoisonInv ==
  ASSUME IInv, NEW p \in Procs,
         PoisonUrbs(p)
  PROVE  IInv'
<1> USE ThreadsDiffer, ConstantTypes, SubmittedType
<1>1. CASE PoisonUrbs(p)
  <2> USE <1>1 DEF PoisonUrbs, PoisonUrb, Quiet, At, Goto, life, wr, rsp, buf, dev, power
  <2>1. (PcTypeOK /\ CoreAgrees)'
    BY DEF IInv, TypeOK, PcTypeOK, ProcPc, CorePc, PortPc, CoreAgrees, CoreOpAt
  <2>2. (LocksTypeOK /\ Owners)'
    BY DEF IInv, TypeOK, PcTypeOK, CorePc, LocksTypeOK, Locks, CoreAgrees, CoreOpAt, Owners,
           Reading, Writing, Both
  <2>3. BitsTypeOK'
    BY DEF IInv, TypeOK, BitsTypeOK, Flags, Works
  <2>4. (HostTypeOK /\ PowerTypeOK /\ FieldsTypeOK)'
    BY DEF IInv, TypeOK, HostTypeOK, Urbs, PowerTypeOK, FieldsTypeOK
  <2>5. (BytesTypeOK /\ CopyBounded)'
    BY DEF IInv, TypeOK, PcTypeOK, BytesTypeOK, CopyBounded, Owners, Reading
  <2> QED
    BY <2>1, <2>2, <2>3, <2>4, <2>5 DEF IInv, TypeOK
<1> QED
  BY <1>1

\* The completion handlers keep it.
LEMMA CallbackInv ==
  ASSUME IInv,
         OutCallback \/ WwanTxComplete \/ InCallback \/ IntComplete \/ IntExit
  PROVE  IInv'
<1> USE ThreadsDiffer, ConstantTypes, SubmittedType
<1>1. CASE OutCallback
  <2> USE <1>1 DEF OutCallback, OutWake, OutFree, OutStatus, Complete, At, Goto, Free,
        Clear, usb, life, wr, rsp, buf, dev, power
  <2>1. (PcTypeOK /\ CoreAgrees)'
    BY DEF IInv, TypeOK, PcTypeOK, ProcPc, CorePc, PortPc, CoreAgrees, CoreOpAt
  <2>2. (LocksTypeOK /\ Owners)'
    BY DEF IInv, TypeOK, PcTypeOK, CorePc, LocksTypeOK, Locks, CoreAgrees, CoreOpAt, Owners,
           Reading, Writing, Both
  <2>3. BitsTypeOK'
    BY DEF IInv, TypeOK, BitsTypeOK, Flags, Works
  <2>4. (HostTypeOK /\ PowerTypeOK /\ FieldsTypeOK)'
    <3>1. HostTypeOK'
      BY DEF IInv, TypeOK, HostTypeOK, Urbs
    <3>2. PowerTypeOK'
      BY DEF IInv, TypeOK, PowerTypeOK
    <3>3. FieldsTypeOK'
      BY DEF IInv, TypeOK, FieldsTypeOK
    <3> QED
      BY <3>1, <3>2, <3>3
  <2>5. (BytesTypeOK /\ CopyBounded)'
    BY DEF IInv, TypeOK, PcTypeOK, BytesTypeOK, CopyBounded, Owners, Reading
  <2> QED
    BY <2>1, <2>2, <2>3, <2>4, <2>5 DEF IInv, TypeOK
<1>2. CASE WwanTxComplete
  <2> USE <1>2 DEF WwanTxComplete, Complete, locking, life, rsp, buf, dev
  <2>1. (PcTypeOK /\ CoreAgrees)'
    BY DEF IInv, TypeOK, PcTypeOK, ProcPc, CorePc, PortPc, CoreAgrees, CoreOpAt
  <2>2. (LocksTypeOK /\ Owners)'
    BY DEF IInv, TypeOK, PcTypeOK, CorePc, LocksTypeOK, Locks, CoreAgrees, CoreOpAt, Owners,
           Reading, Writing, Both
  <2>3. BitsTypeOK'
    BY DEF IInv, TypeOK, BitsTypeOK, Flags, Works
  <2>4. (HostTypeOK /\ PowerTypeOK /\ FieldsTypeOK)'
    <3>1. HostTypeOK'
      BY DEF IInv, TypeOK, HostTypeOK, Urbs
    <3>2. PowerTypeOK'
      BY DEF IInv, TypeOK, PowerTypeOK
    <3>3. FieldsTypeOK'
      BY DEF IInv, TypeOK, FieldsTypeOK
    <3> QED
      BY <3>1, <3>2, <3>3
  <2>5. (BytesTypeOK /\ CopyBounded)'
    BY DEF IInv, TypeOK, PcTypeOK, BytesTypeOK, CopyBounded, Owners, Reading
  <2> QED
    BY <2>1, <2>2, <2>3, <2>4, <2>5 DEF IInv, TypeOK
<1>3. CASE InCallback
  <2> USE <1>3 DEF InCallback, InForwarded, InTaken, InOutcomes, InAnswered, Overflows,
        InSignal, InData, Bytes, InUnlinked, Complete, Free, Clear, locking, life, wr, power
  <2>1. (PcTypeOK /\ CoreAgrees)'
    BY DEF IInv, TypeOK, PcTypeOK, ProcPc, CorePc, PortPc, CoreAgrees, CoreOpAt
  <2>2. (LocksTypeOK /\ Owners)'
    BY DEF IInv, TypeOK, PcTypeOK, CorePc, LocksTypeOK, Locks, CoreAgrees, CoreOpAt, Owners,
           Reading, Writing, Both
  <2>3. BitsTypeOK'
    BY DEF IInv, TypeOK, BitsTypeOK, Flags, Works
  <2>4. (HostTypeOK /\ PowerTypeOK /\ FieldsTypeOK)'
    BY DEF IInv, TypeOK, HostTypeOK, Urbs, PowerTypeOK, FieldsTypeOK
  <2>5. (BytesTypeOK /\ CopyBounded)'
    <3>1. /\ ubuf' \in Seq(Nat) /\ Len(ubuf') <= wMaxCommand
          /\ Len(ubuf) <= Len(ubuf') /\ reslength' \in 0 .. wMaxCommand
      <4>1. CASE InUnlinked \/ InForwarded
        BY <4>1 DEF IInv, TypeOK, BytesTypeOK
      <4>2. CASE InAnswered
        BY <4>2, AnswersKnown, InDataType DEF IInv, TypeOK
      <4> QED
        BY <4>1, <4>2
    <3>2. sent' \in Nat /\ got' \in Nat /\ told' \in Nat
      BY AnswersKnown DEF IInv, TypeOK, BytesTypeOK
    <3> QED
      BY <3>1, <3>2 DEF IInv, TypeOK, BytesTypeOK, CopyBounded
  <2> QED
    BY <2>1, <2>2, <2>3, <2>4, <2>5 DEF IInv, TypeOK
<1>4. CASE IntComplete
  <2> USE <1>4 DEF IntComplete, Complete, IntFault, IntUnlinked, IntNotified, IntRespond,
        At, Goto, Free, Set, life, wr, buf, dev, power
  <2>1. (PcTypeOK /\ CoreAgrees)'
    BY SubmitResultsKnown DEF IInv, TypeOK, PcTypeOK, ProcPc, CorePc, PortPc, CoreAgrees,
           CoreOpAt
  <2>2. (LocksTypeOK /\ Owners)'
    BY DEF IInv, TypeOK, PcTypeOK, CorePc, LocksTypeOK, Locks, CoreAgrees, CoreOpAt, Owners,
           Reading, Writing, Both
  <2>3. BitsTypeOK'
    BY DEF IInv, TypeOK, BitsTypeOK, Flags, Works
  <2>4. (HostTypeOK /\ PowerTypeOK /\ FieldsTypeOK)'
    <3>1. HostTypeOK'
      <4>1. CASE IntNotified
        <5>1. CASE \E rv : urb' = [Submitted("response", rv) EXCEPT !["validity"] = FALSE]
          BY <5>1, <4>1 DEF IInv, TypeOK, HostTypeOK, Urbs
        <5>2. CASE urb' = [urb EXCEPT !["validity"] = FALSE]
          BY <5>2 DEF IInv, TypeOK, HostTypeOK, Urbs
        <5> QED
          BY <4>1, <5>1, <5>2
      <4>2. CASE IntUnlinked \/ IntFault
        BY <4>2 DEF IInv, TypeOK, HostTypeOK, Urbs
      <4> QED
        BY <4>1, <4>2
    <3>2. PowerTypeOK'
      BY DEF IInv, TypeOK, PowerTypeOK
    <3>3. FieldsTypeOK'
      BY DEF IInv, TypeOK, FieldsTypeOK
    <3> QED
      BY <3>1, <3>2, <3>3
  <2>5. (BytesTypeOK /\ CopyBounded)'
    BY DEF IInv, TypeOK, PcTypeOK, BytesTypeOK, CopyBounded, Owners, Reading
  <2> QED
    BY <2>1, <2>2, <2>3, <2>4, <2>5 DEF IInv, TypeOK
<1>5. CASE IntExit
  <2> USE <1>5 DEF IntExit, At, Goto, Clear, life, wr, rsp, buf, dev, power
  <2>1. (PcTypeOK /\ CoreAgrees)'
    BY DEF IInv, TypeOK, PcTypeOK, ProcPc, CorePc, PortPc, CoreAgrees, CoreOpAt
  <2>2. (LocksTypeOK /\ Owners)'
    BY DEF IInv, TypeOK, PcTypeOK, CorePc, LocksTypeOK, Locks, CoreAgrees, CoreOpAt, Owners,
           Reading, Writing, Both
  <2>3. BitsTypeOK'
    BY DEF IInv, TypeOK, BitsTypeOK, Flags, Works
  <2>4. (HostTypeOK /\ PowerTypeOK /\ FieldsTypeOK)'
    BY DEF IInv, TypeOK, HostTypeOK, Urbs, PowerTypeOK, FieldsTypeOK
  <2>5. (BytesTypeOK /\ CopyBounded)'
    BY DEF IInv, TypeOK, PcTypeOK, BytesTypeOK, CopyBounded, Owners, Reading
  <2> QED
    BY <2>1, <2>2, <2>3, <2>4, <2>5 DEF IInv, TypeOK
<1> QED
  BY <1>1, <1>2, <1>3, <1>4, <1>5

\* The work items keep it: submissions.
LEMMA WorkInv ==
  ASSUME IInv,
         RxSubmit \/ RxFail \/ SubmitOwed("svc", "svc_submit", "svc_ok", "svc_fail")
  PROVE  IInv'
<1> USE ThreadsDiffer, ConstantTypes, SubmittedType
<1> USE DEF IInv, TypeOK, PcTypeOK, LocksTypeOK, BitsTypeOK, HostTypeOK, PowerTypeOK,
    FieldsTypeOK, BytesTypeOK, CoreAgrees, CoreOpAt, Owners, CopyBounded, Reading, Writing,
    Both, Locks, Urbs, Works, ProcPc, CorePc, PortPc, Flags, At, Goto, Free, Acquire,
    Release, Set, Clear, locking, usb, life, wr, rsp, buf, dev, power
<1>1. CASE RxSubmit
  BY <1>1, SMTT(30) DEF RxSubmit
<1>2. CASE RxFail
  BY <1>2, SMTT(30) DEF RxFail
<1>3. CASE SubmitOwed("svc", "svc_submit", "svc_ok", "svc_fail")
  BY <1>3, SMTT(30) DEF SubmitOwed
<1> HIDE DEF IInv
<1> QED
  BY <1>1, <1>2, <1>3

\* The work items keep it: the stretches under iuspin.
LEMMA WorkInvByPart ==
  ASSUME IInv,
         RxStart \/ SvcStart \/ SvcEnd
  PROVE  IInv'
<1> USE ThreadsDiffer, ConstantTypes, SubmittedType
<1>1. CASE RxStart
  <2> USE <1>1 DEF RxStart, At, Goto, Free, Set, usb, life, wr, rsp, buf, dev, power
  <2>1. (PcTypeOK /\ CoreAgrees)'
    BY DEF IInv, TypeOK, PcTypeOK, ProcPc, CorePc, PortPc, CoreAgrees, CoreOpAt
  <2>2. (LocksTypeOK /\ Owners)'
    BY DEF IInv, TypeOK, PcTypeOK, CorePc, LocksTypeOK, Locks, CoreAgrees, CoreOpAt, Owners,
           Reading, Writing, Both
  <2>3. BitsTypeOK'
    BY DEF IInv, TypeOK, BitsTypeOK, Flags, Works
  <2>4. (HostTypeOK /\ PowerTypeOK /\ FieldsTypeOK)'
    BY DEF IInv, TypeOK, HostTypeOK, Urbs, PowerTypeOK, FieldsTypeOK
  <2>5. (BytesTypeOK /\ CopyBounded)'
    BY DEF IInv, TypeOK, PcTypeOK, BytesTypeOK, CopyBounded, Owners, Reading
  <2> QED
    BY <2>1, <2>2, <2>3, <2>4, <2>5 DEF IInv, TypeOK
<1>2. CASE SvcStart
  <2> USE <1>2 DEF SvcStart, Owed, Refused, Settled, TakeOwed, At, Goto, Free, Set, usb,
        life, wr, buf, dev, power
  <2>1. (PcTypeOK /\ CoreAgrees)'
    BY DEF IInv, TypeOK, PcTypeOK, ProcPc, CorePc, PortPc, CoreAgrees, CoreOpAt
  <2>2. (LocksTypeOK /\ Owners)'
    BY DEF IInv, TypeOK, PcTypeOK, CorePc, LocksTypeOK, Locks, CoreAgrees, CoreOpAt, Owners,
           Reading, Writing, Both
  <2>3. BitsTypeOK'
    BY DEF IInv, TypeOK, BitsTypeOK, Flags, Works
  <2>4. (HostTypeOK /\ PowerTypeOK /\ FieldsTypeOK)'
    BY DEF IInv, TypeOK, HostTypeOK, Urbs, PowerTypeOK, FieldsTypeOK
  <2>5. (BytesTypeOK /\ CopyBounded)'
    BY DEF IInv, TypeOK, PcTypeOK, BytesTypeOK, CopyBounded, Owners, Reading
  <2> QED
    BY <2>1, <2>2, <2>3, <2>4, <2>5 DEF IInv, TypeOK
<1>3. CASE SvcEnd
  <2> USE <1>3 DEF SvcEnd, At, Goto, Free, Set, usb, life, wr, buf, dev, power
  <2>1. (PcTypeOK /\ CoreAgrees)'
    BY DEF IInv, TypeOK, PcTypeOK, ProcPc, CorePc, PortPc, CoreAgrees, CoreOpAt
  <2>2. (LocksTypeOK /\ Owners)'
    BY DEF IInv, TypeOK, PcTypeOK, CorePc, LocksTypeOK, Locks, CoreAgrees, CoreOpAt, Owners,
           Reading, Writing, Both
  <2>3. BitsTypeOK'
    BY DEF IInv, TypeOK, BitsTypeOK, Flags, Works
  <2>4. (HostTypeOK /\ PowerTypeOK /\ FieldsTypeOK)'
    BY DEF IInv, TypeOK, HostTypeOK, Urbs, PowerTypeOK, FieldsTypeOK
  <2>5. (BytesTypeOK /\ CopyBounded)'
    BY DEF IInv, TypeOK, PcTypeOK, BytesTypeOK, CopyBounded, Owners, Reading
  <2> QED
    BY <2>1, <2>2, <2>3, <2>4, <2>5 DEF IInv, TypeOK
<1> QED
  BY <1>1, <1>2, <1>3

\* The WWAN port keeps it.
LEMMA WwanInv ==
  ASSUME IInv,
            WwanStart \/ WwanTx \/ WwanTxOff \/ WwanStop \/ WwanLeave("wwan")
         \/ WwanUnpoison("wwan")
  PROVE  IInv'
<1> USE ThreadsDiffer, ConstantTypes, SubmittedType
<1> USE DEF IInv, TypeOK, PcTypeOK, LocksTypeOK, BitsTypeOK, HostTypeOK, PowerTypeOK,
    FieldsTypeOK, BytesTypeOK, CoreAgrees, CoreOpAt, Owners, CopyBounded, Reading, Writing,
    Both, Locks, Urbs, Works, ProcPc, CorePc, PortPc, Flags, At, Goto, Free, Acquire,
    Release, Set, Clear, locking, usb, life, wr, rsp, buf, dev, power
<1>1. CASE WwanStart
  BY <1>1, SMTT(30) DEF WwanStart
<1>2. CASE WwanTx
  BY <1>2, SMTT(30) DEF WwanTx, PmReady
<1>3. CASE WwanTxOff
  BY <1>3, SMTT(30) DEF WwanTxOff
<1>4. CASE WwanStop
  BY <1>4, SMTT(30) DEF WwanStop
<1>5. CASE WwanLeave("wwan")
  BY <1>5, SMTT(30) DEF WwanLeave, PmReady, Poisoned, Quiet, Stopping
<1>6. CASE WwanUnpoison("wwan")
  BY <1>6, SMTT(30) DEF WwanUnpoison, UnpoisonUrbs
<1> HIDE DEF IInv
<1> QED
  BY <1>1, <1>2, <1>3, <1>4, <1>5, <1>6

\* Starting the WWAN port keeps it.
LEMMA WwanInvByPart ==
  ASSUME IInv,
         WwanClaim \/ WwanListen \/ PoisonUrbs("wwan")
  PROVE  IInv'
<1> USE ThreadsDiffer, ConstantTypes, SubmittedType
<1>1. CASE WwanClaim
  <2> USE <1>1 DEF WwanClaim, At, Goto, Free, Release, Set, usb, life, wr, rsp, buf, dev,
        power
  <2>1. (PcTypeOK /\ CoreAgrees)'
    BY DEF IInv, TypeOK, PcTypeOK, ProcPc, CorePc, PortPc, CoreAgrees, CoreOpAt
  <2>2. (LocksTypeOK /\ Owners)'
    BY DEF IInv, TypeOK, PcTypeOK, CorePc, LocksTypeOK, Locks, CoreAgrees, CoreOpAt, Owners,
           Reading, Writing, Both
  <2>3. BitsTypeOK'
    BY DEF IInv, TypeOK, BitsTypeOK, Flags, Works
  <2>4. (HostTypeOK /\ PowerTypeOK /\ FieldsTypeOK)'
    BY DEF IInv, TypeOK, HostTypeOK, Urbs, PowerTypeOK, FieldsTypeOK
  <2>5. (BytesTypeOK /\ CopyBounded)'
    BY DEF IInv, TypeOK, PcTypeOK, BytesTypeOK, CopyBounded, Owners, Reading
  <2> QED
    BY <2>1, <2>2, <2>3, <2>4, <2>5 DEF IInv, TypeOK
<1>2. CASE WwanListen
  <2> USE <1>2 DEF WwanListen, PmReady, At, Goto, Release, life, rsp, buf, dev, power
  <2>1. (PcTypeOK /\ CoreAgrees)'
    BY DEF IInv, TypeOK, PcTypeOK, ProcPc, CorePc, PortPc, CoreAgrees, CoreOpAt
  <2>2. (LocksTypeOK /\ Owners)'
    BY DEF IInv, TypeOK, PcTypeOK, CorePc, LocksTypeOK, Locks, CoreAgrees, CoreOpAt, Owners,
           Reading, Writing, Both
  <2>3. BitsTypeOK'
    BY DEF IInv, TypeOK, BitsTypeOK, Flags, Works
  <2>4. (HostTypeOK /\ PowerTypeOK /\ FieldsTypeOK)'
    <3>1. HostTypeOK'
      BY DEF IInv, TypeOK, HostTypeOK, Urbs
    <3>2. PowerTypeOK'
      BY DEF IInv, TypeOK, PowerTypeOK
    <3>3. FieldsTypeOK'
      BY DEF IInv, TypeOK, FieldsTypeOK
    <3> QED
      BY <3>1, <3>2, <3>3
  <2>5. (BytesTypeOK /\ CopyBounded)'
    BY DEF IInv, TypeOK, PcTypeOK, BytesTypeOK, CopyBounded, Owners, Reading
  <2> QED
    BY <2>1, <2>2, <2>3, <2>4, <2>5 DEF IInv, TypeOK
<1>3. CASE PoisonUrbs("wwan")
  <2> USE <1>3 DEF PoisonUrbs, PoisonUrb, Quiet, At, Goto, life, wr, rsp, buf, dev, power
  <2>1. (PcTypeOK /\ CoreAgrees)'
    BY DEF IInv, TypeOK, PcTypeOK, ProcPc, CorePc, PortPc, CoreAgrees, CoreOpAt
  <2>2. (LocksTypeOK /\ Owners)'
    BY DEF IInv, TypeOK, PcTypeOK, CorePc, LocksTypeOK, Locks, CoreAgrees, CoreOpAt, Owners,
           Reading, Writing, Both
  <2>3. BitsTypeOK'
    BY DEF IInv, TypeOK, BitsTypeOK, Flags, Works
  <2>4. (HostTypeOK /\ PowerTypeOK /\ FieldsTypeOK)'
    BY DEF IInv, TypeOK, HostTypeOK, Urbs, PowerTypeOK, FieldsTypeOK
  <2>5. (BytesTypeOK /\ CopyBounded)'
    BY DEF IInv, TypeOK, PcTypeOK, BytesTypeOK, CopyBounded, Owners, Reading
  <2> QED
    BY <2>1, <2>2, <2>3, <2>4, <2>5 DEF IInv, TypeOK
<1> QED
  BY <1>1, <1>2, <1>3

\* Suspend, resume, reset and disconnect keep it.
LEMMA CoreInv ==
  ASSUME IInv,
            CoreMutex \/ CoreDeinit \/ CoreRlock \/ CoreWlock \/ WwanLeave("core")
         \/ WwanUnpoison("core") \/ CoreUnpoison \/ CorePost \/ CoreResume
         \/ CoreRecount \/ CoreResubmit
  PROVE  IInv'
<1> USE ThreadsDiffer, ConstantTypes, SubmittedType
<1> USE DEF IInv, TypeOK, PcTypeOK, LocksTypeOK, BitsTypeOK, HostTypeOK, PowerTypeOK,
    FieldsTypeOK, BytesTypeOK, CoreAgrees, CoreOpAt, Owners, CopyBounded, Reading, Writing,
    Both, Locks, Urbs, Works, ProcPc, CorePc, PortPc, Flags, At, Goto, Free, Acquire,
    Release, Set, Clear, locking, usb, life, wr, rsp, buf, dev, power
<1>1. CASE CoreMutex
  BY <1>1, SMTT(30) DEF CoreMutex
<1>2. CASE CoreDeinit
  BY <1>2, SMTT(60) DEF CoreDeinit
<1>3. CASE CoreRlock
  BY <1>3, SMTT(30) DEF CoreRlock
<1>4. CASE CoreWlock
  BY <1>4, SMTT(30) DEF CoreWlock
<1>5. CASE WwanLeave("core")
  BY <1>5, SMTT(30) DEF WwanLeave, PmReady, Poisoned, Quiet, Stopping
<1>6. CASE WwanUnpoison("core")
  BY <1>6, SMTT(60) DEF WwanUnpoison, UnpoisonUrbs
<1>7. CASE CoreUnpoison
  BY <1>7, SMTT(30) DEF CoreUnpoison, UnpoisonUrbs
<1>8. CASE CorePost
  BY <1>8, SMTT(30) DEF CorePost, Recovered
<1>9. CASE CoreResume
  BY <1>9, SMTT(30) DEF CoreResume
<1>10. CASE CoreRecount
  BY <1>10, SMTT(30) DEF CoreRecount
<1>11. CASE CoreResubmit
  BY <1>11, SMTT(30) DEF CoreResubmit
<1> HIDE DEF IInv
<1> QED
  BY <1>1, <1>2, <1>3, <1>4, <1>5, <1>6, <1>7, <1>8, <1>9, <1>10, <1>11

\* Their first and last stretches keep it.
LEMMA CoreInvByPart ==
  ASSUME IInv,
         CoreFlag \/ PoisonUrbs("core") \/ CoreCancel \/ CoreEnd
  PROVE  IInv'
<1> USE ThreadsDiffer, ConstantTypes, SubmittedType
<1>1. CASE CoreFlag
  <2> USE <1>1 DEF CoreFlag, At, Goto, Free, Set, usb, life, wr, buf, dev
  <2>1. (PcTypeOK /\ CoreAgrees)'
    BY DEF IInv, TypeOK, PcTypeOK, ProcPc, CorePc, PortPc, CoreAgrees, CoreOpAt
  <2>2. (LocksTypeOK /\ Owners)'
    BY DEF IInv, TypeOK, PcTypeOK, CorePc, LocksTypeOK, Locks, CoreAgrees, CoreOpAt, Owners,
           Reading, Writing, Both
  <2>3. BitsTypeOK'
    BY DEF IInv, TypeOK, BitsTypeOK, Flags, Works
  <2>4. (HostTypeOK /\ PowerTypeOK /\ FieldsTypeOK)'
    BY DEF IInv, TypeOK, HostTypeOK, Urbs, PowerTypeOK, FieldsTypeOK
  <2>5. (BytesTypeOK /\ CopyBounded)'
    BY DEF IInv, TypeOK, PcTypeOK, BytesTypeOK, CopyBounded, Owners, Reading
  <2> QED
    BY <2>1, <2>2, <2>3, <2>4, <2>5 DEF IInv, TypeOK
<1>2. CASE PoisonUrbs("core")
  <2> USE <1>2 DEF PoisonUrbs, PoisonUrb, Quiet, At, Goto, life, wr, rsp, buf, dev, power
  <2>1. (PcTypeOK /\ CoreAgrees)'
    BY DEF IInv, TypeOK, PcTypeOK, ProcPc, CorePc, PortPc, CoreAgrees, CoreOpAt
  <2>2. (LocksTypeOK /\ Owners)'
    BY DEF IInv, TypeOK, PcTypeOK, CorePc, LocksTypeOK, Locks, CoreAgrees, CoreOpAt, Owners,
           Reading, Writing, Both
  <2>3. BitsTypeOK'
    BY DEF IInv, TypeOK, BitsTypeOK, Flags, Works
  <2>4. (HostTypeOK /\ PowerTypeOK /\ FieldsTypeOK)'
    BY DEF IInv, TypeOK, HostTypeOK, Urbs, PowerTypeOK, FieldsTypeOK
  <2>5. (BytesTypeOK /\ CopyBounded)'
    BY DEF IInv, TypeOK, PcTypeOK, BytesTypeOK, CopyBounded, Owners, Reading
  <2> QED
    BY <2>1, <2>2, <2>3, <2>4, <2>5 DEF IInv, TypeOK
<1>3. CASE CoreCancel
  <2> USE <1>3 DEF CoreCancel, CancelWork, Poisoned, Quiet, At, Goto, usb, life, wr, rsp,
        buf, dev, power
  <2>1. (PcTypeOK /\ CoreAgrees)'
    BY DEF IInv, TypeOK, PcTypeOK, ProcPc, CorePc, PortPc, CoreAgrees, CoreOpAt
  <2>2. (LocksTypeOK /\ Owners)'
    BY DEF IInv, TypeOK, PcTypeOK, CorePc, LocksTypeOK, Locks, CoreAgrees, CoreOpAt, Owners,
           Reading, Writing, Both
  <2>3. BitsTypeOK'
    BY DEF IInv, TypeOK, BitsTypeOK, Flags, Works
  <2>4. (HostTypeOK /\ PowerTypeOK /\ FieldsTypeOK)'
    BY DEF IInv, TypeOK, HostTypeOK, Urbs, PowerTypeOK, FieldsTypeOK
  <2>5. (BytesTypeOK /\ CopyBounded)'
    BY DEF IInv, TypeOK, PcTypeOK, BytesTypeOK, CopyBounded, Owners, Reading
  <2> QED
    BY <2>1, <2>2, <2>3, <2>4, <2>5 DEF IInv, TypeOK
<1>4. CASE CoreEnd
  <2> USE <1>4 DEF CoreEnd, At, Goto, Release, usb, wr, rsp, buf, dev
  <2>1. (PcTypeOK /\ CoreAgrees)'
    BY DEF IInv, TypeOK, PcTypeOK, ProcPc, CorePc, PortPc, CoreAgrees, CoreOpAt
  <2>2. (LocksTypeOK /\ Owners)'
    BY DEF IInv, TypeOK, PcTypeOK, CorePc, LocksTypeOK, Locks, CoreAgrees, CoreOpAt, Owners,
           Reading, Writing, Both
  <2>3. BitsTypeOK'
    BY DEF IInv, TypeOK, BitsTypeOK, Flags, Works
  <2>4. (HostTypeOK /\ PowerTypeOK /\ FieldsTypeOK)'
    BY DEF IInv, TypeOK, HostTypeOK, Urbs, PowerTypeOK, FieldsTypeOK
  <2>5. (BytesTypeOK /\ CopyBounded)'
    BY DEF IInv, TypeOK, PcTypeOK, BytesTypeOK, CopyBounded, Owners, Reading
  <2> QED
    BY <2>1, <2>2, <2>3, <2>4, <2>5 DEF IInv, TypeOK
<1> QED
  BY <1>1, <1>2, <1>3, <1>4

\* Whatever the USB core asks next, it is kept.
LEMMA CoreBeginInv ==
  ASSUME IInv, NEW op \in CoreOps,
         CoreBegin(op)
  PROVE  IInv'
<1> USE ThreadsDiffer, ConstantTypes, SubmittedType
<1>1. CASE CoreBegin(op)
  <2> USE <1>1 DEF CoreBegin, CoreFirst, At, Goto, usb, life, wr, rsp, buf, dev
  <2>1. (PcTypeOK /\ CoreAgrees)'
    BY DEF IInv, TypeOK, PcTypeOK, ProcPc, CorePc, PortPc, CoreAgrees, CoreOpAt
  <2>2. (LocksTypeOK /\ Owners)'
    BY DEF IInv, TypeOK, PcTypeOK, CorePc, LocksTypeOK, Locks, CoreAgrees, CoreOpAt, Owners,
           Reading, Writing, Both
  <2>3. BitsTypeOK'
    BY DEF IInv, TypeOK, BitsTypeOK, Flags, Works
  <2>4. (HostTypeOK /\ PowerTypeOK /\ FieldsTypeOK)'
    BY DEF IInv, TypeOK, HostTypeOK, Urbs, PowerTypeOK, FieldsTypeOK
  <2>5. (BytesTypeOK /\ CopyBounded)'
    BY DEF IInv, TypeOK, PcTypeOK, BytesTypeOK, CopyBounded, Owners, Reading
  <2> QED
    BY <2>1, <2>2, <2>3, <2>4, <2>5 DEF IInv, TypeOK
<1> QED
  BY <1>1

-----------------------------------------------------------------------------
\* wdm_create leaves a device that satisfies the invariant.
LEMMA InitIInv == Init => IInv
<1> SUFFICES ASSUME Init PROVE IInv
  OBVIOUS
<1> USE ThreadsDiffer, ConstantTypes DEF Init
<1>1. TypeOK
  <2>1. PcTypeOK
    BY DEF PcTypeOK, ProcPc, CorePc, PortPc, Threads
  <2>2. LocksTypeOK /\ BitsTypeOK /\ HostTypeOK
    BY DEF LocksTypeOK, BitsTypeOK, HostTypeOK
  <2>3. PowerTypeOK
    <3>1. MaxNotes \in Nat /\ MaxCoreOps \in Nat
      BY ConstantsAssumption
    <3> QED
      BY <3>1 DEF PowerTypeOK
  <2>4. FieldsTypeOK
    <3>1. alive \in BOOLEAN /\ listed \in BOOLEAN /\ txoff \in BOOLEAN
      BY Zenon
    <3>2. /\ count \in Int
          /\ werr \in {0, -1} /\ rerr \in {0, -1} /\ resp_count \in Nat
          /\ outbuf \in Procs \cup {None} /\ handler \in {"write", "wwan"}
      OBVIOUS
    <3> QED
      BY <3>1, <3>2 DEF FieldsTypeOK
  <2>5. BytesTypeOK
    BY DEF BytesTypeOK
  <2> QED
    BY <2>1, <2>2, <2>3, <2>4, <2>5 DEF TypeOK
<1>2. CoreAgrees /\ Owners /\ CopyBounded
  BY DEF CoreAgrees, CoreOpAt, Owners, CopyBounded, Reading, Writing, Both, Threads
<1> QED
  BY <1>1, <1>2 DEF IInv

\* Every step of the driver, its users and the USB core keeps the invariant.
LEMMA NextIInv == IInv /\ [Next]_vars => IInv'
<1> SUFFICES ASSUME IInv, [Next]_vars PROVE IInv'
  OBVIOUS
<1>1. ASSUME NEW p \in Procs, ProcStep(p) \/ ProcCall(p) PROVE IInv'
  <2>1. CASE WriteStep(p) \/ WriteCall(p)
    BY <2>1, WriteInv, WriteInvByPart, AwaitInv DEF WriteStep, WriteCall
  <2>2. CASE ReadStep(p) \/ ReadCall(p)
    BY <2>2, ReadInv, ReadInvByPart, ReadSubmitInv DEF ReadStep, ReadCall
  <2>3. CASE FileStep(p) \/ OpenCall(p)
    BY <2>3, FileInv, PoisonInv DEF FileStep
  <2> QED
    BY <1>1, <2>1, <2>2, <2>3 DEF ProcStep, ProcCall
<1>2. CASE OutCallback \/ WwanTxComplete \/ InCallback \/ IntCallback
  BY <1>2, CallbackInv DEF IntCallback
<1>3. CASE WorkStep
  BY <1>3, WorkInv, WorkInvByPart DEF WorkStep, RxStep, SvcStep
<1>4. CASE WwanCall \/ WwanStep
  BY <1>4, WwanInv, WwanInvByPart DEF WwanCall, WwanStep
<1>5. CASE CoreStep
  BY <1>5, CoreInv, CoreInvByPart DEF CoreStep
<1>6. ASSUME NEW op \in CoreOps, CoreBegin(op) PROVE IInv'
  BY <1>6, CoreBeginInv
<1>7. CASE UNCHANGED vars
  <2> USE <1>7 DEF vars, locking, usb, life, wr, rsp, buf, dev, power
  <2>1. PcTypeOK' /\ LocksTypeOK' /\ BitsTypeOK' /\ HostTypeOK'
    BY DEF IInv, TypeOK, PcTypeOK, LocksTypeOK, BitsTypeOK, HostTypeOK
  <2>2. PowerTypeOK' /\ FieldsTypeOK' /\ BytesTypeOK'
    BY DEF IInv, TypeOK, PowerTypeOK, FieldsTypeOK, BytesTypeOK
  <2>3. CoreAgrees' /\ Owners' /\ CopyBounded'
    BY DEF IInv, CoreAgrees, Owners, CopyBounded
  <2> QED
    BY <2>1, <2>2, <2>3 DEF IInv, TypeOK
<1> QED
  BY <1>1, <1>2, <1>3, <1>4, <1>5, <1>6, <1>7 DEF Next

\* The invariant holds in every reachable state.
THEOREM Invariant == Spec => []IInv
BY InitIInv, NextIInv, PTL DEF Spec

\* Every variable keeps its type; in particular ubuf never holds more than the
\* wMaxCommand bytes that wdm_create allocated (1111), whatever the device
\* answers and however the readers interleave (259-269, 654-659).
THEOREM TypeCorrect == Spec => []TypeOK
<1>1. IInv => TypeOK
  BY DEF IInv
<1> QED
  BY <1>1, Invariant, PTL

\* A read between its copy and its trim has never copied more bytes than ubuf
\* holds (648, 656-659), whatever completes in between.
THEOREM CopyNeverExceeds == Spec => []CopyBounded
<1>1. IInv => CopyBounded
  BY DEF IInv
<1> QED
  BY <1>1, Invariant, PTL

-----------------------------------------------------------------------------
(* The bytes reach the readers in order.  ReadCopy hands bytes out before     *)
(* ReadTrim takes them from ubuf, and answers are appended in between, so     *)
(* what the last copy handed out (got) is related to ubuf by where the        *)
(* reader is: Front and Copied.  NextFollows carries the order over a gap     *)
(* until a reader has been told of it.  A reset clears OVERFLOW without       *)
(* telling anyone (1394), and a port takes bytes past ubuf (1002): neither    *)
(* is in this part.                                                           *)

\* The last byte the driver has kept for a reader, or given to one.
LastKept == IF ubuf = <<>> THEN got ELSE ubuf[Len(ubuf)]

Sane ==
  /\ pc["wwan"] \in {"stopped", "removed"} /\ "WWAN_IN_USE" \notin flags
  /\ coreOp # "reset"
  /\ got <= sent /\ told <= sent
  /\ \A i \in 1 .. Len(ubuf) : ubuf[i] <= sent

NextFollows == "OVERFLOW" \notin flags => Follows(sent + 1, LastKept)

NoGap == \A i \in 1 .. Len(ubuf) - 1 : Follows(ubuf[i + 1], ubuf[i])

Front ==
  ubuf # <<>> /\ (\A p \in Procs : pc[p] # "r_trim") => Follows(ubuf[1], got)

Copied ==
  \A p \in Procs : pc[p] = "r_trim" =>
    \/ cntr[p] = 0 /\ (ubuf # <<>> => Follows(ubuf[1], got))
    \/ cntr[p] > 0 /\ got = ubuf[cntr[p]]

OrderInv == Sane /\ NextFollows /\ NoGap /\ Front /\ Copied

\* What nearly every step does for the order: nothing.
BytesAside ==
  /\ UNCHANGED <<ubuf, sent, got, told>>
  /\ "OVERFLOW" \in flags => "OVERFLOW" \in flags'
  /\ \A p \in Procs : /\ pc'[p] = "r_trim" <=> pc[p] = "r_trim"
                      /\ pc[p] = "r_trim" => cntr'[p] = cntr[p]
  /\ pc'["wwan"] \in {"stopped", "removed"} /\ "WWAN_IN_USE" \notin flags'
  /\ coreOp' # "reset"

\* A step aside keeps the order.
LEMMA BytesAsideKeeps ==
  ASSUME OrderInv, BytesAside
  PROVE  OrderInv'
BY DEF OrderInv, Sane, NextFollows, NoGap, Front, Copied, LastKept, Follows, BytesAside

\* write(), fsync() and flush() leave the bytes alone.
LEMMA WriteBytesAside ==
  ASSUME IInv, OrderInv, NEW p \in Procs, WriteStep(p) \/ WriteCall(p)
  PROVE  BytesAside
<1> USE ThreadsDiffer, ConstantTypes
    DEF IInv, TypeOK, PcTypeOK, FieldsTypeOK, BytesTypeOK, OrderInv, Sane, BytesAside, At, Goto,
        Free, Acquire, Release, Set, Clear, locking, usb, life, wr, rsp, buf, dev, power
<1>1. CASE WriteStart(p) \/ WriteLock(p) \/ WritePm(p) \/ WriteWait(p)
  BY <1>1 DEF WriteStart, WriteLock, WritePm, WriteWait
<1>2. CASE WriteGiveUp(p) \/ WriteCheck(p) \/ WriteFill(p)
  BY <1>2 DEF WriteGiveUp, WriteCheck, WriteFill, WriteReturn
<1>3. CASE WriteSubmit(p)
  BY <1>3 DEF WriteSubmit, WriteReturn
<1>4. CASE Fsync(p) \/ Flush(p)
  BY <1>4 DEF Fsync, Flush
<1>5. ASSUME NEW k \in {"fsync", "flush"},
             AwaitCommand(p, k) \/ AwaitStatus(p, k) \/ AwaitGiveUp(p, k)
      PROVE  BytesAside
  BY <1>5 DEF AwaitCommand, AwaitStatus, AwaitGiveUp, WerrAt, WaitReturn, WaitAt
<1> HIDE DEF BytesAside
<1> QED
  BY <1>1, <1>2, <1>3, <1>4, <1>5 DEF WriteStep, WriteCall

\* open() and release() leave them alone: ubuf outlives the file.
LEMMA FileBytesAside ==
  ASSUME IInv, OrderInv, NEW p \in Procs, FileStep(p) \/ OpenCall(p)
  PROVE  BytesAside
<1> USE ThreadsDiffer, ConstantTypes
    DEF IInv, TypeOK, PcTypeOK, FieldsTypeOK, BytesTypeOK, OrderInv, Sane, BytesAside, At, Goto,
        Free, Acquire, Release, Set, Clear, locking, usb, life, wr, rsp, buf, dev, power
<1>1. CASE OpenCall(p) \/ OpenLock(p) \/ OpenPm(p)
  BY <1>1 DEF OpenCall, OpenLock, OpenPm
<1>2. CASE OpenCount(p)
  BY <1>2 DEF OpenCount
<1>3. CASE ReleaseLock(p) \/ ReleaseCount(p)
  BY <1>3 DEF ReleaseLock, ReleaseCount
<1>4. CASE PoisonUrbs(p)
  BY <1>4 DEF PoisonUrbs, PoisonUrb
<1>5. CASE ReleaseForget(p) \/ ReleaseUnpoison(p)
  BY <1>5 DEF ReleaseForget, ReleaseUnpoison, Poisoned
<1> HIDE DEF BytesAside
<1> QED
  BY <1>1, <1>2, <1>3, <1>4, <1>5 DEF FileStep

\* Of the callbacks and work items only wdm_in_callback brings bytes.
LEMMA CallbackBytesAside ==
  ASSUME IInv, OrderInv, OutCallback \/ WwanTxComplete \/ IntCallback \/ WorkStep
  PROVE  BytesAside
<1> USE ThreadsDiffer, ConstantTypes
    DEF IInv, TypeOK, PcTypeOK, FieldsTypeOK, BytesTypeOK, OrderInv, Sane, BytesAside, At, Goto,
        Free, Acquire, Release, Set, Clear, locking, usb, life, wr, rsp, buf, dev, power
<1>1. CASE OutCallback \/ WwanTxComplete
  BY <1>1 DEF OutCallback, OutStatus, OutFree, OutWake, WwanTxComplete
<1>2. CASE IntCallback
  BY <1>2 DEF IntCallback, IntComplete, IntExit, IntFault, IntUnlinked, IntNotified, IntRespond
<1>3. CASE RxStep
  BY <1>3 DEF RxStep, RxStart, RxSubmit, RxFail
<1>4. CASE SvcStep
  BY <1>4 DEF SvcStep, SvcStart, SubmitOwed, SvcEnd
<1> HIDE DEF BytesAside
<1> QED
  BY <1>1, <1>2, <1>3, <1>4 DEF WorkStep

\* So do the core, without a reset, and the port, which there is not.
LEMMA CoreBytesAside ==
  ASSUME IInv, OrderInv, ~HasWwan, "reset" \notin CoreOps,
         \/ WwanCall \/ WwanStep
         \/ CoreStep \/ \E op \in CoreOps : CoreBegin(op)
  PROVE  BytesAside
<1> USE ThreadsDiffer, ConstantTypes
    DEF IInv, TypeOK, PcTypeOK, FieldsTypeOK, BytesTypeOK, OrderInv, Sane, BytesAside, At, Goto,
        Free, Acquire, Release, Set, Clear, locking, usb, life, wr, rsp, buf, dev, power
<1>1. CASE WwanCall \/ WwanClaim \/ WwanListen \/ WwanTxOff
  BY <1>1 DEF WwanCall, WwanStart, WwanTx, WwanStop, WwanClaim, WwanListen, WwanTxOff
<1>2. CASE PoisonUrbs("wwan") \/ PoisonUrbs("core")
  BY <1>2 DEF PoisonUrbs, PoisonUrb
<1>3. CASE WwanLeave("wwan") \/ WwanLeave("core")
  BY <1>3 DEF WwanLeave, Poisoned
<1>10. CASE WwanUnpoison("wwan") \/ WwanUnpoison("core")
  BY <1>10 DEF WwanUnpoison
<1>4. CASE CoreMutex \/ CoreDeinit \/ CoreRlock \/ CoreWlock
  BY <1>4 DEF CoreMutex, CoreDeinit, CoreRlock, CoreWlock
<1>5. CASE CoreFlag
  BY <1>5 DEF CoreFlag
<1>6. CASE CoreCancel \/ CoreUnpoison \/ CoreEnd
  BY <1>6 DEF CoreCancel, CancelWork, Poisoned, CoreUnpoison, CoreEnd
<1>7. CASE CoreResume \/ CoreRecount \/ CoreResubmit
  BY <1>7 DEF CoreResume, CoreRecount, CoreResubmit
<1>8. CASE CorePost
  BY <1>8 DEF CorePost, CoreAgrees, CoreOpAt
<1>9. CASE \E op \in CoreOps : CoreBegin(op)
  BY <1>9 DEF CoreBegin
<1> HIDE DEF BytesAside
<1> QED
  BY <1>1, <1>2, <1>3, <1>4, <1>5, <1>6, <1>7, <1>8, <1>9, <1>10 DEF WwanStep, CoreStep

\* So do the steps of a read that neither tell, copy nor trim.
LEMMA ReadBytesAside ==
  ASSUME IInv, OrderInv, NEW p \in Procs,
         \/ ReadLock(p) \/ ReadGiveUp(p) \/ ReadWait(p) \/ ReadCheck(p) \/ ReadLockIuspin(p)
         \/ ReadEmpty(p) \/ ReadEmptyRelock(p) \/ ReadDrained(p)
         \/ SubmitOwed(p, "z_submit", "z_ok", "z_fail")
         \/ SubmitOwed(p, "d_submit", "d_ok", "d_fail")
  PROVE  BytesAside
<1> USE ThreadsDiffer, ConstantTypes
    DEF IInv, TypeOK, PcTypeOK, FieldsTypeOK, BytesTypeOK, OrderInv, Sane, BytesAside, At, Goto,
        Free, Acquire, Release, Set, Clear, locking, usb, life, wr, rsp, buf, dev, power
<1>1. CASE ReadLock(p) \/ ReadGiveUp(p) \/ ReadWait(p)
  BY <1>1 DEF ReadLock, ReadGiveUp, ReadWait, ReadReturn
<1>2. CASE ReadCheck(p) \/ ReadLockIuspin(p)
  BY <1>2 DEF ReadCheck, ReadLockIuspin, ReadReturn
<1>3. CASE ReadEmpty(p)
  BY <1>3 DEF ReadEmpty
<1>4. CASE ReadEmptyRelock(p) \/ ReadDrained(p)
  BY <1>4 DEF ReadEmptyRelock, ReadDrained, ReadReturn
<1>5. CASE \/ SubmitOwed(p, "z_submit", "z_ok", "z_fail")
           \/ SubmitOwed(p, "d_submit", "d_ok", "d_fail")
  BY <1>5 DEF SubmitOwed
<1> HIDE DEF BytesAside
<1> QED
  BY <1>1, <1>2, <1>3, <1>4, <1>5

\* What is in order stays so when more has been told: ENOBUFS covers all gaps.
LEMMA RetryKeepsOrder ==
  ASSUME IInv, OrderInv, NEW p \in Procs, ReadRetry(p)
  PROVE  OrderInv'
<1>1. /\ UNCHANGED <<ubuf, sent, got>> /\ told' \in Nat /\ told <= told' /\ told' <= sent
      /\ "OVERFLOW" \notin flags' => told' = sent \/ (told' = told /\ "OVERFLOW" \notin flags)
  BY DEF ReadRetry, ReadReturn, Clear, buf, OrderInv, Sane, IInv, TypeOK, BytesTypeOK
<1>2. /\ \A q \in Procs : pc'[q] = "r_trim" <=> pc[q] = "r_trim"
      /\ \A q \in Procs : pc[q] = "r_trim" => cntr'[q] = cntr[q]
      /\ pc'["wwan"] = pc["wwan"] /\ flags' \subseteq flags /\ coreOp' = coreOp
  BY ThreadsDiffer
     DEF power, ReadRetry, ReadReturn, Clear, At, Goto, IInv, TypeOK, PcTypeOK, BytesTypeOK
<1>3. /\ ubuf \in Seq(Nat) /\ sent \in Nat /\ got \in Nat /\ told \in Nat
      /\ \A i \in 1 .. Len(ubuf) : ubuf[i] \in Nat
  BY DEF IInv, TypeOK, BytesTypeOK
<1>4. \A i, j \in Nat : Follows(j, i) => j = i + 1 \/ (j > i /\ j <= told' + 1)
  <2>1. told <= told' /\ told \in Int /\ told' \in Int
    BY <1>1, <1>3
  <2>2. \A a, b \in Int : a <= b => \A j \in Nat : j <= a + 1 => j <= b + 1
    OBVIOUS
  <2>3. \A j \in Nat : j <= told + 1 => j <= told' + 1
    BY <2>1, <2>2
  <2> QED
    BY <2>3 DEF Follows
<1>5. Sane' /\ Copied' /\ Front'
  BY <1>1, <1>2, <1>3, <1>4 DEF OrderInv, Sane, Copied, Front, Follows
<1>6. NextFollows'
  <2>1. LastKept' = LastKept /\ LastKept \in Nat /\ LastKept <= sent
    BY <1>1, <1>3 DEF OrderInv, Sane, LastKept
  <2>2. CASE told' = sent
    BY <1>1, <1>3, <2>1, <2>2 DEF NextFollows, Follows
  <2>3. CASE told' = told /\ ("OVERFLOW" \notin flags' => "OVERFLOW" \notin flags)
    BY <1>1, <2>1, <2>3 DEF OrderInv, NextFollows, Follows
  <2> QED
    BY <1>1, <2>2, <2>3 DEF NextFollows
<1>7. NoGap'
  <2>1. \A i \in 1 .. Len(ubuf) - 1 : ubuf[i] \in Nat /\ ubuf[i + 1] \in Nat
    BY <1>3
  <2> QED
    BY <1>1, <1>4, <2>1 DEF OrderInv, NoGap, Follows
<1> QED
  BY <1>5, <1>6, <1>7 DEF OrderInv

\* The bytes copied are the first of ubuf; nobody else is between copy and trim.
LEMMA CopyKeepsOrder ==
  ASSUME IInv, OrderInv, NEW p \in Procs, ReadCopy(p)
  PROVE  OrderInv'
<1> USE DEF IInv, TypeOK, PcTypeOK, BytesTypeOK
<1>1. /\ UNCHANGED <<flags, ubuf, sent, told, coreOp>> /\ pc["wwan"] = pc'["wwan"]
      /\ pc[p] = "r_copy" /\ pc' = [pc EXCEPT ![p] = "r_trim"] /\ pc'[p] = "r_trim"
  BY ThreadsDiffer DEF ReadCopy, At, Goto, power
<1>2. PICK c \in Nat : /\ c <= cntr[p] /\ cntr' = [cntr EXCEPT ![p] = c]
                       /\ got' = IF c = 0 THEN got ELSE ubuf[c]
  <2>1. PICK n \in ReadSizes :
          LET c == IF cntr[p] > n THEN n ELSE cntr[p]
          IN  /\ cntr' = [cntr EXCEPT ![p] = c]
              /\ got' = IF c = 0 THEN got ELSE ubuf[c]
    BY DEF ReadCopy
  <2>2. n \in Nat /\ cntr[p] \in Nat
    BY ConstantTypes
  <2> DEFINE k == IF cntr[p] > n THEN n ELSE cntr[p]
  <2>3. k \in Nat /\ k <= cntr[p]
    BY <2>2
  <2>4. cntr' = [cntr EXCEPT ![p] = k] /\ got' = IF k = 0 THEN got ELSE ubuf[k]
    BY <2>1
  <2> HIDE DEF k
  <2> QED
    BY <2>3, <2>4
<1>3. c <= Len(ubuf) /\ Len(ubuf) \in Nat /\ \A i \in 1 .. Len(ubuf) : ubuf[i] \in Nat
  BY <1>1, <1>2 DEF CopyBounded
<1>4. \A q \in Procs : pc[q] # "r_trim" /\ (q # p => pc'[q] # "r_trim")
  <2>1. \A q \in Procs : pc[q] = "r_trim" => q = p
    BY <1>1 DEF Owners, Reading
  <2> QED
    BY <1>1, <2>1
<1>5. Sane'
  BY <1>1, <1>2, <1>3 DEF OrderInv, Sane
<1>6. NextFollows' /\ NoGap'
  BY <1>1, <1>2, <1>3 DEF OrderInv, NextFollows, NoGap, LastKept, Follows
<1>7. Front' /\ Copied'
  <2>1. cntr'[p] = c
    BY <1>2
  <2>2. ubuf # <<>> => Follows(ubuf[1], got)
    BY <1>4 DEF OrderInv, Front
  <2> QED
    BY <1>1, <1>2, <1>4, <2>1, <2>2 DEF Front, Copied, Follows
<1> QED
  BY <1>5, <1>6, <1>7 DEF OrderInv

\* What is left after the trim starts behind the last byte copied.
LEMMA TrimKeepsOrder ==
  ASSUME IInv, OrderInv, NEW p \in Procs, ReadTrim(p)
  PROVE  OrderInv'
<1> USE DEF IInv, TypeOK, PcTypeOK, BytesTypeOK
<1> DEFINE c == cntr[p]
           n == Len(ubuf)
<1>1. /\ UNCHANGED <<sent, told, got, coreOp>> /\ pc[p] = "r_trim" /\ ubuf' = SubSeq(ubuf, c + 1, n)
      /\ pc'[p] # "r_trim" /\ pc'["wwan"] = pc["wwan"]
      /\ \A q \in Procs : q # p => pc'[q] = pc[q]
      /\ "OVERFLOW" \in flags => "OVERFLOW" \in flags'
      /\ "WWAN_IN_USE" \in flags' => "WWAN_IN_USE" \in flags
  BY ThreadsDiffer DEF ReadTrim, ReadReturn, At, Goto, Clear, power
<1>2. c \in Nat /\ n \in Nat /\ c <= n /\ \A i \in 1 .. n : ubuf[i] \in Nat
  BY <1>1 DEF CopyBounded
<1>3. /\ ubuf' \in Seq(Nat) /\ Len(ubuf') = n - c
      /\ \A i \in 1 .. n - c : ubuf'[i] = ubuf[i + c]
  <2>1. ubuf' \in Seq(Nat) /\ Len(ubuf') = n - c
    BY <1>1, <1>2, TrimType
  <2>2. \A i \in 1 .. n - c : ubuf'[i] = ubuf[c + 1 + i - 1]
    <3>1. c + 1 \in Int /\ n \in Int /\ \A i \in c + 1 .. n : ubuf[i] \in Nat
      BY <1>2
    <3>2. \A i \in 1 .. n - (c + 1) + 1 : SubSeq(ubuf, c + 1, n)[i] = ubuf[c + 1 + i - 1]
      <4> HIDE DEF c, n
      <4> QED
        BY <3>1, SubSeqProperties
    <3>3. n - (c + 1) + 1 = n - c
      BY <1>2
    <3> QED
      BY <1>1, <3>2, <3>3
  <2>3. \A i \in 1 .. n - c : c + 1 + i - 1 = i + c
    BY <1>2
  <2> QED
    BY <2>1, <2>2, <2>3
<1>4. \A q \in Procs : pc'[q] # "r_trim"
  <2>1. \A q \in Procs : pc[q] = "r_trim" => q = p
    BY <1>1 DEF Owners, Reading
  <2> QED
    BY <1>1, <2>1
<1>5. \/ c = 0 /\ (ubuf # <<>> => Follows(ubuf[1], got))
      \/ c > 0 /\ got = ubuf[c]
  BY <1>1 DEF OrderInv, Copied
<1>6. (ubuf = <<>> <=> n = 0) /\ (ubuf' = <<>> <=> n - c = 0)
  BY <1>3
<1> HIDE DEF c, n
<1>7. Sane'
  <2>1. \A i \in 1 .. n - c : ubuf'[i] <= sent
    <3>1. \A i \in 1 .. n - c : i + c \in 1 .. n
      BY <1>2
    <3> QED
      BY <1>3, <3>1 DEF OrderInv, Sane, n
  <2> QED
    BY <1>1, <1>3, <2>1 DEF OrderInv, Sane
<1>8. NextFollows'
  <2>1. LastKept' = LastKept
    <3>1. CASE n - c > 0
      <4>1. n - c \in 1 .. n - c /\ (n - c) + c = n /\ n # 0 /\ n - c # 0
        BY <1>2, <3>1
      <4>2. ubuf'[n - c] = ubuf[n] /\ ubuf # <<>> /\ ubuf' # <<>> /\ Len(ubuf') = n - c
        BY <1>3, <1>6, <4>1
      <4> QED
        BY <4>2 DEF LastKept, n
    <3>2. CASE n = c
      BY <1>1, <1>2, <1>5, <1>6, <3>2 DEF LastKept, n
    <3> QED
      BY <1>2, <3>1, <3>2
  <2> QED
    BY <1>1, <2>1 DEF OrderInv, NextFollows, Follows
<1>9. NoGap'
  <2> SUFFICES ASSUME NEW i \in 1 .. Len(ubuf') - 1
               PROVE  Follows(ubuf'[i + 1], ubuf'[i])
    BY <1>1 DEF NoGap, Follows
  <2>1. i + c \in 1 .. n - 1 /\ (i + 1) + c = (i + c) + 1 /\ i \in 1 .. n - c /\ i + 1 \in 1 .. n - c
    BY <1>2, <1>3
  <2>2. ubuf'[i] = ubuf[i + c] /\ ubuf'[i + 1] = ubuf[(i + c) + 1]
    BY <1>3, <2>1
  <2>3. Follows(ubuf[(i + c) + 1], ubuf[i + c])
    BY <2>1 DEF OrderInv, NoGap, n
  <2> QED
    BY <2>2, <2>3
<1>10. Front'
  <2> SUFFICES ASSUME ubuf' # <<>>
               PROVE  Follows(ubuf'[1], got)
    BY <1>1 DEF Front, Follows
  <2>1. n - c > 0 /\ 1 \in 1 .. n - c /\ ubuf # <<>> /\ ubuf'[1] = ubuf[1 + c]
    BY <1>2, <1>3, <1>6
  <2>2. Follows(ubuf[1 + c], got)
    <3>1. CASE c = 0
      BY <1>5, <2>1, <3>1
    <3>2. CASE c > 0
      <4>1. c \in 1 .. n - 1 /\ 1 + c = c + 1
        BY <1>2, <2>1, <3>2
      <4> QED
        BY <1>5, <3>2, <4>1 DEF OrderInv, NoGap, n
    <3> QED
      BY <1>2, <3>1, <3>2
  <2> QED
    BY <2>1, <2>2
<1> QED
  BY <1>4, <1>7, <1>8, <1>9, <1>10 DEF OrderInv, Copied

\* An answer is appended behind the last byte kept, or OVERFLOW records the gap.
LEMMA AnswerKeepsOrder ==
  ASSUME IInv, OrderInv, InCallback
  PROVE  OrderInv'
<1> USE DEF IInv, TypeOK, BytesTypeOK
<1>1. UNCHANGED <<pc, cntr, coreOp>>
  BY DEF InCallback, locking, power
<1>2. CASE InUnlinked
  <2>1. BytesAside
    BY <1>1, <1>2 DEF InUnlinked, InSignal, BytesAside, OrderInv, Sane
  <2> QED
    BY <2>1, BytesAsideKeeps
<1>3. CASE InForwarded
  BY <1>3 DEF InForwarded, OrderInv, Sane
<1>4. CASE InAnswered
  <2>1. PICK r \in InOutcomes :
          /\ InData(r[2]) /\ sent' = sent + r[2]
          /\ InSignal(IF Overflows(r[2]) THEN {"OVERFLOW"} ELSE {})
    BY <1>4 DEF InAnswered, InTaken
  <2> DEFINE n == r[2]
             m == Len(ubuf)
  <2>2. n \in Nat /\ m \in Nat /\ UNCHANGED <<got, told>>
    <3>1. r[2] \in 0 .. wMaxCommand
      BY AnswersKnown
    <3> QED
      BY <1>4, <3>1, ConstantTypes DEF InAnswered
  <2>3. /\ "WWAN_IN_USE" \notin flags'
        /\ "OVERFLOW" \in flags' <=> "OVERFLOW" \in flags \/ Overflows(n)
    BY <2>1 DEF InSignal, OrderInv, Sane
  <2>4. sent' \in Nat /\ sent <= sent' /\ \A i \in 1 .. m : ubuf[i] \in Nat
    <3>1. sent' = sent + n
      BY <2>1
    <3>2. \A i \in 1 .. m : ubuf[i] \in Nat
      OBVIOUS
    <3> HIDE DEF n, m
    <3> QED
      BY <2>2, <3>1, <3>2
  <2>5. CASE Overflows(n) \/ "OVERFLOW" \in flags
    <3>1. ubuf' = ubuf /\ "OVERFLOW" \in flags'
      BY <2>1, <2>3, <2>5 DEF InData
    <3> HIDE DEF n
    <3>2. Sane'
      BY <1>1, <2>2, <2>3, <2>4, <3>1 DEF OrderInv, Sane
    <3> QED
      BY <1>1, <2>2, <3>1, <3>2
         DEF OrderInv, NextFollows, NoGap, Front, Copied, Follows
  <2>6. CASE ~(Overflows(n) \/ "OVERFLOW" \in flags)
    <3>1. ubuf' = ubuf \o Bytes(n) /\ Follows(sent + 1, LastKept)
      BY <2>1, <2>6 DEF InData, OrderInv, NextFollows
    <3> HIDE DEF n
    <3>2. /\ Bytes(n) \in Seq(Nat) /\ Len(Bytes(n)) = n
          /\ \A i \in 1 .. n : Bytes(n)[i] = sent + i
      BY <2>2, BytesType DEF Bytes
    <3>3. /\ ubuf' \in Seq(Nat) /\ Len(ubuf') = m + n
          /\ \A i \in 1 .. m : ubuf'[i] = ubuf[i]
          /\ \A i \in 1 .. n : ubuf'[m + i] = sent + i
      <4>1. /\ ubuf \o Bytes(n) \in Seq(Nat) /\ Len(ubuf \o Bytes(n)) = m + n
            /\ \A i \in 1 .. m + n : (ubuf \o Bytes(n))[i] =
                 IF i <= m THEN ubuf[i] ELSE Bytes(n)[i - m]
        <5>1. ubuf \in Seq(Nat)
          OBVIOUS
        <5>2. \A i \in 1 .. Len(ubuf) + Len(Bytes(n)) : (ubuf \o Bytes(n))[i] =
                 IF i <= Len(ubuf) THEN ubuf[i] ELSE Bytes(n)[i - Len(ubuf)]
          BY <3>2, <5>1, ConcatProperties
        <5>3. ubuf \o Bytes(n) \in Seq(Nat) /\ Len(ubuf \o Bytes(n)) = Len(ubuf) + Len(Bytes(n))
          BY <3>2, <5>1, ConcatProperties
        <5> DEFINE s == ubuf \o Bytes(n)
        <5> HIDE DEF s
        <5> QED
          BY <3>2, <5>2, <5>3, Zenon DEF s
      <4>2. \A i \in 1 .. m : i \in 1 .. m + n /\ i <= m
        BY <2>2
      <4>3. \A i \in 1 .. n : m + i \in 1 .. m + n /\ ~(m + i <= m) /\ (m + i) - m = i
        BY <2>2
      <4> HIDE DEF m
      <4> QED
        BY <3>1, <3>2, <4>1, <4>2, <4>3
    <3>4. (ubuf = <<>> <=> m = 0) /\ (ubuf' = <<>> <=> m + n = 0)
      BY <3>3
    <3>5. m > 0 => LastKept = ubuf[m]
      BY <3>4 DEF LastKept
    <3>6. m = 0 => LastKept = got
      BY <3>4 DEF LastKept
    <3> HIDE DEF m
    <3>7. \A i \in 1 .. m + n : \/ i \in 1 .. m
                                \/ i - m \in 1 .. n /\ i = m + (i - m)
      BY <2>2
    <3>8. \A i \in 1 .. m + n : ubuf'[i] <= sent'
      <4>1. \A i \in 1 .. m : ubuf[i] <= sent
        BY DEF OrderInv, Sane, m
      <4>2. \A i \in 1 .. m : ubuf'[i] <= sent'
        BY <2>4, <3>3, <4>1
      <4>3. \A i \in 1 .. n : sent + i <= sent'
        BY <2>1, <2>2 DEF n
      <4> QED
        BY <3>3, <3>7, <4>2, <4>3
    <3>9. Sane'
      BY <1>1, <2>2, <2>3, <2>4, <3>3, <3>8 DEF OrderInv, Sane
    <3>10. NextFollows'
      <4>1. CASE n = 0
        <5>1. LastKept' = LastKept /\ sent' = sent
          <6>1. m + n = m /\ sent' = sent
            BY <2>1, <2>2, <4>1 DEF n
          <6>2. m > 0 => m \in 1 .. m
            BY <2>2
          <6> QED
            BY <2>2, <3>3, <3>4, <3>5, <3>6, <6>1, <6>2 DEF LastKept
        <5> QED
          BY <2>2, <3>1, <5>1 DEF NextFollows, Follows
      <4>2. CASE n > 0
        <5>1. n \in 1 .. n /\ m + n # 0
          BY <2>2, <4>2
        <5>2. LastKept' = sent'
          BY <2>1, <3>3, <3>4, <5>1 DEF LastKept, n
        <5> QED
          BY <5>2 DEF NextFollows, Follows
      <4> QED
        BY <2>2, <4>1, <4>2
    <3>11. \A j, i : Follows(j, i) => (Follows(j, i))'
      BY <2>2 DEF Follows
    <3>12. \A i \in 1 .. m + n - 1 : Follows(ubuf'[i + 1], ubuf'[i])
      <4> TAKE i \in 1 .. m + n - 1
      <4>1. CASE i < m
        <5>1. i \in 1 .. m - 1 /\ i \in 1 .. m /\ i + 1 \in 1 .. m
          BY <2>2, <4>1
        <5> QED
          BY <3>3, <5>1 DEF OrderInv, NoGap, m
      <4>2. CASE i = m
        <5>1. m > 0 /\ m \in 1 .. m /\ 1 \in 1 .. n
          BY <2>2, <4>2
        <5> QED
          BY <3>1, <3>3, <3>5, <4>2, <5>1
      <4>3. CASE i > m
        <5> DEFINE k == i - m
        <5>1. k \in 1 .. n /\ k + 1 \in 1 .. n /\ i = m + k /\ i + 1 = m + (k + 1)
          BY <2>2, <4>3
        <5>2. sent + (k + 1) = (sent + k) + 1
          BY <5>1
        <5> HIDE DEF k
        <5>3. ubuf'[i] = sent + k /\ ubuf'[i + 1] = sent + (k + 1)
          BY <3>3, <5>1
        <5> QED
          BY <5>2, <5>3 DEF Follows
      <4> QED
        BY <2>2, <4>1, <4>2, <4>3
    <3>13. NoGap'
      BY <2>2, <3>3, <3>12 DEF NoGap, Follows
    <3>14. ubuf' # <<>> /\ (ubuf # <<>> => Follows(ubuf[1], got)) => Follows(ubuf'[1], got)
      <4>1. CASE m > 0
        <5>1. 1 \in 1 .. m
          BY <2>2, <4>1
        <5> QED
          BY <3>3, <3>4, <4>1, <5>1
      <4>2. CASE m = 0
        <5>1. ubuf' # <<>> => n > 0 /\ 1 \in 1 .. n /\ m + 1 = 1
          BY <2>2, <3>4, <4>2
        <5> QED
          BY <3>1, <3>3, <3>6, <4>2, <5>1
      <4> QED
        BY <2>2, <4>1, <4>2
    <3>15. Front'
      BY <1>1, <2>2, <3>14 DEF OrderInv, Front, Follows
    <3>16. Copied'
      <4>1. \A p \in Procs : pc[p] = "r_trim" => cntr[p] \in Nat /\ cntr[p] <= m
        BY DEF CopyBounded, m
      <4>2. \A p \in Procs : pc[p] = "r_trim" /\ cntr[p] > 0 => cntr[p] \in 1 .. m
        BY <2>2, <4>1
      <4>3. \A p \in Procs : pc[p] = "r_trim" /\ cntr[p] > 0 => got = ubuf'[cntr[p]]
        BY <3>3, <4>2 DEF OrderInv, Copied
      <4> QED
        BY <1>1, <2>2, <3>14, <4>3 DEF OrderInv, Copied, Follows
    <3> QED
      BY <3>9, <3>10, <3>13, <3>15, <3>16 DEF OrderInv
  <2> QED
    BY <2>5, <2>6
<1> QED
  BY <1>2, <1>3, <1>4 DEF InCallback

\* Without resets and without a port every step keeps the order.
LEMMA NextKeepsOrder ==
  ASSUME IInv, OrderInv, ~HasWwan, "reset" \notin CoreOps, [Next]_vars
  PROVE  OrderInv'
<1>1. ASSUME NEW p \in Procs, ProcStep(p) \/ ProcCall(p)
      PROVE  OrderInv'
  <2>1. CASE WriteStep(p) \/ WriteCall(p)
    BY <2>1, WriteBytesAside, BytesAsideKeeps
  <2>2. CASE ReadStep(p) \/ ReadCall(p)
    BY <2>2, ReadBytesAside, BytesAsideKeeps, RetryKeepsOrder, CopyKeepsOrder, TrimKeepsOrder
       DEF ReadStep, ReadCall
  <2>3. CASE FileStep(p) \/ OpenCall(p)
    BY <2>3, FileBytesAside, BytesAsideKeeps
  <2> QED
    BY <1>1, <2>1, <2>2, <2>3 DEF ProcStep, ProcCall
<1>2. CASE OutCallback \/ WwanTxComplete \/ IntCallback \/ WorkStep
  BY <1>2, CallbackBytesAside, BytesAsideKeeps
<1>3. CASE InCallback
  BY <1>3, AnswerKeepsOrder
<1>4. CASE WwanCall \/ WwanStep \/ CoreStep \/ \E op \in CoreOps : CoreBegin(op)
  BY <1>4, CoreBytesAside, BytesAsideKeeps
<1>5. CASE UNCHANGED vars
  <2>1. BytesAside
    BY <1>5 DEF vars, locking, buf, power, BytesAside, OrderInv, Sane
  <2> QED
    BY <2>1, BytesAsideKeeps
<1> QED
  BY <1>1, <1>2, <1>3, <1>4, <1>5 DEF Next

\* What a read is about to copy follows what readers got before it, and ubuf has
\* no gap that no reader was told of: however concurrent and partial reads,
\* answers between the copy and the trim (648, 656), overflows, closes, suspends
\* and a disconnect interleave, no byte is lost, repeated or reordered without
\* a word.  Two things the driver does are left out, as in the run: post_reset
\* clears OVERFLOW without telling anyone (1394), and a WWAN port takes its
\* bytes past ubuf (1002).
THEOREM BytesInOrder ==
  ASSUME ~HasWwan, "reset" \notin CoreOps
  PROVE  Spec => []StreamInOrder
<1>1. Init => OrderInv
  BY ThreadsDiffer
     DEF Init, OrderInv, Sane, NextFollows, NoGap, Front, Copied, LastKept, Follows
<1>2. IInv /\ OrderInv /\ [Next]_vars => OrderInv'
  BY NextKeepsOrder
<1>3. IInv /\ OrderInv => StreamInOrder
  <2> SUFFICES ASSUME IInv, OrderInv
               PROVE  StreamInOrder
    OBVIOUS
  <2>1. ASSUME NEW p \in Procs, pc[p] = "r_copy", cntr[p] > 0
        PROVE  cntr[p] <= Len(ubuf) /\ Follows(ubuf[1], got)
    <3>1. cntr[p] <= Len(ubuf) /\ ubuf # <<>>
      BY <2>1 DEF IInv, TypeOK, BytesTypeOK, CopyBounded
    <3>2. \A q \in Procs : pc[q] # "r_trim"
      BY <2>1 DEF IInv, Owners, Reading
    <3> QED
      BY <3>1, <3>2 DEF OrderInv, Front
  <2> QED
    BY <2>1 DEF OrderInv, NoGap, StreamInOrder, At
<1> QED
  BY <1>1, <1>2, <1>3, Invariant, PTL DEF Spec
=============================================================================
