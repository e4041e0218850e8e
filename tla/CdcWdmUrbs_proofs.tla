-------------------------- MODULE CdcWdmUrbs_proofs --------------------------
(***************************************************************************)
(* Proofs about whose turn it is to submit the response URB, under the     *)
(* weakest conditions that the driver's own bookkeeping, resp_count and    *)
(* RESPONDING, can keep: nobody submits it while it is active, and nobody  *)
(* forgets a notification that is owed.  The conditions of the two differ. *)
(*                                                                         *)
(* Proof that two commands never overlap, that no command buffer is freed  *)
(* twice, leaked or freed under the host controller, and that every power  *)
(* reference has its holder, for any number of writers, with or without a  *)
(* WWAN port.                                                              *)
(*                                                                         *)
(* IN_USE alone does not say so, for pre_reset clears it under a command   *)
(* that is still in flight.  CInv says that a write's command is known by  *)
(* IN_USE or by RESETTING (BusyKnown), and that it is cancelled before     *)
(* post_reset clears RESETTING (ResetQuiet).  The port does not look at    *)
(* IN_USE at all: what keeps it off is that a write's command is in flight *)
(* only for an open file (Sent), and the port's only while WWAN_IN_USE is  *)
(* set (PortKnown).  Most actions touch nothing of this: CommandAside.     *)
(***************************************************************************)
EXTENDS CdcWdmLife_proofs

Leaving == {"flush_wait", "flush_werr", "rel_lock", "rel_count"} \cup Closing

NeverClose == \A p \in Procs : "close" \notin CallsOf[p]

-----------------------------------------------------------------------------
(* One submitter.  The right to submit passes from the URB to its reader (READ *)
(* is set), to the reader that asks for more, or to rxwork, and back.          *)

\* What the exclusion rests on: the interrupt endpoint does not stall and no answer is
\* an error, so that rxwork and service_interrupt_work have no other cause to run than a
\* submission that failed; no close and no reset, which forget who is at it; no
\* port, which never reads.  Suspends, a disconnect, failing submissions and empty
\* answers are all allowed.
Undisturbed ==
  /\ "stall" \notin IntFaults
  /\ \A r \in Responses : r[1] # "EPROTO"
  /\ NeverClose /\ "reset" \notin CoreOps /\ ~HasWwan

\* A reader, rxwork or the interrupt callback has submitted or is about to, and
\* will clear RESPONDING if that failed.
Asks(p) == pc[p] \in {"z_submit", "z_fail", "d_submit", "d_fail"}
Asking == \E p \in Procs : Asks(p)
RxAsking == pc["rx"] # "idle"
RxQueued == "rx" \in work
IntFailing == pc["int"] \notin {"idle", "int_exit"}

\* The turn is the readers'; a disconnect sets READ for another reason.
Detached == "DISCONNECTING" \in flags
Unread == "READ" \in flags /\ ~Detached

Calm ==
  /\ rerr = 0 /\ "svc" \notin work /\ pc["svc"] = "idle" /\ pc["wwan"] = "stopped"
  /\ flags \cap {"OVERFLOW", "WWAN_IN_USE", "RESETTING"} = {}
  /\ coreOp \notin {"reset", "deinit"} /\ pc["core"] # "c_deinit"
  /\ \A p \in Procs : pc[p] \notin Leaving

\* Bytes are announced, and there is nothing but them behind a length.
Announced ==
  /\ "READ" \notin flags => ubuf = <<>>
  /\ ubuf # <<>> => reslength # 0

Copying == \A p \in Procs : pc[p] \in {"r_copy", "r_trim"} => "READ" \in flags

\* At most one of them has the turn, and whoever is at the URB finds ubuf empty and
\* RESPONDING set; a notification that finds none owed may take it.
Turn ==
  /\ urb["response"] => ~(Asking \/ RxAsking \/ RxQueued \/ IntFailing \/ Unread)
  /\ Asking => ~(RxAsking \/ RxQueued \/ IntFailing \/ Unread)
  /\ RxAsking => ~(RxQueued \/ IntFailing \/ Unread)
  /\ RxQueued => ~(IntFailing \/ Unread)
  /\ IntFailing => ~Unread
  /\ urb["response"] \/ Asking \/ RxAsking \/ IntFailing => "RESPONDING" \in flags /\ ubuf = <<>>
  /\ resp_count = 0 /\ ~Detached
       => ~(urb["response"] \/ Asking \/ RxAsking \/ RxQueued \/ IntFailing \/ Unread)

TInv == Calm /\ Announced /\ Copying /\ Turn

\* A step that leaves the turn with whoever has it.
TurnAside ==
  /\ UNCHANGED <<ubuf, reslength, resp_count, rerr>>
  /\ urb'["response"] = urb["response"]
  /\ \A b \in Flags \ {"IN_USE", "SUSPENDING"} : b \in flags' <=> b \in flags
  /\ "svc" \notin work' /\ ("rx" \in work' <=> "rx" \in work)
  /\ \A t \in {"rx", "svc", "wwan"} : pc'[t] = pc[t]
  /\ IntFailing' <=> IntFailing
  /\ coreOp' \notin {"reset", "deinit"} /\ pc'["core"] # "c_deinit"
  /\ \A p \in Procs : /\ pc'[p] \notin Leaving
                      /\ Asks(p)' <=> Asks(p)
                      /\ pc'[p] \in {"r_copy", "r_trim"} => "READ" \in flags

-----------------------------------------------------------------------------
\* It keeps what is said of the turn.
LEMMA TurnAsideKeeps ==
  ASSUME TInv, TurnAside
  PROVE  TInv'
<1>1. /\ "READ" \in flags' <=> "READ" \in flags
      /\ "RESPONDING" \in flags' <=> "RESPONDING" \in flags
      /\ "DISCONNECTING" \in flags' <=> "DISCONNECTING" \in flags
      /\ flags' \cap {"OVERFLOW", "WWAN_IN_USE", "RESETTING"} = {}
  BY DEF TurnAside, Flags, TInv, Calm
<1>2. Calm'
  BY <1>1 DEF TInv, Calm, TurnAside
<1>3. Announced' /\ Copying'
  BY <1>1 DEF TInv, Announced, Copying, TurnAside
<1>4. Turn'
  <2>1. /\ Asking' <=> Asking
        /\ RxAsking' <=> RxAsking
        /\ RxQueued' <=> RxQueued
        /\ IntFailing' <=> IntFailing
        /\ Unread' <=> Unread
        /\ Detached' <=> Detached
    BY <1>1 DEF Asking, TurnAside, RxAsking, RxQueued, Unread, Detached
  <2> QED
    BY <1>1, <2>1 DEF TInv, Turn, TurnAside
<1> QED
  BY <1>2, <1>3, <1>4 DEF TInv

\* At first nobody has the turn and nothing is owed.
LEMMA InitTurn == Init => TInv
BY ThreadsDiffer
   DEF Init, TInv, Calm, Announced, Copying, Turn, Asking, Asks, RxAsking, RxQueued, IntFailing,
       Unread, Detached, Leaving, Closing, Urbs, Threads

\* write(), fsync() and open() leave the turn alone; nobody closes.
LEMMA CallTurnAside ==
  ASSUME IInv, TInv, NeverClose, NEW p \in Procs,
         WriteStep(p) \/ WriteCall(p) \/ FileStep(p) \/ OpenCall(p)
  PROVE  TurnAside
<1> USE ThreadsDiffer
    DEF IInv, TypeOK, PcTypeOK, HostTypeOK, Urbs, Flags, TInv, Calm, Copying, TurnAside, Asks,
        IntFailing, Leaving, Closing, At, Goto, Free, Acquire, Release, Set, Clear,
        locking, usb, life, wr, rsp, buf, dev, power
<1>1. CASE WriteStart(p) \/ WriteLock(p) \/ WritePm(p) \/ WriteWait(p)
  BY <1>1 DEF WriteStart, WriteLock, WritePm, WriteWait
<1>2. CASE WriteGiveUp(p) \/ WriteCheck(p) \/ WriteFill(p)
  BY <1>2 DEF WriteGiveUp, WriteCheck, WriteFill, WriteReturn
<1>3. CASE WriteSubmit(p)
  BY <1>3 DEF WriteSubmit, WriteReturn, Submitted
<1>4. CASE Fsync(p) \/ Flush(p)
  BY <1>4 DEF Fsync, Flush, NeverClose
<1>5. ASSUME NEW k \in {"fsync", "flush"},
             AwaitCommand(p, k) \/ AwaitStatus(p, k) \/ AwaitGiveUp(p, k)
      PROVE  TurnAside
  BY <1>5 DEF AwaitCommand, AwaitStatus, AwaitGiveUp, WerrAt, WaitReturn, WaitAt
<1>6. CASE OpenCall(p) \/ OpenLock(p) \/ OpenPm(p)
  BY <1>6 DEF OpenCall, OpenLock, OpenPm
<1>7. CASE OpenCount(p)
  BY <1>7 DEF OpenCount, Submitted
<1>8. CASE \/ ReleaseLock(p) \/ ReleaseCount(p) \/ PoisonUrbs(p) \/ ReleaseForget(p)
           \/ ReleaseUnpoison(p)
  BY <1>8 DEF ReleaseLock, ReleaseCount, PoisonUrbs, PoisonUrb, ReleaseForget, Poisoned,
              ReleaseUnpoison
<1> HIDE DEF TurnAside
<1> QED
  BY <1>1, <1>2, <1>3, <1>4, <1>5, <1>6, <1>7, <1>8 DEF WriteStep, WriteCall, FileStep

\* So does a read but where it empties the buffer or submits.
LEMMA ReadTurnAside ==
  ASSUME IInv, TInv, NEW p \in Procs,
         \/ ReadLock(p) \/ ReadGiveUp(p) \/ ReadRetry(p) \/ ReadWait(p) \/ ReadCheck(p)
         \/ ReadLockIuspin(p) \/ ReadCopy(p)
         \/ ReadEmptyRelock(p) /\ At(p, "z_ok")
         \/ ReadDrained(p) /\ At(p, "d_ok")
  PROVE  TurnAside
<1> USE ThreadsDiffer
    DEF IInv, TypeOK, PcTypeOK, HostTypeOK, Urbs, Flags, TInv, Calm, Announced, Copying,
        TurnAside, Asks, IntFailing, Leaving, Closing, At, Goto, Free, Acquire, Release, Set,
        Clear, locking, usb, life, wr, rsp, buf, dev, power
<1>1. CASE ReadLock(p) \/ ReadGiveUp(p) \/ ReadWait(p)
  BY <1>1 DEF ReadLock, ReadGiveUp, ReadWait, ReadReturn
<1>2. CASE ReadRetry(p) \/ ReadCheck(p)
  BY <1>2 DEF ReadRetry, ReadCheck, ReadReturn
<1>3. CASE ReadLockIuspin(p)
  BY <1>3 DEF ReadLockIuspin, ReadReturn
<1>4. CASE ReadCopy(p)
  BY <1>4 DEF ReadCopy
<1>5. CASE ReadEmptyRelock(p) /\ At(p, "z_ok")
  BY <1>5 DEF ReadEmptyRelock
<1>6. CASE ReadDrained(p) /\ At(p, "d_ok")
  BY <1>6 DEF ReadDrained, ReadReturn
<1> HIDE DEF TurnAside
<1> QED
  BY <1>1, <1>2, <1>3, <1>4, <1>5, <1>6

\* So do the command's callback, the end of an interrupt callback that submitted, and
\* the core where it neither disconnects nor cancels rxwork; there is no port.
LEMMA OthersTurnAside ==
  ASSUME IInv, TInv, Undisturbed,
         \/ OutCallback \/ WwanTxComplete \/ SvcStep \/ WwanCall \/ WwanStep
         \/ IntExit /\ ~IntFailing
         \/ CoreStep /\ ~(coreOp = "disconnect" /\ CoreFlag)
                     /\ ~(At("core", "p4") /\ CoreCancel)
         \/ \E op \in CoreOps : CoreBegin(op)
  PROVE  TurnAside
<1> USE ThreadsDiffer
    DEF IInv, TypeOK, PcTypeOK, HostTypeOK, Urbs, Flags, TInv, Calm, Copying, TurnAside, Asks,
        IntFailing, Leaving, Closing, At, Goto, Free, Acquire, Release, Set, Clear,
        locking, usb, life, wr, rsp, buf, dev, power
<1>1. CASE OutCallback \/ WwanTxComplete
  BY <1>1 DEF OutCallback, OutStatus, OutFree, OutWake, WwanTxComplete, Complete
<1>2. CASE IntExit /\ ~IntFailing
  BY <1>2 DEF IntExit, Submitted
<1>3. CASE SvcStep
  BY <1>3 DEF SvcStep, SvcStart, SubmitOwed, SvcEnd
<1>4. CASE WwanCall \/ WwanStep
  BY <1>4 DEF WwanCall, WwanStart, WwanTx, WwanStop, WwanStep, WwanClaim, WwanListen, WwanTxOff,
              PoisonUrbs, PoisonUrb, WwanLeave, Poisoned, WwanUnpoison, Undisturbed
<1>5. CASE CoreMutex \/ CoreDeinit \/ CoreRlock \/ CoreWlock
  BY <1>5 DEF CoreMutex, CoreDeinit, CoreRlock, CoreWlock, Undisturbed
<1>6. CASE CoreFlag /\ coreOp # "disconnect"
  BY <1>6 DEF CoreFlag
<1>7. CASE PoisonUrbs("core") \/ WwanLeave("core") \/ WwanUnpoison("core")
  BY <1>7 DEF PoisonUrbs, PoisonUrb, WwanLeave, Stopping, WwanUnpoison, CoreAgrees, CoreOpAt
<1>8. CASE CoreCancel /\ ~At("core", "p4")
  BY <1>8 DEF CoreCancel, CancelWork, Poisoned
<1>9. CASE CoreUnpoison \/ CorePost \/ CoreEnd
  BY <1>9 DEF CoreUnpoison, CorePost, CoreEnd, CoreAgrees, CoreOpAt
<1>10. CASE CoreResume \/ CoreRecount \/ CoreResubmit
  BY <1>10 DEF CoreResume, CoreRecount, CoreResubmit, Submitted
<1>11. CASE \E op \in CoreOps : CoreBegin(op)
  BY <1>11, ConstantTypes DEF CoreBegin, CoreFirst, Undisturbed
<1> HIDE DEF TurnAside, CoreCancel, CoreFlag, At, IntFailing
<1> QED
  BY <1>1, <1>2, <1>3, <1>4, <1>5, <1>6, <1>7, <1>8, <1>9, <1>10, <1>11 DEF CoreStep

\* What a step of the one reader under rlock leaves of the rest.
ReaderStep(p) ==
  /\ pc[p] \in Reading /\ pc'[p] \in Reading \cup {"open"}
  /\ \A t \in Threads \ {p} : pc'[t] = pc[t]
  /\ UNCHANGED <<rerr, coreOp, work, reslength>>
  /\ flags' \subseteq flags \cup {"RESPONDING"}
  /\ "DISCONNECTING" \in flags' <=> "DISCONNECTING" \in flags
  /\ pc'[p] \notin {"r_copy", "r_trim"}

\* Nobody else asks, copies or trims.
LEMMA ReaderFrame ==
  ASSUME IInv, TInv, NEW p \in Procs, ReaderStep(p)
  PROVE  /\ Calm' /\ Copying'
         /\ Asking <=> Asks(p)
         /\ Asking' <=> Asks(p)'
         /\ RxAsking' <=> RxAsking
         /\ RxQueued' <=> RxQueued
         /\ IntFailing' <=> IntFailing
         /\ Detached' <=> Detached
<1> USE DEF ReaderStep
<1>1. \A q \in Procs \ {p} : pc[q] \notin Reading /\ pc'[q] \notin Reading
  BY ThreadsDiffer DEF IInv, Owners
<1>2. Calm'
  BY ThreadsDiffer DEF TInv, Calm, Leaving, Closing, Reading
<1>3. Copying'
  BY <1>1 DEF Copying, Reading
<1>4. (Asking <=> Asks(p)) /\ (Asking' <=> Asks(p)')
  BY <1>1 DEF Asking, Asks, Reading
<1> QED
  BY <1>2, <1>3, <1>4, ThreadsDiffer DEF RxAsking, RxQueued, IntFailing, Detached

\* The reader that empties the buffer ends its turn if nothing more is owed, and keeps
\* it to ask if something is (535-549).
LEMMA DrainKeepsTurn ==
  ASSUME IInv, TInv, NEW p \in Procs, ReaderStep(p), ~Asks(p), "READ" \in flags,
         TakeOwed, UNCHANGED urb, ubuf' = <<>>,
         \/ ~Owed /\ flags' = flags \ {"READ"} /\ pc'[p] \in {"open", "r_retry"}
         \/ Owed /\ flags' = (flags \ {"READ"}) \cup {"RESPONDING"} /\ Asks(p)'
  PROVE  TInv'
<1>1. resp_count \in Nat
  BY DEF IInv, TypeOK, FieldsTypeOK
<1>2. Announced' /\ ~Unread'
  BY DEF Announced, Unread
<1>3. CASE ~Owed /\ flags' = flags \ {"READ"} /\ pc'[p] \in {"open", "r_retry"}
  <2>1. /\ ~Asking'
        /\ "RESPONDING" \in flags' <=> "RESPONDING" \in flags
    <3>1. ~Asks(p)'
      BY <1>3 DEF Asks
    <3> QED
      BY <1>3, <3>1, ReaderFrame
  <2>2. Detached \/ Unread
    BY DEF Detached, Unread
  <2>3. Turn'
    BY <1>2, <2>1, <2>2, ReaderFrame DEF TInv, Turn
  <2> QED
    BY <1>2, <2>3, ReaderFrame DEF TInv
<1>4. CASE Owed /\ flags' = (flags \ {"READ"}) \cup {"RESPONDING"} /\ Asks(p)'
  <2>1. Unread /\ resp_count' # 0
    BY <1>1, <1>4 DEF Owed, Settled, Refused, TakeOwed, Unread, Detached
  <2>2. Asking' /\ "RESPONDING" \in flags'
    BY <1>4, ReaderFrame
  <2>3. Turn'
    BY <1>2, <2>1, <2>2, ReaderFrame DEF TInv, Turn
  <2> QED
    BY <1>2, <2>3, ReaderFrame DEF TInv
<1> QED
  BY <1>3, <1>4

\* A trim that leaves bytes leaves the turn, too.
LEMMA TrimKeepsTurn ==
  ASSUME IInv, TInv, NEW p \in Procs, ReadTrim(p)
  PROVE  TInv'
<1>1. /\ pc[p] = "r_trim" /\ "READ" \in flags /\ DOMAIN pc = Threads
      /\ UNCHANGED <<rerr, coreOp, work, reslength, urb>>
  BY DEF ReadTrim, At, TInv, Copying, usb, power, IInv, TypeOK, PcTypeOK
<1>2. \/ UNCHANGED <<flags, resp_count>> /\ pc' = [pc EXCEPT ![p] = "open"] /\ ubuf' # <<>>
      \/ ~Owed /\ flags' = flags \ {"READ"} /\ pc' = [pc EXCEPT ![p] = "open"]
         /\ ubuf' = <<>> /\ TakeOwed
      \/ Owed /\ flags' = (flags \ {"READ"}) \cup {"RESPONDING"}
         /\ pc' = [pc EXCEPT ![p] = "d_submit"] /\ ubuf' = <<>> /\ TakeOwed
  BY DEF ReadTrim, ReadReturn, Goto, Clear
<1>3. ReaderStep(p) /\ ~Asks(p)
  BY <1>1, <1>2, ThreadsDiffer DEF ReaderStep, Reading, Asks
<1>4. CASE UNCHANGED <<flags, resp_count>> /\ pc' = [pc EXCEPT ![p] = "open"] /\ ubuf' # <<>>
  <2>1. ubuf # <<>>
    <3>1. cntr[p] \in Nat /\ ubuf \in Seq(Nat) /\ cntr[p] <= Len(ubuf)
      BY <1>1 DEF IInv, TypeOK, BytesTypeOK, CopyBounded
    <3>2. ubuf' \in Seq(Nat) /\ Len(ubuf') = Len(ubuf) - cntr[p]
      BY <3>1, TrimType DEF ReadTrim
    <3> QED
      BY <1>4, <3>1, <3>2
  <2>2. ~Asking /\ ~Asking'
    BY <1>1, <1>3, <1>4, ReaderFrame, ThreadsDiffer DEF Asks
  <2>3. Announced'
    BY <1>1, <1>4, <2>1 DEF TInv, Announced
  <2>4. Unread' <=> Unread
    BY <1>4 DEF Unread, Detached
  <2>5. Turn'
    BY <1>1, <1>3, <1>4, <2>1, <2>2, <2>4, ReaderFrame DEF TInv, Turn
  <2> QED
    BY <1>3, <2>3, <2>5, ReaderFrame DEF TInv
<1> QED
  BY <1>1, <1>2, <1>3, <1>4, DrainKeepsTurn, ThreadsDiffer DEF Asks

\* An empty answer is drained like one that was read.
LEMMA EmptyKeepsTurn ==
  ASSUME IInv, TInv, NEW p \in Procs, ReadEmpty(p)
  PROVE  TInv'
<1>1. /\ pc[p] = "r_spin" /\ "READ" \in flags /\ TakeOwed /\ DOMAIN pc = Threads
      /\ UNCHANGED <<rerr, coreOp, work, reslength, urb, ubuf>> /\ ubuf = <<>>
  BY DEF ReadEmpty, At, TInv, Announced, usb, power, IInv, TypeOK, PcTypeOK
<1>2. \/ ~Owed /\ flags' = flags \ {"READ"}
         /\ \E l \in {"open", "r_retry"} : pc' = [pc EXCEPT ![p] = l]
      \/ Owed /\ flags' = (flags \ {"READ"}) \cup {"RESPONDING"}
         /\ pc' = [pc EXCEPT ![p] = "z_submit"]
  BY DEF ReadEmpty, Goto, Clear, Owed
<1>3. ReaderStep(p) /\ ~Asks(p)
  BY <1>1, <1>2, ThreadsDiffer DEF ReaderStep, Reading, Asks
<1> QED
  BY <1>1, <1>2, <1>3, DrainKeepsTurn, ThreadsDiffer DEF Asks

\* The reader that asks hands the turn to the URB, or keeps it until it has cleared
\* RESPONDING.
LEMMA AskKeepsTurn ==
  ASSUME IInv, TInv, NEW p \in Procs,
         \/ SubmitOwed(p, "z_submit", "z_ok", "z_fail")
         \/ SubmitOwed(p, "d_submit", "d_ok", "d_fail")
  PROVE  TInv'
<1>1. /\ pc[p] \in {"z_submit", "d_submit"} /\ DOMAIN pc = Threads
      /\ UNCHANGED <<rerr, coreOp, work, flags, reslength, ubuf, resp_count>>
  BY DEF SubmitOwed, At, rsp, buf, power, IInv, TypeOK, PcTypeOK
<1>2. \/ urb'["response"] /\ \E l \in {"z_ok", "d_ok"} : pc' = [pc EXCEPT ![p] = l]
      \/ UNCHANGED urb /\ \E l \in {"z_fail", "d_fail"} : pc' = [pc EXCEPT ![p] = l]
  BY DEF SubmitOwed, Submitted, Goto, IInv, TypeOK, HostTypeOK, Urbs
<1>3. ReaderStep(p) /\ Asks(p)
  BY <1>1, <1>2, ThreadsDiffer DEF ReaderStep, Reading, Asks
<1>4. \/ urb'["response"] /\ ~Asks(p)'
      \/ UNCHANGED urb /\ Asks(p)'
  BY <1>1, <1>2, ThreadsDiffer DEF Asks
<1>5. Announced' /\ (Unread' <=> Unread)
  BY <1>1 DEF TInv, Announced, Unread, Detached
<1>6. Turn'
  BY <1>1, <1>3, <1>4, <1>5, ReaderFrame DEF TInv, Turn
<1> QED
  BY <1>3, <1>5, <1>6, ReaderFrame DEF TInv

\* The reader whose submission failed ends its turn.
LEMMA FailKeepsTurn ==
  ASSUME IInv, TInv, NEW p \in Procs,
         \/ ReadEmptyRelock(p) /\ ~At(p, "z_ok")
         \/ ReadDrained(p) /\ ~At(p, "d_ok")
  PROVE  TInv'
<1>1. /\ pc[p] \in {"z_fail", "d_fail"} /\ DOMAIN pc = Threads
      /\ UNCHANGED <<rerr, coreOp, work, reslength, ubuf, urb>>
      /\ flags' = flags \ {"RESPONDING"} /\ resp_count' = 0
      /\ pc' = [pc EXCEPT ![p] = "open"]
  BY DEF ReadEmptyRelock, ReadDrained, ReadReturn, At, Goto, Clear, usb, power, IInv, TypeOK,
         PcTypeOK
<1>2. ReaderStep(p) /\ Asks(p) /\ ~Asks(p)'
  BY <1>1, ThreadsDiffer DEF ReaderStep, Reading, Asks
<1>3. Announced' /\ (Unread' <=> Unread)
  BY <1>1 DEF TInv, Announced, Unread, Detached
<1>4. Turn'
  BY <1>1, <1>2, <1>3, ReaderFrame DEF TInv, Turn
<1> QED
  BY <1>2, <1>3, <1>4, ReaderFrame DEF TInv

\* The answer of the device, or of a cancelled URB, hands the turn to the readers.
LEMMA AnswerKeepsTurn ==
  ASSUME IInv, TInv, Undisturbed, InCallback
  PROVE  TInv'
<1>1. /\ urb["response"] /\ ubuf = <<>> /\ rerr = 0
      /\ ~(Asking \/ RxAsking \/ RxQueued \/ IntFailing)
      /\ UNCHANGED <<pc, coreOp, resp_count>> /\ ~urb'["response"]
  BY DEF InCallback, Complete, TInv, Turn, Calm, locking, power, IInv, TypeOK, HostTypeOK, Urbs
<1>2. /\ rerr' = 0 /\ UNCHANGED work /\ (ubuf' # <<>> => reslength' # 0)
      /\ flags' = (flags \ {"RESPONDING"}) \cup {"READ"}
  <2>1. CASE InUnlinked
    BY <1>1, <2>1 DEF InUnlinked, InSignal, TInv, Calm
  <2>2. CASE InAnswered
    <3>1. PICK r \in InOutcomes :
            /\ rerr' = IF rerr = 0 /\ r[1] = "EPROTO" THEN -1 ELSE rerr
            /\ InData(r[2])
            /\ InSignal(IF Overflows(r[2]) THEN {"OVERFLOW"} ELSE {})
      BY <2>2 DEF InAnswered
    <3>2. r[1] # "EPROTO" /\ r[2] \in Nat /\ r[2] <= wMaxCommand
      BY <3>1, AnswersKnown, ConstantTypes DEF InOutcomes, Undisturbed
    <3>3. ~Overflows(r[2]) /\ "OVERFLOW" \notin flags
      BY <1>1, <3>2, ConstantTypes DEF Overflows, TInv, Calm
    <3>4. ubuf' = ubuf \o Bytes(r[2]) /\ reslength' = r[2]
      BY <3>1, <3>3 DEF InData
    <3>5. ubuf' # <<>> => r[2] # 0
      <4>1. Bytes(r[2]) \in Seq(Nat) /\ Len(Bytes(r[2])) = r[2]
        BY <3>2, BytesType DEF IInv, TypeOK, BytesTypeOK
      <4>2. ubuf \in Seq(Nat) /\ Len(ubuf) = 0
        BY <1>1 DEF IInv, TypeOK, BytesTypeOK
      <4>3. /\ ubuf \o Bytes(r[2]) \in Seq(Nat)
            /\ Len(ubuf \o Bytes(r[2])) = Len(ubuf) + Len(Bytes(r[2]))
        BY <4>1, <4>2, ConcatProperties
      <4> QED
        BY <3>2, <3>4, <4>1, <4>2, <4>3
    <3> QED
      BY <1>1, <3>1, <3>2, <3>3, <3>4, <3>5 DEF InSignal
  <2>3. CASE InForwarded
    BY <2>3 DEF InForwarded, TInv, Calm
  <2> QED
    BY <2>1, <2>2, <2>3 DEF InCallback
<1>3. Calm' /\ Copying'
  BY <1>1, <1>2 DEF TInv, Calm, Copying
<1>4. Announced'
  BY <1>2 DEF Announced
<1>5. Turn'
  <2>1. /\ Asking' <=> Asking
        /\ RxAsking' <=> RxAsking
        /\ RxQueued' <=> RxQueued
        /\ IntFailing' <=> IntFailing
        /\ Detached' <=> Detached
    BY <1>1, <1>2 DEF Asking, Asks, RxAsking, RxQueued, IntFailing, Detached
  <2>2. resp_count = 0 => Detached
    BY <1>1 DEF TInv, Turn
  <2> QED
    BY <1>1, <2>1, <2>2 DEF Turn
<1> QED
  BY <1>3, <1>4, <1>5 DEF TInv

\* What a step of a callback or of rxwork leaves of the rest.
HandlerStep(t) ==
  /\ \A x \in Threads \ {t} : pc'[x] = pc[x]
  /\ UNCHANGED <<rerr, coreOp, ubuf, reslength>>
  /\ work' \subseteq work \cup {"rx"}
  /\ \A b \in Flags \ {"RESPONDING"} : b \in flags' <=> b \in flags

\* Readers, and what they may find, stay as they were.
LEMMA HandlerFrame ==
  ASSUME TInv, NEW t \in {"int", "rx"}, HandlerStep(t)
  PROVE  /\ Calm' /\ Copying' /\ Announced'
         /\ Asking' <=> Asking
         /\ Unread' <=> Unread
         /\ Detached' <=> Detached
         /\ t = "int" => (RxAsking' <=> RxAsking)
         /\ t = "rx" => (IntFailing' <=> IntFailing)
<1>1. \A x \in Threads \ {t} : pc'[x] = pc[x]
  BY DEF HandlerStep
<1>2. /\ "READ" \in flags' <=> "READ" \in flags
      /\ "DISCONNECTING" \in flags' <=> "DISCONNECTING" \in flags
      /\ flags \cap {"OVERFLOW", "WWAN_IN_USE", "RESETTING"} = {}
         => flags' \cap {"OVERFLOW", "WWAN_IN_USE", "RESETTING"} = {}
  BY DEF HandlerStep, Flags
<1>3. Calm'
  BY <1>1, <1>2, ThreadsDiffer DEF TInv, Calm, HandlerStep
<1>4. Copying' /\ Announced'
  BY <1>1, <1>2, ThreadsDiffer DEF TInv, Copying, Announced, HandlerStep
<1>5. Asking' <=> Asking
  BY <1>1, ThreadsDiffer DEF Asking, Asks
<1> QED
  BY <1>1, <1>2, <1>3, <1>4, <1>5, ThreadsDiffer
     DEF Unread, Detached, RxAsking, IntFailing

\* A notification with nothing owed takes the turn; any other is only counted.
LEMMA NotificationKeepsTurn ==
  ASSUME IInv, TInv, Undisturbed, IntComplete
  PROVE  TInv'
<1>1. /\ resp_count \in Nat /\ DOMAIN pc = Threads /\ urb \in [Urbs -> BOOLEAN]
      /\ UNCHANGED <<rerr, coreOp, ubuf, reslength>> /\ ~IntFailing
  BY DEF IntComplete, At, IntFailing, buf, power, IInv, TypeOK, PcTypeOK, FieldsTypeOK, HostTypeOK
<1>2. CASE IntNotified
  <2>1. /\ UNCHANGED work /\ flags' = flags \cup {"RESPONDING"}
        /\ resp_count' = resp_count + 1 /\ resp_count' # 0
    BY <1>1, <1>2 DEF IntNotified, IntRespond, Set
  <2>2. HandlerStep("int")
    BY <1>1, <1>2, <2>1 DEF HandlerStep, IntNotified, IntRespond, Goto, Flags
  <2>3. RxQueued' <=> RxQueued
    BY <2>1 DEF RxQueued
  <2>4. CASE resp_count = 0 /\ flags \cap {"RESPONDING", "DISCONNECTING", "SUSPENDING"} = {}
    <3>1. /\ ~(urb["response"] \/ Asking \/ RxAsking \/ RxQueued \/ Unread) /\ ubuf = <<>>
      BY <2>4 DEF TInv, Turn, Detached, Unread, Announced
    <3>2. \/ urb'["response"] /\ ~IntFailing'
          \/ ~urb'["response"] /\ IntFailing'
      <4>1. PICK rv \in SubmitResults("response") :
              /\ urb' = [Submitted("response", rv) EXCEPT !["validity"] = FALSE]
              /\ pc' = [pc EXCEPT !["int"] = IF rv = "ok" THEN "int_exit" ELSE rv]
        BY <1>2, <2>1, <2>4 DEF IntNotified, IntRespond, Goto
      <4>2. rv \in {"ok", "EBUSY", "EPERM", "EHOSTUNREACH", "ENOMEM"}
        BY <4>1, SubmitResultsKnown
      <4> QED
        BY <1>1, <3>1, <4>1, <4>2, ThreadsDiffer DEF Submitted, Urbs, IntFailing
    <3>3. Turn'
      BY <1>1, <2>1, <2>2, <2>3, <3>1, <3>2, HandlerFrame DEF Turn
    <3> QED
      BY <2>2, <3>3, HandlerFrame DEF TInv
  <2>5. CASE ~(resp_count = 0 /\ flags \cap {"RESPONDING", "DISCONNECTING", "SUSPENDING"} = {})
    <3>1. urb'["response"] = urb["response"] /\ ~IntFailing'
      BY <1>1, <1>2, <2>5, ThreadsDiffer
         DEF IntNotified, IntRespond, Complete, Goto, Urbs, IntFailing
    <3>2. Turn'
      BY <1>1, <2>1, <2>2, <2>3, <3>1, HandlerFrame DEF TInv, Turn
    <3> QED
      BY <2>2, <3>2, HandlerFrame DEF TInv
  <2> QED
    BY <2>4, <2>5
<1>3. CASE /\ IntUnlinked \/ IntFault
           /\ Complete("validity") /\ UNCHANGED resp_count
  <2>1. /\ UNCHANGED <<work, flags>> /\ urb'["response"] = urb["response"]
        /\ UNCHANGED pc \/ pc' = [pc EXCEPT !["int"] = "int_exit"]
    BY <1>1, <1>3 DEF IntUnlinked, IntFault, Undisturbed, Complete, Goto, Urbs
  <2>2. TurnAside
    BY <1>1, <1>3, <2>1, ThreadsDiffer
       DEF TurnAside, TInv, Calm, Copying, Asks, IntFailing
  <2> QED
    BY <2>2, TurnAsideKeeps
<1> QED
  BY <1>2, <1>3 DEF IntComplete

\* A failed submission of the callback ends its turn, or hands it to rxwork.
LEMMA ExitKeepsTurn ==
  ASSUME IInv, TInv, IntExit, IntFailing
  PROVE  TInv'
<1>1. /\ flags' = flags \ {"RESPONDING"} /\ pc' = [pc EXCEPT !["int"] = "idle"]
      /\ UNCHANGED <<rerr, coreOp, ubuf, reslength, resp_count>> /\ DOMAIN pc = Threads
      /\ work' \subseteq work \cup {"rx"}
  BY DEF IntExit, IntFailing, At, Goto, Clear, rsp, buf, power, IInv, TypeOK, PcTypeOK
<1>2. urb'["response"] = urb["response"]
  BY DEF IntExit, Submitted, IInv, TypeOK, HostTypeOK, Urbs
<1>3. HandlerStep("int") /\ ~IntFailing'
  BY <1>1, ThreadsDiffer DEF HandlerStep, Flags, IntFailing
<1>4. Turn'
  BY <1>1, <1>2, <1>3, HandlerFrame DEF TInv, Turn
<1> QED
  BY <1>3, <1>4, HandlerFrame DEF TInv

\* rxwork takes the turn if RESPONDING does not say that it is gone, hands it to the URB,
\* or queues itself again.
LEMMA RxKeepsTurn ==
  ASSUME IInv, TInv, RxStep
  PROVE  TInv'
<1>1. /\ UNCHANGED <<rerr, coreOp, ubuf, reslength, resp_count>> /\ DOMAIN pc = Threads
      /\ urb \in [Urbs -> BOOLEAN] /\ pc["rx"] \in {"idle", "rx_submit", "rx_fail"}
  BY DEF RxStep, RxStart, RxSubmit, RxFail, rsp, buf, power, IInv, TypeOK, PcTypeOK, HostTypeOK
<1>2. CASE RxStart
  <2>1. /\ RxQueued /\ ~RxQueued' /\ UNCHANGED urb /\ work' \subseteq work
        /\ \/ /\ flags \cap {"DISCONNECTING", "RESPONDING"} = {}
              /\ flags' = flags \cup {"RESPONDING"} /\ pc' = [pc EXCEPT !["rx"] = "rx_submit"]
           \/ UNCHANGED <<flags, pc>> /\ pc["rx"] = "idle"
    BY <1>2, <1>1 DEF RxStart, RxQueued, At, Set, Goto, usb
  <2>2. HandlerStep("rx")
    BY <1>1, <2>1 DEF HandlerStep, Flags
  <2>3. /\ ~RxAsking' \/ ("RESPONDING" \in flags' /\ ~Detached)
        /\ "RESPONDING" \in flags => "RESPONDING" \in flags'
    BY <1>1, <2>1, ThreadsDiffer DEF RxAsking, Detached
  <2>4. RxAsking' => ubuf = <<>>
    BY <2>1, <2>3 DEF TInv, Turn, Unread, Announced
  <2>5. Turn'
    BY <1>1, <2>1, <2>2, <2>3, <2>4, HandlerFrame DEF TInv, Turn
  <2> QED
    BY <2>2, <2>5, HandlerFrame DEF TInv
<1>3. CASE RxSubmit
  <2>1. /\ RxAsking /\ UNCHANGED <<flags, work>>
        /\ \/ urb'["response"] /\ pc' = [pc EXCEPT !["rx"] = "idle"]
           \/ UNCHANGED urb /\ \E l \in {"idle", "rx_fail"} : pc' = [pc EXCEPT !["rx"] = l]
    BY <1>1, <1>3 DEF RxSubmit, Submitted, RxAsking, At, Goto, Urbs
  <2>2. HandlerStep("rx") /\ (RxQueued' <=> RxQueued)
    BY <1>1, <2>1 DEF HandlerStep, RxQueued
  <2>3. ~RxAsking' \/ ~urb'["response"]
    BY <1>1, <2>1, ThreadsDiffer DEF RxAsking, TInv, Turn
  <2>4. Turn'
    BY <1>1, <2>1, <2>2, <2>3, HandlerFrame DEF TInv, Turn
  <2> QED
    BY <2>2, <2>4, HandlerFrame DEF TInv
<1>4. CASE RxFail
  <2>1. /\ RxAsking /\ flags' = flags \ {"RESPONDING"} /\ work' \subseteq work \cup {"rx"}
        /\ UNCHANGED urb /\ pc' = [pc EXCEPT !["rx"] = "idle"]
    BY <1>4 DEF RxFail, RxAsking, At, Clear, Goto, usb
  <2>2. HandlerStep("rx") /\ ~RxAsking'
    BY <1>1, <2>1, ThreadsDiffer DEF HandlerStep, Flags, RxAsking
  <2>3. Turn'
    BY <1>1, <2>1, <2>2, HandlerFrame DEF TInv, Turn
  <2> QED
    BY <2>2, <2>3, HandlerFrame DEF TInv
<1> QED
  BY <1>2, <1>3, <1>4 DEF RxStep

\* A disconnect wakes the readers without bytes, and from then on nobody asks anew; the
\* core cancels rxwork's turn with it.
LEMMA CoreKeepsTurn ==
  ASSUME IInv, TInv, \/ coreOp = "disconnect" /\ CoreFlag
                     \/ At("core", "p4") /\ CoreCancel
  PROVE  TInv'
<1>1. /\ UNCHANGED <<rerr, ubuf, reslength, resp_count, urb, coreOp>> /\ DOMAIN pc = Threads
      /\ \E l \in {"c_rlock", "c_svc"} : pc' = [pc EXCEPT !["core"] = l]
      /\ \/ UNCHANGED work /\ flags' = flags \cup {"DISCONNECTING", "READ"}
         \/ UNCHANGED flags /\ work' = work \ {"rx"}
  <2>1. CASE coreOp = "disconnect" /\ CoreFlag
    BY <2>1 DEF CoreFlag, Set, Goto, usb, rsp, buf, IInv, TypeOK, PcTypeOK
  <2>2. CASE At("core", "p4") /\ CoreCancel
    BY <2>2 DEF CoreCancel, CancelWork, Goto, At, usb, rsp, buf, power, IInv, TypeOK, PcTypeOK
  <2> QED
    BY <2>1, <2>2
<1>2. \A t \in Threads \ {"core"} : pc'[t] = pc[t]
  BY <1>1
<1>3. Calm'
  BY <1>1, <1>2, ThreadsDiffer DEF TInv, Calm
<1>4. Announced' /\ Copying'
  BY <1>1, <1>2, ThreadsDiffer DEF TInv, Announced, Copying
<1>5. Turn'
  <2>1. /\ Asking' <=> Asking
        /\ RxAsking' <=> RxAsking
        /\ IntFailing' <=> IntFailing
        /\ RxQueued' => RxQueued
        /\ Unread' => Unread
        /\ Detached => Detached'
        /\ "RESPONDING" \in flags => "RESPONDING" \in flags'
    BY <1>1, <1>2, ThreadsDiffer DEF Asking, Asks, RxAsking, IntFailing, RxQueued, Unread, Detached
  <2> QED
    BY <1>1, <2>1 DEF TInv, Turn
<1> QED
  BY <1>3, <1>4, <1>5 DEF TInv

\* Every step keeps what is said of the turn.
LEMMA NextKeepsTurn ==
  ASSUME IInv, TInv, Undisturbed, [Next]_vars
  PROVE  TInv'
<1>1. ASSUME NEW p \in Procs, ProcStep(p) \/ ProcCall(p)
      PROVE  TInv'
  <2>1. CASE WriteStep(p) \/ WriteCall(p) \/ FileStep(p) \/ OpenCall(p)
    BY <2>1, CallTurnAside, TurnAsideKeeps DEF Undisturbed
  <2>2. CASE ReadStep(p) \/ ReadCall(p)
    BY <2>2, ReadTurnAside, TurnAsideKeeps, TrimKeepsTurn, EmptyKeepsTurn, AskKeepsTurn,
       FailKeepsTurn DEF ReadStep, ReadCall
  <2> QED
    BY <1>1, <2>1, <2>2 DEF ProcStep, ProcCall
<1>2. CASE OutCallback \/ WwanTxComplete \/ WwanCall \/ WwanStep
  BY <1>2, OthersTurnAside, TurnAsideKeeps
<1>3. CASE WorkStep
  BY <1>3, OthersTurnAside, TurnAsideKeeps, RxKeepsTurn DEF WorkStep
<1>4. CASE CoreStep \/ \E op \in CoreOps : CoreBegin(op)
  BY <1>4, OthersTurnAside, TurnAsideKeeps, CoreKeepsTurn
<1>5. CASE InCallback \/ IntCallback
  BY <1>5, AnswerKeepsTurn, NotificationKeepsTurn, ExitKeepsTurn, OthersTurnAside,
     TurnAsideKeeps DEF IntCallback
<1>6. CASE UNCHANGED vars
  <2>1. TurnAside
    BY <1>6 DEF vars, locking, usb, rsp, buf, power, TurnAside, TInv, Calm, Copying, Asks,
                IntFailing
  <2> QED
    BY <2>1, TurnAsideKeeps
<1> QED
  BY <1>1, <1>2, <1>3, <1>4, <1>5, <1>6 DEF Next

\* Nobody submits the response URB while it is active: not a reader that drained the
\* buffer (535-549), not rxwork (1031-1034), whatever notifications, failed submissions,
\* suspends and resumes, empty answers and a disconnect come between the decision and
\* the submission.
THEOREM OneSubmitter ==
  ASSUME Undisturbed
  PROVE  Spec => []ResponseExclusive
<1>1. IInv /\ TInv /\ [Next]_vars => TInv'
  BY NextKeepsTurn
<1>2. IInv /\ TInv => ResponseExclusive
  <2> SUFFICES ASSUME IInv, TInv, NEW t \in Procs \cup {"rx", "svc"}, Submitting(t)
               PROVE  ~urb["response"]
    BY DEF ResponseExclusive
  <2>1. CASE t \in Procs /\ pc[t] \in {"z_submit", "d_submit"}
    BY <2>1 DEF TInv, Turn, Asking, Asks
  <2>2. CASE t \in Procs /\ pc[t] \in {"svc_submit", "rx_submit"}
    BY <2>2 DEF IInv, TypeOK, PcTypeOK, ProcPc
  <2>3. CASE t = "rx"
    BY <2>3 DEF TInv, Turn, RxAsking, Submitting
  <2>4. CASE t = "svc"
    BY <2>4 DEF TInv, Calm, Submitting
  <2> QED
    BY <2>1, <2>2, <2>3, <2>4 DEF Submitting
<1> QED
  BY <1>1, <1>2, InitTurn, Invariant, PTL DEF Spec

-----------------------------------------------------------------------------
(* Nobody forgotten.  What is owed is either at the readers (READ), with        *)
(* service_interrupt_work, or pursued: the URB is out or somebody is about to   *)
(* submit it, or to give up and set resp_count to zero.                         *)

\* What this rests on: submissions do not fail for a reason of their own, the device
\* does not sleep, reset or go, there is no port; and a stall, which leaves the
\* response to rxwork, does not meet a close, which bars rxwork's submission.
\* Answers of any kind, errors among them, are allowed, and so are closes.
Reliable ==
  /\ SubmitFaults = {} /\ CoreOps = {} /\ ~HasWwan
  /\ "stall" \notin IntFaults \/ NeverClose

Pursued ==
  \/ urb["response"] \/ Asking
  \/ pc["svc"] \in {"svc_submit", "svc_fail"} \/ pc["rx"] = "rx_submit"

Steady ==
  /\ pm = "active" /\ coreOp = "none" /\ pc["core"] = "idle" /\ pc["wwan"] = "stopped"
  /\ flags \subseteq {"IN_USE", "READ", "RESPONDING", "OVERFLOW"}
  /\ pc["int"] \in {"idle", "int_exit", "EBUSY"}
  /\ "stall" \notin IntFaults => pc["rx"] = "idle" /\ "rx" \notin work
  /\ NeverClose => \A p \in Procs : pc[p] \notin Leaving

Sought == resp_count > 0 => Pursued \/ "READ" \in flags \/ "svc" \in work

\* A RESPONDING that a notification would mistake for a submission is one.
Kept == "RESPONDING" \in flags /\ resp_count <= 1 => Pursued

PInv == Steady /\ Sought /\ Kept

\* What a step does that leaves the pursuit alone.
PursuitAside ==
  /\ UNCHANGED resp_count /\ urb'["response"] = urb["response"]
  /\ \A b \in {"READ", "RESPONDING"} : b \in flags' <=> b \in flags
  /\ "svc" \in work' <=> "svc" \in work
  /\ pc'["rx"] = pc["rx"] /\ pc'["svc"] = pc["svc"]
  /\ Asking' <=> Asking
  /\ Steady'

\* It keeps it.
LEMMA PursuitAsideKeeps ==
  ASSUME PInv, PursuitAside
  PROVE  PInv'
BY DEF PInv, Sought, Kept, Pursued, PursuitAside

\* At first nothing is owed.
LEMMA InitPursuit == Init => PInv
BY ThreadsDiffer
   DEF Init, PInv, Steady, Sought, Kept, Pursued, Asking, Asks, Leaving, Closing, Urbs, Threads

\* While the device is awake and nobody closes, the response URB is not barred.
LEMMA Unbarred ==
  ASSUME IInv, QInv, PInv, NeverClose
  PROVE  poison["response"] = 0
<1>1. Barring["response"] = Stopped \cup {"p4"}
  BY DEF Barring
<1>2. /\ \A p \in Procs : pc[p] \notin Leaving
      /\ pc["core"] = "idle" /\ pc["wwan"] = "stopped"
  BY DEF PInv, Steady
<1>3. \A p \in Procs : pc[p] \notin Stopped \cup {"p4"}
  <2> SUFFICES ASSUME NEW p \in Procs
               PROVE  pc[p] \notin Stopped \cup {"p4"}
    OBVIOUS
  <2>1. pc[p] \in ProcPc \ Leaving
    BY <1>2 DEF IInv, TypeOK, PcTypeOK
  <2> QED
    BY <2>1 DEF ProcPc, Stopped, Leaving, Closing
<1>4. Bars({"core"}, "response") = 0 /\ Bars({"wwan"}, "response") = 0
  BY <1>1, <1>2 DEF Bars, Stopped
<1>5. Bars(Procs, "response") = 0
  BY <1>1, <1>3 DEF Bars
<1> QED
  BY <1>4, <1>5 DEF QInv, PoisonKnown, Urbs

\* So its submission succeeds, or finds it out.
LEMMA ReliableSubmit ==
  ASSUME PInv, Reliable, ~(poison["response"] > 0)
  PROVE  SubmitResults("response") = IF urb["response"] THEN {"EBUSY"} ELSE {"ok"}
<1>1. CASE urb["response"]
  BY <1>1 DEF SubmitResults, Reliable, PInv, Steady
<1>2. CASE ~urb["response"]
  BY <1>2 DEF SubmitResults, Reliable, PInv, Steady
<1> QED
  BY <1>1, <1>2

\* What a step of process p leaves of the rest.
ProcessStep(p) ==
  /\ \A t \in Threads \ {p} : pc'[t] = pc[t]
  /\ UNCHANGED <<pm, coreOp>>
  /\ flags' \subseteq flags \cup {"IN_USE", "RESPONDING"}
  /\ work' \subseteq work
  /\ NeverClose => pc'[p] \notin Leaving

\* Nobody else is about to ask, or stops.
LEMMA ProcessFrame ==
  ASSUME PInv, NEW p \in Procs, ProcessStep(p)
  PROVE  /\ Steady'
         /\ Asks(p)' => Asking'
         /\ ~Asks(p) /\ Asking => Asking'
         /\ (Asks(p)' <=> Asks(p)) => (Asking' <=> Asking)
         /\ pc'["rx"] = pc["rx"] /\ pc'["svc"] = pc["svc"]
<1>1. \A q \in Procs \ {p} : pc'[q] = pc[q]
  BY ThreadsDiffer DEF ProcessStep
<1>2. Steady'
  BY <1>1, ThreadsDiffer DEF PInv, Steady, ProcessStep
<1> QED
  BY <1>1, <1>2, ThreadsDiffer DEF Asking, Asks, ProcessStep

\* write(), fsync(), open() and close() leave the pursuit alone, but for what the last
\* close forgets.
LEMMA CallPursuitAside ==
  ASSUME IInv, PInv, NEW p \in Procs, WriteStep(p) \/ WriteCall(p) \/ FileStep(p) \/ OpenCall(p)
  PROVE  PInv'
<1> DEFINE Frame == /\ ProcessStep(p) /\ (Asks(p)' <=> Asks(p))
                    /\ UNCHANGED work /\ urb'["response"] = urb["response"]
           Aside == /\ Frame /\ UNCHANGED resp_count
                    /\ \A b \in {"READ", "RESPONDING"} : b \in flags' <=> b \in flags
<1>1. CASE ~ReleaseForget(p)
  <2>1. Aside
    <3> USE ThreadsDiffer
        DEF IInv, TypeOK, PcTypeOK, HostTypeOK, Urbs, PInv, Steady, ProcessStep, Asks,
            Leaving, Closing, At, Goto, Free, Acquire, Release, Set, Clear,
            locking, usb, life, wr, rsp, buf, dev, power
    <3>1. CASE WriteStart(p) \/ WriteLock(p) \/ WritePm(p) \/ WriteWait(p)
      BY <3>1 DEF WriteStart, WriteLock, WritePm, WriteWait
    <3>2. CASE WriteGiveUp(p) \/ WriteCheck(p) \/ WriteFill(p)
      BY <3>2 DEF WriteGiveUp, WriteCheck, WriteFill, WriteReturn
    <3>3. CASE WriteSubmit(p)
      BY <3>3 DEF WriteSubmit, WriteReturn, Submitted
    <3>4. CASE Fsync(p) \/ Flush(p)
      BY <3>4 DEF Fsync, Flush, NeverClose
    <3>5. ASSUME NEW k \in {"fsync", "flush"},
                 AwaitCommand(p, k) \/ AwaitStatus(p, k) \/ AwaitGiveUp(p, k)
          PROVE  Aside
      BY <3>5 DEF AwaitCommand, AwaitStatus, AwaitGiveUp, WerrAt, WaitReturn, WaitAt
    <3>6. CASE OpenCall(p) \/ OpenLock(p) \/ OpenPm(p)
      BY <3>6 DEF OpenCall, OpenLock, OpenPm
    <3>7. CASE OpenCount(p)
      BY <3>7 DEF OpenCount, Submitted
    <3>8. CASE ReleaseLock(p) \/ ReleaseCount(p) \/ PoisonUrbs(p) \/ ReleaseUnpoison(p)
      BY <3>8 DEF ReleaseLock, ReleaseCount, PoisonUrbs, PoisonUrb, ReleaseUnpoison
    <3> HIDE DEF Aside
    <3> QED
      BY <1>1, <3>1, <3>2, <3>3, <3>4, <3>5, <3>6, <3>7, <3>8 DEF WriteStep, WriteCall, FileStep
  <2>2. PursuitAside
    BY <2>1, ProcessFrame DEF PursuitAside
  <2> QED
    BY <2>2, PursuitAsideKeeps
<1>2. CASE ReleaseForget(p)
  <2>1. /\ pc[p] = "p4" /\ \A t \in Threads \ {p} : pc'[t] = pc[t]
        /\ UNCHANGED <<pm, coreOp, work>> /\ resp_count' = 0
        /\ flags' = flags \ {"RESPONDING"}
    BY <1>2 DEF ReleaseForget, Poisoned, At, Goto, Clear, power, IInv, TypeOK, PcTypeOK
  <2>2. ProcessStep(p)
    BY <2>1, ThreadsDiffer DEF ProcessStep, PInv, Steady, Leaving, Closing
  <2> QED
    BY <2>1, <2>2, ProcessFrame DEF PInv, Sought, Kept
<1> QED
  BY <1>1, <1>2

\* So does a read but where it empties the buffer or submits.
LEMMA ReadPursuitAside ==
  ASSUME IInv, PInv, NEW p \in Procs,
         \/ ReadLock(p) \/ ReadGiveUp(p) \/ ReadRetry(p) \/ ReadWait(p) \/ ReadCheck(p)
         \/ ReadLockIuspin(p) \/ ReadCopy(p)
         \/ ReadEmptyRelock(p) /\ At(p, "z_ok")
         \/ ReadDrained(p) /\ At(p, "d_ok")
  PROVE  PInv'
<1> DEFINE Aside == /\ ProcessStep(p) /\ (Asks(p)' <=> Asks(p))
                    /\ UNCHANGED <<work, urb, resp_count>>
                    /\ \A b \in {"READ", "RESPONDING"} : b \in flags' <=> b \in flags
<1>1. Aside
  <2> USE ThreadsDiffer
      DEF IInv, TypeOK, PcTypeOK, PInv, Steady, ProcessStep, Asks, Leaving, Closing, At, Goto,
          Free, Acquire, Release, Set, Clear, locking, usb, life, wr, rsp, buf, dev, power
  <2>1. CASE ReadLock(p) \/ ReadGiveUp(p) \/ ReadWait(p)
    BY <2>1 DEF ReadLock, ReadGiveUp, ReadWait, ReadReturn
  <2>2. CASE ReadRetry(p) \/ ReadCheck(p)
    BY <2>2 DEF ReadRetry, ReadCheck, ReadReturn
  <2>3. CASE ReadLockIuspin(p)
    BY <2>3 DEF ReadLockIuspin, ReadReturn
  <2>4. CASE ReadCopy(p)
    BY <2>4 DEF ReadCopy
  <2>5. CASE ReadEmptyRelock(p) /\ At(p, "z_ok")
    BY <2>5 DEF ReadEmptyRelock
  <2>6. CASE ReadDrained(p) /\ At(p, "d_ok")
    BY <2>6 DEF ReadDrained, ReadReturn
  <2> HIDE DEF Aside
  <2> QED
    BY <2>1, <2>2, <2>3, <2>4, <2>5, <2>6
<1>2. PursuitAside
  BY <1>1, ProcessFrame DEF PursuitAside
<1> QED
  BY <1>2, PursuitAsideKeeps

\* The reader that empties the buffer settles the last notification owed, or pursues the
\* next (535-549).
LEMMA DrainKeepsPursuit ==
  ASSUME IInv, PInv, NEW p \in Procs, ReadEmpty(p) \/ ReadTrim(p)
  PROVE  PInv'
<1>1. /\ ~Asks(p) /\ p \in Threads /\ DOMAIN pc = Threads /\ resp_count \in Nat /\ ~Refused
      /\ UNCHANGED <<urb, work, pm, coreOp>>
  BY ThreadsDiffer
     DEF ReadEmpty, ReadTrim, At, Asks, usb, power, IInv, TypeOK, PcTypeOK, FieldsTypeOK,
         Refused, PInv, Steady
<1>2. CASE UNCHANGED <<flags, resp_count>> /\ pc' = [pc EXCEPT ![p] = "open"]
  <2>1. ProcessStep(p) /\ ~Asks(p)'
    BY <1>1, <1>2 DEF ProcessStep, Asks, Leaving, Closing
  <2>2. PursuitAside
    BY <1>1, <1>2, <2>1, ProcessFrame DEF PursuitAside
  <2> QED
    BY <2>2, PursuitAsideKeeps
<1>3. CASE /\ ~Owed /\ flags' = flags \ {"READ"} /\ TakeOwed
           /\ \E l \in {"open", "r_retry"} : pc' = [pc EXCEPT ![p] = l]
  <2>1. ProcessStep(p)
    BY <1>1, <1>3 DEF ProcessStep, Leaving, Closing
  <2>2. resp_count <= 1 /\ resp_count' = 0
    BY <1>1, <1>3 DEF Owed, Settled, TakeOwed
  <2>3. Pursued => Pursued'
    BY <1>1, <2>1, ProcessFrame DEF Pursued
  <2> QED
    BY <1>3, <2>1, <2>2, <2>3, ProcessFrame DEF PInv, Sought, Kept
<1>4. CASE /\ Owed /\ flags' = (flags \ {"READ"}) \cup {"RESPONDING"}
           /\ \E l \in {"d_submit", "z_submit"} : pc' = [pc EXCEPT ![p] = l]
  <2>1. ProcessStep(p) /\ Asks(p)'
    BY <1>1, <1>4 DEF ProcessStep, Asks, Leaving, Closing
  <2> QED
    BY <2>1, ProcessFrame DEF PInv, Sought, Kept, Pursued
<1> QED
  BY <1>1, <1>2, <1>3, <1>4 DEF ReadEmpty, ReadTrim, ReadReturn, Goto, Clear, Owed

\* The reader that asks has the URB out, or gives up and sets resp_count to zero.
LEMMA AskKeepsPursuit ==
  ASSUME IInv, PInv, NEW p \in Procs,
         \/ SubmitOwed(p, "z_submit", "z_ok", "z_fail")
         \/ SubmitOwed(p, "d_submit", "d_ok", "d_fail")
         \/ ReadEmptyRelock(p) /\ ~At(p, "z_ok")
         \/ ReadDrained(p) /\ ~At(p, "d_ok")
  PROVE  PInv'
<1>1. /\ p \in Threads /\ DOMAIN pc = Threads /\ UNCHANGED <<work, pm, coreOp>>
  BY ThreadsDiffer
     DEF SubmitOwed, ReadEmptyRelock, ReadDrained, power, IInv, TypeOK, PcTypeOK
<1>2. CASE \/ SubmitOwed(p, "z_submit", "z_ok", "z_fail")
           \/ SubmitOwed(p, "d_submit", "d_ok", "d_fail")
  <2>1. /\ UNCHANGED flags
        /\ \/ urb'["response"] /\ \E l \in {"z_ok", "d_ok"} : pc' = [pc EXCEPT ![p] = l]
           \/ \E l \in {"z_fail", "d_fail"} : pc' = [pc EXCEPT ![p] = l]
    BY <1>2 DEF SubmitOwed, Submitted, Goto, IInv, TypeOK, HostTypeOK, Urbs
  <2>2. ProcessStep(p) /\ (urb'["response"] \/ Asks(p)')
    BY <1>1, <2>1 DEF ProcessStep, Asks, Leaving, Closing
  <2> QED
    BY <2>2, ProcessFrame DEF PInv, Sought, Kept, Pursued
<1>3. CASE \/ ReadEmptyRelock(p) /\ ~At(p, "z_ok")
           \/ ReadDrained(p) /\ ~At(p, "d_ok")
  <2>1. /\ flags' = flags \ {"RESPONDING"} /\ resp_count' = 0 /\ pc' = [pc EXCEPT ![p] = "open"]
    BY <1>3 DEF ReadEmptyRelock, ReadDrained, ReadReturn, Goto, Clear
  <2>2. ProcessStep(p)
    BY <1>1, <2>1 DEF ProcessStep, Leaving, Closing
  <2> QED
    BY <2>1, <2>2, ProcessFrame DEF PInv, Sought, Kept
<1> QED
  BY <1>2, <1>3

\* An answer, of whatever kind, sets READ or leaves the device to service_interrupt_work
\* (270-283).
LEMMA AnswerKeepsPursuit ==
  ASSUME IInv, PInv, InCallback
  PROVE  PInv'
<1>1. UNCHANGED <<pc, pm, coreOp, resp_count>>
  BY DEF InCallback, locking, power
<1>2. /\ "RESPONDING" \notin flags' /\ flags' \subseteq flags \cup {"READ", "OVERFLOW"}
      /\ "READ" \in flags' \/ "svc" \in work'
      /\ "rx" \in work' => "rx" \in work
  BY DEF InCallback, InUnlinked, InAnswered, InForwarded, InSignal, PInv, Steady
<1>3. Steady'
  BY <1>1, <1>2 DEF PInv, Steady
<1> QED
  BY <1>2, <1>3 DEF PInv, Sought, Kept

\* What a step of a handler leaves of the rest.
OtherStep(t) ==
  /\ \A x \in Threads \ {t} : pc'[x] = pc[x]
  /\ UNCHANGED <<pm, coreOp>>
  /\ flags' \subseteq flags \cup {"IN_USE", "READ", "RESPONDING"}
  /\ "rx" \in work' => "rx" \in work \/ "stall" \in IntFaults
  /\ t = "int" => pc'["int"] \in {"idle", "int_exit", "EBUSY"}
  /\ t = "rx" => "stall" \in IntFaults

\* Readers ask as before.
LEMMA OtherFrame ==
  ASSUME PInv, NEW t \in {"int", "out", "rx", "svc"}, OtherStep(t)
  PROVE  Steady' /\ (Asking' <=> Asking)
<1>1. \A p \in Procs : pc'[p] = pc[p]
  BY ThreadsDiffer DEF OtherStep
<1>2. Steady'
  BY <1>1, ThreadsDiffer DEF PInv, Steady, OtherStep
<1> QED
  BY <1>1, <1>2 DEF Asking, Asks

\* The command's callback leaves the pursuit alone.
LEMMA OutPursuitAside ==
  ASSUME IInv, PInv, OutCallback \/ WwanTxComplete
  PROVE  PInv'
<1>1. /\ UNCHANGED <<resp_count, work>> /\ urb'["response"] = urb["response"]
      /\ \A b \in {"READ", "RESPONDING"} : b \in flags' <=> b \in flags
      /\ OtherStep("out") /\ pc'["rx"] = pc["rx"] /\ pc'["svc"] = pc["svc"]
  BY ThreadsDiffer
     DEF OutCallback, OutStatus, OutFree, OutWake, WwanTxComplete, Complete, At, Goto, Clear,
         Urbs, OtherStep, IInv, TypeOK, PcTypeOK, HostTypeOK, locking, usb, life, wr, rsp, buf,
         dev, power
<1>2. PursuitAside
  BY <1>1, OtherFrame DEF PursuitAside
<1> QED
  BY <1>2, PursuitAsideKeeps

\* A notification that finds none owed and RESPONDING clear submits the URB (352-359): it
\* polls still, so nobody has poisoned the response URB.  One that submits nothing finds
\* the pursuit under way.
LEMMA NotificationKeepsPursuit ==
  ASSUME IInv, QInv, PInv, Reliable, IntComplete
  PROVE  PInv'
<1>1. /\ urb["validity"] /\ resp_count \in Nat /\ DOMAIN pc = Threads
      /\ urb \in [Urbs -> BOOLEAN] /\ UNCHANGED <<pm, coreOp>>
      /\ flags \cap {"DISCONNECTING", "SUSPENDING"} = {}
  BY DEF IntComplete, power, IInv, TypeOK, PcTypeOK, FieldsTypeOK, HostTypeOK, PInv, Steady
<1>2. CASE IntNotified
  <2>1. /\ UNCHANGED work /\ flags' = flags \cup {"RESPONDING"}
        /\ resp_count' = resp_count + 1
    BY <1>2 DEF IntNotified, IntRespond, Set
  <2>2. CASE resp_count = 0 /\ "RESPONDING" \notin flags
    <3>1. PICK rv \in SubmitResults("response") :
            /\ urb' = [Submitted("response", rv) EXCEPT !["validity"] = FALSE]
            /\ pc' = [pc EXCEPT !["int"] = IF rv = "ok" THEN "int_exit" ELSE rv]
      BY <1>1, <1>2, <2>2 DEF IntNotified, IntRespond, Goto
    <3>2. rv = IF urb["response"] THEN "EBUSY" ELSE "ok"
      BY <1>1, <3>1, ResponseLast, ReliableSubmit
    <3>3. urb'["response"] /\ OtherStep("int")
      BY <1>1, <2>1, <3>1, <3>2, ThreadsDiffer DEF Submitted, Urbs, OtherStep
    <3> QED
      BY <3>3, OtherFrame DEF PInv, Sought, Kept, Pursued
  <2>3. CASE ~(resp_count = 0 /\ "RESPONDING" \notin flags)
    <3>1. Complete("validity") /\ Goto("int", "int_exit")
      BY <1>1, <1>2, <2>3 DEF IntNotified, IntRespond
    <3>2. OtherStep("int") /\ urb'["response"] = urb["response"]
          /\ pc'["rx"] = pc["rx"] /\ pc'["svc"] = pc["svc"]
      BY <1>1, <2>1, <3>1, ThreadsDiffer DEF Complete, Goto, Urbs, OtherStep
    <3>3. Pursued => Pursued'
      BY <3>2, OtherFrame DEF Pursued
    <3> QED
      BY <1>1, <2>1, <2>3, <3>2, <3>3, OtherFrame DEF PInv, Sought, Kept
  <2> QED
    BY <2>2, <2>3
<1>3. CASE /\ IntUnlinked \/ IntFault
           /\ Complete("validity") /\ UNCHANGED resp_count
  <2>1. /\ UNCHANGED flags /\ urb'["response"] = urb["response"]
        /\ UNCHANGED pc \/ pc' = [pc EXCEPT !["int"] = "int_exit"]
        /\ UNCHANGED work \/ ("stall" \in IntFaults /\ work' = work \cup {"rx"})
    BY <1>1, <1>3 DEF IntUnlinked, IntFault, Complete, Goto, Urbs
  <2>2. /\ OtherStep("int") /\ pc'["rx"] = pc["rx"] /\ pc'["svc"] = pc["svc"]
        /\ "svc" \in work' <=> "svc" \in work
    BY <1>1, <2>1, ThreadsDiffer DEF OtherStep, PInv, Steady
  <2>3. PursuitAside
    BY <1>3, <2>1, <2>2, OtherFrame DEF PursuitAside
  <2> QED
    BY <2>3, PursuitAsideKeeps
<1> QED
  BY <1>2, <1>3 DEF IntComplete

\* The end of a notification gives RESPONDING up only where the URB was out already
\* (363); then nothing is mistaken.
LEMMA ExitKeepsPursuit ==
  ASSUME IInv, PInv, IntExit
  PROVE  PInv'
<1>1. /\ UNCHANGED <<work, resp_count>> /\ urb'["response"] = urb["response"]
      /\ flags' = flags \/ flags' = flags \ {"RESPONDING"}
      /\ OtherStep("int") /\ pc'["rx"] = pc["rx"] /\ pc'["svc"] = pc["svc"]
  BY ThreadsDiffer
     DEF IntExit, Submitted, At, Goto, Clear, Urbs, OtherStep, PInv, Steady, rsp, power,
         IInv, TypeOK, PcTypeOK, HostTypeOK
<1>2. Pursued' <=> Pursued
  BY <1>1, OtherFrame DEF Pursued
<1> QED
  BY <1>1, <1>2, OtherFrame DEF PInv, Sought, Kept

\* rxwork runs only after a stall, when nobody closes: its submission succeeds or finds
\* the URB out (1031-1040).
LEMMA RxKeepsPursuit ==
  ASSUME IInv, QInv, PInv, Reliable, RxStep
  PROVE  PInv'
<1>1. /\ "stall" \in IntFaults /\ NeverClose
      /\ DOMAIN pc = Threads /\ urb \in [Urbs -> BOOLEAN]
      /\ UNCHANGED <<pm, coreOp, resp_count>>
      /\ "svc" \in work' <=> "svc" \in work
  BY DEF RxStep, RxStart, RxSubmit, RxFail, At, power, rsp, IInv, TypeOK, PcTypeOK, HostTypeOK,
         PInv, Steady, Reliable
<1>2. CASE RxStart
  <2>1. /\ UNCHANGED urb
        /\ \/ UNCHANGED <<pc, flags>>
           \/ flags' = flags \cup {"RESPONDING"} /\ pc' = [pc EXCEPT !["rx"] = "rx_submit"]
    BY <1>2 DEF RxStart, Set, Goto, usb
  <2>2. OtherStep("rx") /\ pc'["svc"] = pc["svc"]
    BY <1>1, <2>1, ThreadsDiffer DEF OtherStep, PInv, Steady
  <2>3. CASE pc'["rx"] = "rx_submit"
    BY <2>2, <2>3, OtherFrame DEF PInv, Sought, Kept, Pursued
  <2>4. CASE UNCHANGED <<pc, flags>>
    <3>1. PursuitAside
      BY <1>1, <2>1, <2>2, <2>4, OtherFrame DEF PursuitAside
    <3> QED
      BY <3>1, PursuitAsideKeeps
  <2> QED
    BY <1>1, <2>1, <2>3, <2>4, ThreadsDiffer
<1>3. CASE RxSubmit
  <2>1. urb'["response"]
    BY <1>1, <1>3, Unbarred, ReliableSubmit DEF RxSubmit, Submitted, Urbs
  <2>2. UNCHANGED flags /\ \E l \in {"idle", "rx_fail"} : pc' = [pc EXCEPT !["rx"] = l]
    BY <1>3 DEF RxSubmit, Goto
  <2>3. OtherStep("rx")
    BY <1>1, <2>2, ThreadsDiffer DEF OtherStep
  <2> QED
    BY <2>1, <2>3, OtherFrame DEF PInv, Sought, Kept, Pursued
<1>4. CASE RxFail
  <2>1. /\ flags' = flags \ {"RESPONDING"} /\ UNCHANGED urb
        /\ pc["rx"] = "rx_fail" /\ pc' = [pc EXCEPT !["rx"] = "idle"]
    BY <1>4 DEF RxFail, Clear, Goto, At, usb
  <2>2. OtherStep("rx") /\ pc'["svc"] = pc["svc"]
    BY <1>1, <2>1, ThreadsDiffer DEF OtherStep
  <2>3. Pursued => Pursued'
    BY <2>1, <2>2, OtherFrame DEF Pursued
  <2> QED
    BY <1>1, <2>1, <2>2, <2>3, OtherFrame DEF PInv, Sought, Kept
<1> QED
  BY <1>2, <1>3, <1>4 DEF RxStep

\* service_interrupt_work tells the readers once nothing is owed, and submits otherwise
\* (1051-1057).
LEMMA SvcKeepsPursuit ==
  ASSUME IInv, PInv, SvcStep
  PROVE  PInv'
<1>1. /\ DOMAIN pc = Threads /\ urb \in [Urbs -> BOOLEAN] /\ resp_count \in Nat
      /\ UNCHANGED <<pm, coreOp>> /\ ~Refused /\ ("rx" \in work' => "rx" \in work)
  BY DEF SvcStep, SvcStart, SubmitOwed, SvcEnd, power, Refused, IInv, TypeOK, PcTypeOK,
         HostTypeOK, FieldsTypeOK, PInv, Steady
<1>2. CASE SvcStart
  <2>1. CASE Owed
    <3>1. flags' = flags \cup {"RESPONDING"} /\ pc' = [pc EXCEPT !["svc"] = "svc_submit"]
      BY <1>2, <2>1 DEF SvcStart, Owed, Set, Goto
    <3>2. OtherStep("svc") /\ pc'["svc"] = "svc_submit"
      BY <1>1, <3>1, ThreadsDiffer DEF OtherStep
    <3> QED
      BY <3>2, OtherFrame DEF PInv, Sought, Kept, Pursued
  <2>2. CASE ~Owed
    <3>1. /\ flags' = flags \cup {"READ"} /\ UNCHANGED <<pc, urb>>
          /\ resp_count <= 1 /\ resp_count' = 0
      BY <1>1, <1>2, <2>2 DEF SvcStart, Owed, Settled, TakeOwed, Set, usb
    <3>2. OtherStep("svc")
      BY <1>1, <3>1 DEF OtherStep
    <3>3. Pursued => Pursued'
      BY <3>1, <3>2, OtherFrame DEF Pursued
    <3> QED
      BY <3>1, <3>2, <3>3, OtherFrame DEF PInv, Sought, Kept
  <2> QED
    BY <2>1, <2>2
<1>3. CASE SubmitOwed("svc", "svc_submit", "svc_ok", "svc_fail")
  <2>1. /\ UNCHANGED flags
        /\ \/ urb'["response"] /\ pc' = [pc EXCEPT !["svc"] = "svc_ok"]
           \/ pc' = [pc EXCEPT !["svc"] = "svc_fail"]
    BY <1>1, <1>3 DEF SubmitOwed, Submitted, Goto, Urbs
  <2>2. OtherStep("svc") /\ (urb'["response"] \/ pc'["svc"] = "svc_fail")
    BY <1>1, <2>1, ThreadsDiffer DEF OtherStep
  <2> QED
    BY <2>2, OtherFrame DEF PInv, Sought, Kept, Pursued
<1>4. CASE SvcEnd
  <2>1. /\ pc' = [pc EXCEPT !["svc"] = "idle"] /\ UNCHANGED <<urb, work>>
        /\ \/ /\ pc["svc"] = "svc_ok" /\ UNCHANGED resp_count
              /\ flags' = flags \/ flags' = flags \cup {"READ"}
           \/ flags' = (flags \ {"RESPONDING"}) \cup {"READ"} /\ resp_count' = 0
    BY <1>4 DEF SvcEnd, Goto, At, Set, usb
  <2>2. OtherStep("svc") /\ pc'["rx"] = pc["rx"]
    BY <1>1, <2>1, ThreadsDiffer DEF OtherStep
  <2>3. pc["svc"] = "svc_ok" => (Pursued => Pursued')
    BY <2>1, <2>2, OtherFrame DEF Pursued
  <2> QED
    BY <1>1, <2>1, <2>2, <2>3, OtherFrame DEF PInv, Sought, Kept
<1> QED
  BY <1>2, <1>3, <1>4 DEF SvcStep

\* There is no port, and the core has nothing to do.
LEMMA StillCore ==
  ASSUME IInv, PInv, Reliable
  PROVE  ~(WwanCall \/ WwanStep \/ CoreStep \/ \E op \in CoreOps : CoreBegin(op))
<1>1. ~(WwanCall \/ WwanStep)
  BY DEF WwanCall, WwanStart, WwanTx, WwanStop, WwanStep, WwanClaim, WwanListen, WwanTxOff,
         PoisonUrbs, PoisonUrb, WwanLeave, Poisoned, WwanUnpoison, At, PInv, Steady, Reliable
<1>2. ~CoreStep
  BY DEF CoreStep, CoreMutex, CoreDeinit, CoreFlag, CoreRlock, CoreWlock, PoisonUrbs, PoisonUrb,
         WwanLeave, Poisoned, WwanUnpoison, CoreCancel, CoreUnpoison, CorePost, CoreResume,
         CoreRecount, CoreResubmit, CoreEnd, At, PInv, Steady
<1> QED
  BY <1>1, <1>2 DEF Reliable

\* Every step keeps what is said of the pursuit.
LEMMA NextKeepsPursuit ==
  ASSUME IInv, QInv, PInv, Reliable, [Next]_vars
  PROVE  PInv'
<1>1. ASSUME NEW p \in Procs, ProcStep(p) \/ ProcCall(p)
      PROVE  PInv'
  <2>1. CASE WriteStep(p) \/ WriteCall(p) \/ FileStep(p) \/ OpenCall(p)
    BY <2>1, CallPursuitAside
  <2>2. CASE ReadStep(p) \/ ReadCall(p)
    BY <2>2, ReadPursuitAside, DrainKeepsPursuit, AskKeepsPursuit DEF ReadStep, ReadCall
  <2> QED
    BY <1>1, <2>1, <2>2 DEF ProcStep, ProcCall
<1>2. CASE OutCallback \/ WwanTxComplete
  BY <1>2, OutPursuitAside
<1>3. CASE InCallback \/ IntCallback
  BY <1>3, AnswerKeepsPursuit, NotificationKeepsPursuit, ExitKeepsPursuit DEF IntCallback
<1>4. CASE WorkStep
  BY <1>4, RxKeepsPursuit, SvcKeepsPursuit DEF WorkStep
<1>5. CASE UNCHANGED vars
  BY <1>5 DEF vars, locking, usb, rsp, power, PInv, Steady, Sought, Kept, Pursued, Asking, Asks
<1> QED
  BY <1>1, <1>2, <1>3, <1>4, <1>5, StillCore DEF Next

\* Nobody forgets a notification that is owed: not the reader that drained the buffer
\* and found another (535-549), not the callback that skipped its submission because
\* RESPONDING was set (352), not the work item that an error left it to (1051-1057),
\* whatever the device answers, with opens and closes in between.  Only the one whose
\* submission a close has barred gives up, and then nothing is owed any more (558).
THEOREM NobodyForgotten ==
  ASSUME Reliable
  PROVE  Spec => []NotificationAttended
<1>1. IInv /\ QInv /\ PInv /\ [Next]_vars => PInv'
  BY NextKeepsPursuit
<1>2. IInv /\ PInv => NotificationAttended
  <2> SUFFICES ASSUME IInv, PInv, resp_count > 0, ~urb["response"], "READ" \notin flags,
                      work = {}
               PROVE  \E t \in Procs \cup {"rx", "svc"} : Serving(t)
    BY DEF NotificationAttended
  <2>1. Pursued
    BY DEF PInv, Sought
  <2>2. CASE Asking
    BY <2>2 DEF Asking, Asks, Serving
  <2>3. CASE pc["svc"] \in {"svc_submit", "svc_fail"} \/ pc["rx"] = "rx_submit"
    BY <2>3 DEF Serving
  <2> QED
    BY <2>1, <2>2, <2>3 DEF Pursued
<1> QED
  BY <1>1, <1>2, InitPursuit, Invariant, QuietInvariant, PTL DEF Spec

-----------------------------------------------------------------------------
(* Commands, their buffers, and the power references.                        *)

\* A write's command is in flight, or its completion under way; or the port's is.
Busy == (urb["command"] /\ handler = "write") \/ pc["out"] # "idle"
PortBusy == urb["command"] /\ handler = "wwan"

\* A write's command is known by IN_USE, or by the reset that cleared it, and
\* the writer that found IN_USE clear still finds it so.
BusyKnown ==
  /\ Busy \/ (\E p \in Procs : pc[p] = "w_submit") => flags \cap {"IN_USE", "RESETTING"} # {}
  /\ \A p \in Procs : pc[p] = "w_check" => "IN_USE" \notin flags

OneCommand == pc["out"] # "idle" => ~urb["command"]

\* A reset that has cancelled the command lets no other be sent.
ResetQuiet ==
  coreOp = "reset" /\ pc["core"] \in {"p3", "p4", "c_svc", "c_unpoison", "c_post"} => ~Busy

\* Only open files, or the release that is about to cancel it, have a command.
Sent == Busy => count > 0 \/ \E p \in Procs : pc[p] \in {"p1", "p2"}

PortKnown == PortBusy => "WWAN_IN_USE" \in flags

\* The handler of a write that is about to be sent is still the write's.
Handed == \A p \in Procs : pc[p] = "w_submit" => handler = "write"

CInv ==
  /\ BusyKnown /\ OneCommand /\ ResetQuiet /\ Sent /\ PortKnown /\ Handed
  /\ CommandExclusive /\ OutbufOwned

-----------------------------------------------------------------------------
Commanding == {"w_check", "w_fill", "w_submit"}

\* A step that leaves the command and its writers alone.
CommandAside ==
  /\ urb'["command"] = urb["command"]
  /\ UNCHANGED <<outbuf, handler>>
  /\ pc'["out"] = pc["out"]
  /\ \A b \in {"IN_USE", "RESETTING"} : b \in flags' <=> b \in flags
  /\ \A p \in Procs : pc'[p] = pc[p] \/ {pc[p], pc'[p]} \cap Commanding = {}

\* Such a step keeps what is said of the command.
LEMMA CommandAsideKeeps ==
  ASSUME CInv, CommandAside, ResetQuiet', Sent', PortKnown'
  PROVE  CInv'
<1> USE DEF CInv, CommandAside, Commanding, Busy
<1>1. BusyKnown'
  BY DEF BusyKnown
<1>2. OneCommand' /\ Handed'
  BY DEF OneCommand, Handed
<1>3. CommandExclusive'
  BY DEF CommandExclusive, Filling, At
<1>4. OutbufOwned'
  BY DEF OutbufOwned, At
<1> QED
  BY <1>1, <1>2, <1>3, <1>4

\* So does one that also leaves the device's owners alone.
LEMMA AsideKeeps ==
  ASSUME CInv, CommandAside, LifeAside, HostAside
  PROVE  CInv'
<1>1. ResetQuiet' /\ PortKnown'
  BY DEF CInv, CommandAside, LifeAside, HostAside, ResetQuiet, PortKnown, Busy, PortBusy
<1>2. \A p \in Procs : pc'[p] \in {"p1", "p2"} <=> pc[p] \in {"p1", "p2"}
  BY DEF LifeAside, ProcsAside, Passing, HoldsWdm
<1>3. Sent'
  BY <1>2 DEF CInv, CommandAside, LifeAside, life, Sent, Busy
<1> QED
  BY <1>1, <1>3, CommandAsideKeeps

\* While the port may use the command URB, no write has it or is about to.
LEMMA PortExcludes ==
  ASSUME LInv, MInv, CInv, PortUses
  PROVE  ~Busy /\ \A p \in Procs : pc[p] \notin Writing
<1>1. count = 0 /\ \A p \in Procs : pc[p] \notin Closing
  BY DEF MInv, PortMode
<1>2. ~Busy
  BY <1>1 DEF CInv, Sent, Closing
<1>3. \A p \in Procs : p \notin Handles
  BY <1>1, CountHandles
<1> QED
  BY <1>2, <1>3 DEF Handles, Counted, Inside, Writing

\* A started port whose ops_lock is free has WWAN_IN_USE set.
LEMMA StartedUses ==
  ASSUME IInv, QInv, MInv, pc["wwan"] = "started", lock["ops"] = None
  PROVE  "WWAN_IN_USE" \in flags
<1>1. coreOp # "deinit"
  BY ThreadsDiffer DEF QInv, OpsOwned
<1> QED
  BY <1>1 DEF MInv, PortMode, IInv, CoreAgrees, CoreOpAt

-----------------------------------------------------------------------------
\* wdm_create leaves no command in flight.
LEMMA InitCInv == Init => CInv
BY ThreadsDiffer
   DEF Init, CInv, BusyKnown, OneCommand, ResetQuiet, Sent, PortKnown, Handed,
       CommandExclusive, OutbufOwned, Busy, PortBusy, Filling, Urbs, At, Threads

\* Before the wait for IN_USE, and without it, a writer is aside; so is
\* wdm_wait_for_response, which only reads IN_USE.
LEMMA WriteAside ==
  ASSUME IInv, NEW p \in Procs,
         \/ WriteStart(p) \/ WriteLock(p) \/ WritePm(p) \/ WriteGiveUp(p) \/ Fsync(p) \/ Flush(p)
         \/ \E k \in {"fsync", "flush"} :
              AwaitCommand(p, k) \/ AwaitGiveUp(p, k) \/ AwaitStatus(p, k)
  PROVE  CommandAside
<1> USE ThreadsDiffer
    DEF IInv, TypeOK, PcTypeOK, CommandAside, Commanding, At, Goto, usb, wr
<1>1. CASE WriteStart(p) \/ WriteLock(p)
  BY <1>1 DEF WriteStart, WriteLock
<1>2. CASE WritePm(p)
  BY <1>2 DEF WritePm
<1>3. CASE WriteGiveUp(p)
  BY <1>3 DEF WriteGiveUp, WriteReturn
<1>4. CASE Fsync(p) \/ Flush(p)
  BY <1>4 DEF Fsync, Flush
<1>5. ASSUME NEW k \in {"fsync", "flush"},
             AwaitCommand(p, k) \/ AwaitGiveUp(p, k) \/ AwaitStatus(p, k)
      PROVE  CommandAside
  BY <1>5 DEF AwaitCommand, AwaitGiveUp, AwaitStatus, WerrAt, WaitReturn, WaitAt
<1> HIDE DEF CommandAside
<1> QED
  BY <1>1, <1>2, <1>3, <1>4, <1>5

\* Readers are aside.
LEMMA ReadAside ==
  ASSUME IInv, NEW p \in Procs, ReadStep(p) \/ ReadCall(p)
  PROVE  CommandAside
<1> USE ThreadsDiffer, OtherSubmitted
    DEF IInv, TypeOK, PcTypeOK, HostTypeOK, Urbs, CommandAside, Commanding, At, Goto, Clear,
        locking, usb, wr
<1>1. CASE ReadLock(p) \/ ReadWait(p)
  BY <1>1 DEF ReadLock, ReadWait
<1>2. CASE ReadGiveUp(p)
  BY <1>2 DEF ReadGiveUp, ReadReturn
<1>3. CASE ReadRetry(p)
  BY <1>3 DEF ReadRetry, ReadReturn
<1>4. CASE ReadCheck(p)
  BY <1>4 DEF ReadCheck, ReadReturn
<1>5. CASE ReadLockIuspin(p)
  BY <1>5 DEF ReadLockIuspin, ReadReturn
<1>6. CASE ReadEmpty(p)
  BY <1>6 DEF ReadEmpty, Owed, Refused, Settled, Set
<1>7. CASE ReadEmptyRelock(p) \/ ReadCopy(p)
  BY <1>7 DEF ReadEmptyRelock, ReadCopy
<1>8. CASE ReadTrim(p)
  BY <1>8 DEF ReadTrim, Owed, Refused, Settled, ReadReturn, Set
<1>9. CASE ReadDrained(p)
  BY <1>9 DEF ReadDrained, ReadReturn
<1>10. CASE \/ SubmitOwed(p, "z_submit", "z_ok", "z_fail")
            \/ SubmitOwed(p, "d_submit", "d_ok", "d_fail")
  BY <1>10 DEF SubmitOwed
<1> HIDE DEF CommandAside
<1> QED
  BY <1>1, <1>2, <1>3, <1>4, <1>5, <1>6, <1>7, <1>8, <1>9, <1>10 DEF ReadStep, ReadCall

\* So are the response and notification handlers and the work items.
LEMMA ResponseAside ==
  ASSUME IInv, InCallback \/ IntCallback \/ WorkStep
  PROVE  CommandAside
<1> USE ThreadsDiffer, OtherSubmitted
    DEF IInv, TypeOK, PcTypeOK, HostTypeOK, Urbs, CommandAside, Commanding, At, Goto, Set,
        Clear, locking, usb, wr
<1>1. CASE InCallback
  BY <1>1 DEF InCallback, InForwarded, InTaken, InOutcomes, InAnswered, Overflows, InSignal,
         InData, Bytes, InUnlinked, Complete
<1>2. CASE IntComplete
  <2> USE DEF IntComplete, Complete, IntFault, IntUnlinked, IntNotified, IntRespond
  <2>1. urb'["command"] = urb["command"]
    <3>1. CASE \E rv : urb' = [Submitted("response", rv) EXCEPT !["validity"] = FALSE]
      <4>1. PICK rv : urb' = [Submitted("response", rv) EXCEPT !["validity"] = FALSE]
        BY <3>1
      <4>2. Submitted("response", rv) \in [Urbs -> BOOLEAN]
        BY SubmittedType
      <4>3. Submitted("response", rv)["command"] = urb["command"]
        OBVIOUS
      <4> QED
        BY <4>1, <4>2, <4>3
    <3>2. CASE urb' = [urb EXCEPT !["validity"] = FALSE]
      BY <3>2
    <3> QED
      BY <1>2, <3>1, <3>2
  <2> QED
    BY <1>2, <2>1
<1>3. CASE IntExit
  BY <1>3 DEF IntExit
<1>4. CASE RxStep
  BY <1>4 DEF RxStep, RxStart, RxSubmit, RxFail
<1>5. CASE SvcStep
  BY <1>5 DEF SvcStep, SvcStart, Owed, Refused, Settled, SubmitOwed, SvcEnd
<1> HIDE DEF CommandAside
<1> QED
  BY <1>1, <1>2, <1>3, <1>4, <1>5 DEF IntCallback, WorkStep

\* open and release leave the command alone, but not who has it: the last release
\* takes over from the open files, and cancels it.
LEMMA FileKeeps ==
  ASSUME IInv, LInv, QInv, MInv, CInv, NEW p \in Procs, FileStep(p) \/ OpenCall(p)
  PROVE  CInv'
<1>1. FileApart(p)
  BY FileStaysApart
<1>2. CommandAside
  <2> USE ThreadsDiffer, OtherSubmitted
      DEF IInv, TypeOK, PcTypeOK, HostTypeOK, Urbs, CommandAside, Commanding, At, Goto, Clear, usb, wr
  <2>1. CASE OpenCall(p) \/ OpenLock(p) \/ OpenPm(p)
    BY <2>1 DEF OpenCall, OpenLock, OpenPm
  <2>2. CASE OpenCount(p)
    BY <2>2 DEF OpenCount
  <2>3. CASE ReleaseLock(p) \/ ReleaseCount(p)
    BY <2>3 DEF ReleaseLock, ReleaseCount
  <2>4. CASE PoisonUrbs(p)
    BY <2>4 DEF PoisonUrbs, PoisonUrb
  <2>5. CASE ReleaseForget(p) \/ ReleaseUnpoison(p)
    BY <2>5 DEF ReleaseForget, ReleaseUnpoison, Poisoned
  <2> HIDE DEF CommandAside
  <2> QED
    BY <2>1, <2>2, <2>3, <2>4, <2>5 DEF FileStep
<1>3. ResetQuiet' /\ PortKnown' /\ (Busy' <=> Busy)
  BY <1>1, <1>2
     DEF CInv, CommandAside, FileApart, ResetQuiet, PortKnown, Busy, PortBusy
<1>4. Sent'
  <2> USE <1>1, <1>3, ThreadsDiffer
      DEF FileApart, IInv, TypeOK, PcTypeOK, At, Goto, life
  <2>1. CASE OpenCall(p) \/ OpenLock(p) \/ OpenPm(p) \/ ReleaseLock(p)
    <3>1. count' = count /\ pc[p] \notin {"p1", "p2"}
      BY <2>1 DEF OpenCall, OpenLock, OpenPm, ReleaseLock
    <3> QED
      BY <3>1 DEF CInv, Sent
  <2>2. CASE OpenCount(p)
    <3>1. (count' > 0 \/ count' = count) /\ pc[p] \notin {"p1", "p2"}
      BY <2>2, CountHandles DEF OpenCount
    <3> QED
      BY <3>1 DEF CInv, Sent
  <2>3. CASE ReleaseCount(p)
    <3>1. count \in Nat /\ count > 0 /\ count' = count - 1 /\ pc[p] = "rel_count"
      BY <2>3, CountHandles DEF ReleaseCount, Handles, Counted, Inside
    <3>2. ~Unbinding
      BY <3>1, WdmAlone DEF HoldsWdm
    <3>3. CASE count' = 0 /\ "DISCONNECTING" \in flags
      <4>1. pc["core"] = "gone"
        BY <3>2, <3>3 DEF LInv, Unlisted, Parting, Unbinding
      <4>2. ~Busy
        BY <4>1 DEF QInv, DrainedQuiet, Quiet, Stoppers, Drained, Stopped, Urbs, Busy
      <4> QED
        BY <4>2 DEF Sent
    <3>4. CASE count' = 0 /\ "DISCONNECTING" \notin flags
      BY <2>3, <3>4 DEF ReleaseCount, Sent
    <3>5. CASE count' # 0
      BY <3>1, <3>5 DEF Sent
    <3> QED
      BY <3>3, <3>4, <3>5
  <2>4. CASE PoisonUrbs(p)
    <3>1. /\ count' = count
          /\ pc'[p] \in {"p1", "p2"} \/ (pc[p] = "p2" /\ Quiet("command")) \/ pc[p] = "p3"
      BY <2>4 DEF PoisonUrbs, PoisonUrb
    <3> QED
      BY <3>1 DEF CInv, Sent, Quiet, Busy
  <2>5. CASE ReleaseForget(p) \/ ReleaseUnpoison(p)
    <3>1. count' = count /\ pc[p] \notin {"p1", "p2"}
      BY <2>5 DEF ReleaseForget, ReleaseUnpoison, Poisoned
    <3> QED
      BY <3>1 DEF CInv, Sent
  <2> QED
    BY <2>1, <2>2, <2>3, <2>4, <2>5 DEF FileStep
<1> QED
  BY <1>2, <1>3, <1>4, CommandAsideKeeps

-----------------------------------------------------------------------------
\* A write from the end of its wait to the submission.
LEMMA WriteKeeps ==
  ASSUME IInv, LInv, QInv, MInv, CInv, NEW p \in Procs,
         WriteWait(p) \/ WriteCheck(p) \/ WriteFill(p) \/ WriteSubmit(p)
  PROVE  CInv'
<1> USE ThreadsDiffer
    DEF IInv, TypeOK, PcTypeOK, HostTypeOK, FieldsTypeOK, Urbs, At, Goto, usb, wr
<1>1. LifeAside /\ HostAside
  BY WriteLifeAside, WriteHostAside DEF WriteStep
<1>2. pc[p] \in Writing /\ pc[p] \notin {"p1", "p2"} /\ pc'[p] \notin {"p1", "p2"}
  BY DEF WriteWait, WriteCheck, WriteFill, WriteSubmit, WriteReturn, Writing
<1>3. \A q \in Procs : q # p => pc'[q] = pc[q] /\ pc[q] \notin Writing
  BY <1>2 DEF WriteWait, WriteCheck, WriteFill, WriteSubmit, WriteReturn, Owners
<1>4. pc'["out"] = pc["out"] /\ pc'["core"] = pc["core"] /\ UNCHANGED <<coreOp, count>>
  BY <1>1
     DEF WriteWait, WriteCheck, WriteFill, WriteSubmit, WriteReturn, LifeAside, life
<1>5. count > 0
  BY <1>2, CountHandles DEF Writing, Handles, Counted, Inside
<1>6. ~PortBusy
  BY <1>5 DEF MInv, PortMode, PortUses, CInv, PortKnown
<1>7. coreOp = "reset" => pc["core"] \notin {"p3", "p4", "c_svc", "c_unpoison", "c_post"}
  BY <1>2 DEF Owners, Both
<1>8. ResetQuiet' /\ Sent'
  BY <1>4, <1>5, <1>7 DEF ResetQuiet, Sent
<1> USE <1>3, <1>4, <1>6 DEF Writing
<1>9. CASE WriteWait(p)
  <2>1. /\ UNCHANGED <<urb, flags, outbuf, handler>> /\ "IN_USE" \notin flags
        /\ pc[p] = "w_wait" /\ pc'[p] = "w_check"
    BY <1>9 DEF WriteWait
  <2>2. BusyKnown' /\ OneCommand' /\ PortKnown' /\ Handed'
    BY <2>1 DEF CInv, BusyKnown, OneCommand, PortKnown, PortBusy, Handed, Busy
  <2>3. CommandExclusive' /\ OutbufOwned'
    BY <2>1 DEF CInv, CommandExclusive, OutbufOwned, Filling
  <2> QED
    BY <1>8, <2>2, <2>3 DEF CInv
<1>10. CASE WriteCheck(p)
  <2>1. /\ UNCHANGED <<urb, flags, outbuf, handler>>
        /\ pc[p] = "w_check" /\ pc'[p] \in {"open", "w_fill"}
        /\ pc'[p] = "w_fill" => "RESETTING" \notin flags
    BY <1>10 DEF WriteCheck, WriteReturn
  <2>2. "IN_USE" \notin flags
    BY <2>1 DEF CInv, BusyKnown
  <2>3. pc'[p] = "w_fill" => ~urb["command"] /\ pc["out"] = "idle"
    BY <2>1, <2>2 DEF CInv, BusyKnown, Busy, PortBusy
  <2>4. BusyKnown' /\ OneCommand' /\ PortKnown' /\ Handed'
    BY <2>1 DEF CInv, BusyKnown, OneCommand, PortKnown, PortBusy, Handed, Busy
  <2>5. CommandExclusive' /\ OutbufOwned'
    BY <2>1, <2>3 DEF CInv, CommandExclusive, OutbufOwned, Filling
  <2> QED
    BY <1>8, <2>4, <2>5 DEF CInv
<1>11. CASE WriteFill(p)
  <2>1. /\ urb' = urb /\ flags' = flags \cup {"IN_USE"} /\ outbuf' = p /\ handler' = "write"
        /\ pc[p] = "w_fill" /\ pc'[p] = "w_submit"
    BY <1>11 DEF WriteFill, Set
  <2>2. ~urb["command"] /\ pc["out"] = "idle"
    BY <2>1 DEF CInv, CommandExclusive, Filling
  <2>3. BusyKnown' /\ OneCommand' /\ PortKnown' /\ Handed'
    BY <2>1, <2>2 DEF CInv, BusyKnown, OneCommand, PortKnown, PortBusy, Handed, Busy
  <2>4. CommandExclusive' /\ OutbufOwned'
    BY <2>1, <2>2 DEF CInv, CommandExclusive, OutbufOwned, Filling
  <2> QED
    BY <1>8, <2>3, <2>4 DEF CInv
<1>12. CASE WriteSubmit(p)
  <2>1. PICK rv \in SubmitResults("command") :
          /\ urb' = Submitted("command", rv)
          /\ outbuf' = IF rv = "ok" THEN outbuf ELSE None
          /\ flags' = IF rv = "ok" THEN flags ELSE flags \ {"IN_USE"}
    BY <1>12 DEF WriteSubmit, Clear
  <2>2. pc[p] = "w_submit" /\ pc'[p] = "open" /\ handler' = handler
    BY <1>12 DEF WriteSubmit, WriteReturn
  <2>3. /\ ~urb["command"] /\ pc["out"] = "idle" /\ outbuf = p /\ handler = "write"
        /\ flags \cap {"IN_USE", "RESETTING"} # {}
    BY <2>2 DEF CInv, BusyKnown, CommandExclusive, Filling, OutbufOwned, Handed
  <2>4. urb'["command"] = (rv = "ok")
    BY <2>1, <2>3 DEF Submitted
  <2>5. \A q \in Procs : pc'[q] \notin Commanding
    BY <2>2 DEF Commanding
  <2>6. BusyKnown' /\ OneCommand' /\ PortKnown' /\ Handed'
    BY <2>1, <2>2, <2>3, <2>4, <2>5
       DEF BusyKnown, OneCommand, PortKnown, PortBusy, Handed, Busy, Commanding
  <2>7. CommandExclusive' /\ OutbufOwned'
    BY <2>1, <2>2, <2>3, <2>4, <2>5 DEF CommandExclusive, OutbufOwned, Filling, Commanding
  <2> QED
    BY <1>8, <2>6, <2>7 DEF CInv
<1> QED
  BY <1>9, <1>10, <1>11, <1>12

\* The completion of a command, of a write or of the port.
LEMMA OutKeeps ==
  ASSUME IInv, CInv, OutCallback \/ WwanTxComplete
  PROVE  CInv'
<1> USE ThreadsDiffer
    DEF IInv, TypeOK, PcTypeOK, HostTypeOK, Urbs, CInv, At, Goto, usb, wr, locking
<1>1. LifeAside /\ HostAside
  BY CallbackLifeAside, CallbackHostAside
<1>2. /\ \A p \in Procs : pc'[p] = pc[p]
      /\ pc'["core"] = pc["core"] /\ UNCHANGED <<coreOp, count>>
      /\ "WWAN_IN_USE" \in flags' <=> "WWAN_IN_USE" \in flags
  BY <1>1 DEF OutCallback, OutStatus, OutFree, OutWake, WwanTxComplete, LifeAside, HostAside, life
<1> USE <1>2
<1>3. CASE OutStatus
  <2>1. /\ urb["command"] /\ handler = "write" /\ pc["out"] = "idle" /\ pc'["out"] = "free"
        /\ ~urb'["command"] /\ UNCHANGED <<flags, outbuf, handler>>
    BY <1>3 DEF OutStatus, Complete
  <2>2. BusyKnown' /\ OneCommand' /\ ResetQuiet' /\ Sent' /\ PortKnown' /\ Handed'
    BY <2>1 DEF BusyKnown, OneCommand, ResetQuiet, Sent, PortKnown, PortBusy, Handed, Busy
  <2>3. CommandExclusive' /\ OutbufOwned'
    BY <2>1 DEF CommandExclusive, OutbufOwned, Filling
  <2> QED
    BY <2>2, <2>3
<1>4. CASE OutFree \/ OutWake
  <2>1. /\ pc["out"] # "idle" /\ UNCHANGED <<urb, handler>> /\ flags' \subseteq flags
        /\ \/ pc["out"] = "free" /\ pc'["out"] = "wake" /\ outbuf' = None /\ flags' = flags
           \/ pc["out"] = "wake" /\ pc'["out"] = "idle" /\ outbuf' = outbuf
    BY <1>4 DEF OutFree, OutWake, Clear
  <2>2. ~urb["command"] /\ \A p \in Procs : pc[p] \notin {"w_fill", "w_submit"}
    BY <2>1 DEF OneCommand, CommandExclusive, Filling
  <2>3. BusyKnown' /\ OneCommand' /\ ResetQuiet' /\ Sent' /\ PortKnown' /\ Handed'
    BY <2>1, <2>2 DEF BusyKnown, OneCommand, ResetQuiet, Sent, PortKnown, PortBusy, Handed, Busy
  <2>4. CommandExclusive' /\ OutbufOwned'
    BY <2>1, <2>2 DEF CommandExclusive, OutbufOwned, Filling
  <2> QED
    BY <2>3, <2>4
<1>5. CASE WwanTxComplete
  <2>1. /\ urb["command"] /\ handler = "wwan" /\ ~urb'["command"] /\ pc' = pc
        /\ UNCHANGED <<flags, outbuf, handler>>
    BY <1>5 DEF WwanTxComplete, Complete
  <2>2. BusyKnown' /\ OneCommand' /\ ResetQuiet' /\ Sent' /\ PortKnown' /\ Handed'
    BY <2>1 DEF BusyKnown, OneCommand, ResetQuiet, Sent, PortKnown, PortBusy, Handed, Busy
  <2>3. CommandExclusive' /\ OutbufOwned'
    BY <2>1 DEF CommandExclusive, OutbufOwned, Filling
  <2> QED
    BY <2>2, <2>3
<1> QED
  BY <1>3, <1>4, <1>5 DEF OutCallback

-----------------------------------------------------------------------------
\* The port sends only while no write can; WWAN_IN_USE goes when its command has.
LEMMA PortKeeps ==
  ASSUME IInv, LInv, QInv, MInv, CInv, WwanCall \/ WwanStep
  PROVE  CInv'
<1> USE ThreadsDiffer
    DEF IInv, TypeOK, PcTypeOK, HostTypeOK, FieldsTypeOK, Urbs, At, Goto, usb, wr
<1>1. LifeAside
  BY PortLifeAside
<1>2. \A t \in Threads : t # "wwan" => pc'[t] = pc[t]
  BY DEF WwanCall, WwanStart, WwanTx, WwanStop, WwanStep, WwanClaim, WwanListen, WwanTxOff,
         PoisonUrbs, PoisonUrb, WwanLeave, Poisoned, WwanUnpoison
<1>3. /\ \A p \in Procs : pc'[p] = pc[p]
      /\ pc'["out"] = pc["out"] /\ pc'["core"] = pc["core"] /\ UNCHANGED <<coreOp, count>>
  BY <1>1, <1>2 DEF LifeAside, life
<1>4. CASE WwanTx
  <2>1. /\ pc["wwan"] = "started" /\ lock["ops"] = None /\ handler' = "wwan"
        /\ UNCHANGED <<flags, outbuf>>
    BY <1>4 DEF WwanTx, Acquire, Free
  <2>2. "WWAN_IN_USE" \in flags
    BY <2>1, StartedUses
  <2>3. ~Busy /\ \A p \in Procs : pc[p] \notin Writing
    BY <2>2, PortExcludes DEF PortUses
  <2>4. BusyKnown' /\ OneCommand' /\ ResetQuiet' /\ Sent' /\ PortKnown' /\ Handed'
    BY <1>3, <2>1, <2>2, <2>3
       DEF BusyKnown, OneCommand, ResetQuiet, Sent, PortKnown, Handed, Busy, Writing
  <2>5. CommandExclusive' /\ OutbufOwned'
    BY <1>3, <2>1, <2>3 DEF CInv, CommandExclusive, OutbufOwned, Filling, Busy, Writing
  <2> QED
    BY <2>4, <2>5 DEF CInv
<1>5. CASE ~WwanTx
  <2>1. /\ urb'["command"] = urb["command"] /\ UNCHANGED <<outbuf, handler>>
        /\ \A b \in {"IN_USE", "RESETTING"} : b \in flags' <=> b \in flags
        /\ "WWAN_IN_USE" \in flags /\ "WWAN_IN_USE" \notin flags' => WwanLeave("wwan")
    BY <1>5, OtherSubmitted
       DEF WwanCall, WwanStart, WwanStop, WwanStep, WwanClaim, WwanListen, WwanTxOff,
           PoisonUrbs, PoisonUrb, WwanLeave, Poisoned, WwanUnpoison, Set, Clear
  <2>2. CommandAside
    BY <1>3, <2>1 DEF CommandAside
  <2>3. ResetQuiet' /\ Sent'
    BY <1>3, <2>1 DEF CInv, ResetQuiet, Sent, Busy
  <2>4. WwanLeave("wwan") => ~urb["command"]
    BY DEF WwanLeave, Poisoned, QInv, DrainedQuiet, Quiet, Stoppers, Drained
  <2>5. PortKnown'
    BY <2>1, <2>4 DEF CInv, PortKnown, PortBusy
  <2> QED
    BY <2>2, <2>3, <2>5, CommandAsideKeeps
<1> QED
  BY <1>4, <1>5

\* The core takes IN_USE away, or gives RESETTING back.
LEMMA ResetKeeps ==
  ASSUME IInv, CInv, CoreFlag \/ CorePost
  PROVE  CInv'
<1> USE ThreadsDiffer, OtherSubmitted
    DEF IInv, TypeOK, PcTypeOK, HostTypeOK, Urbs, CoreAgrees, CoreOpAt, At, Goto, usb, wr, life,
        Set, Clear
<1>1. /\ \A p \in Procs : pc'[p] = pc[p]
      /\ pc'["out"] = pc["out"] /\ urb'["command"] = urb["command"]
      /\ UNCHANGED <<outbuf, handler, count>>
      /\ "WWAN_IN_USE" \in flags' <=> "WWAN_IN_USE" \in flags
  BY DEF CoreFlag, CorePost, Recovered
<1>2. CASE CoreFlag
  <2>1. /\ pc["core"] = "c_flag" /\ pc'["core"] \in {"c_rlock", "idle", "p1"}
        /\ flags \cap {"IN_USE", "RESETTING"} # {} => flags' \cap {"IN_USE", "RESETTING"} # {}
        /\ "IN_USE" \in flags' => "IN_USE" \in flags
    BY <1>2 DEF CoreFlag
  <2>2. BusyKnown' /\ OneCommand' /\ ResetQuiet' /\ Sent' /\ PortKnown' /\ Handed'
    BY <1>1, <2>1
       DEF CInv, BusyKnown, OneCommand, ResetQuiet, Sent, PortKnown, PortBusy, Handed, Busy
  <2>3. CommandExclusive' /\ OutbufOwned'
    BY <1>1, <2>1 DEF CInv, CommandExclusive, OutbufOwned, Filling
  <2> QED
    BY <2>2, <2>3 DEF CInv
<1>3. CASE CorePost
  <2>1. /\ pc["core"] = "c_post" /\ coreOp = "reset" /\ pc'["core"] = "idle"
        /\ flags' = flags \ {"OVERFLOW", "RESETTING"}
    BY <1>3 DEF CorePost
  <2>2. ~Busy /\ \A p \in Procs : pc[p] \notin Writing
    BY <2>1 DEF CInv, ResetQuiet, Owners, Both
  <2>3. BusyKnown' /\ OneCommand' /\ ResetQuiet' /\ Sent' /\ PortKnown' /\ Handed'
    BY <1>1, <2>1, <2>2
       DEF CInv, BusyKnown, OneCommand, ResetQuiet, Sent, PortKnown, PortBusy, Handed, Busy, Writing
  <2>4. CommandExclusive' /\ OutbufOwned'
    BY <1>1, <2>1, <2>2 DEF CInv, CommandExclusive, OutbufOwned, Filling
  <2> QED
    BY <2>3, <2>4 DEF CInv
<1> QED
  BY <1>2, <1>3

\* The rest of what the core does; the reset is quiet once command is poisoned.
LEMMA CoreKeeps ==
  ASSUME IInv, QInv, CInv,
         \/ CoreMutex \/ CoreDeinit \/ CoreRlock \/ CoreWlock
         \/ PoisonUrbs("core") \/ WwanLeave("core") \/ WwanUnpoison("core")
         \/ CoreCancel \/ CoreUnpoison \/ CoreResume \/ CoreRecount \/ CoreResubmit \/ CoreEnd
         \/ \E op \in CoreOps : CoreBegin(op)
  PROVE  CInv'
<1> USE ThreadsDiffer, OtherSubmitted, ConstantTypes
    DEF IInv, TypeOK, PcTypeOK, HostTypeOK, Urbs, CoreAgrees, CoreOpAt, At, Goto, Clear, usb, wr,
        life, power
<1>1. /\ CommandAside /\ count' = count /\ \A p \in Procs : pc'[p] = pc[p]
      /\ "WWAN_IN_USE" \in flags /\ "WWAN_IN_USE" \notin flags' => WwanLeave("core")
  <2> USE DEF CommandAside
  <2>1. CASE CoreMutex \/ CoreDeinit \/ CoreRlock \/ CoreWlock
    BY <2>1 DEF CoreMutex, CoreDeinit, CoreRlock, CoreWlock
  <2>2. CASE PoisonUrbs("core")
    BY <2>2 DEF PoisonUrbs, PoisonUrb
  <2>3. CASE WwanLeave("core") \/ WwanUnpoison("core")
    BY <2>3 DEF WwanLeave, Poisoned, WwanUnpoison
  <2>4. CASE CoreCancel \/ CoreUnpoison \/ CoreEnd
    BY <2>4 DEF CoreCancel, CancelWork, Poisoned, CoreUnpoison, CoreEnd
  <2>5. CASE CoreResume \/ CoreRecount \/ CoreResubmit
    BY <2>5 DEF CoreResume, CoreRecount, CoreResubmit
  <2>6. CASE \E op \in CoreOps : CoreBegin(op)
    BY <2>6 DEF CoreBegin
  <2> HIDE DEF CommandAside
  <2> QED
    BY <2>1, <2>2, <2>3, <2>4, <2>5, <2>6
<1>2. Busy' <=> Busy
  BY <1>1 DEF CommandAside, Busy
<1>3. ResetQuiet'
  <2> USE <1>2 DEF CInv, ResetQuiet
  <2>1. CASE CoreMutex \/ CoreDeinit \/ CoreRlock \/ CoreWlock
    BY <2>1 DEF CoreMutex, CoreDeinit, CoreRlock, CoreWlock
  <2>2. CASE PoisonUrbs("core")
    <3>1. \/ pc'["core"] = "p2"
          \/ pc'["core"] = "p3" /\ Quiet("command")
          \/ pc["core"] = "p3" /\ coreOp' = coreOp
      BY <2>2 DEF PoisonUrbs, PoisonUrb
    <3> QED
      BY <3>1 DEF Quiet, Busy
  <2>3. CASE WwanLeave("core") \/ WwanUnpoison("core")
    BY <2>3 DEF WwanLeave, Poisoned, WwanUnpoison
  <2>4. CASE CoreCancel \/ CoreUnpoison \/ CoreEnd
    BY <2>4 DEF CoreCancel, CancelWork, Poisoned, CoreUnpoison, CoreEnd
  <2>5. CASE CoreResume \/ CoreRecount \/ CoreResubmit
    BY <2>5 DEF CoreResume, CoreRecount, CoreResubmit
  <2>6. CASE \E op \in CoreOps : CoreBegin(op)
    BY <2>6 DEF CoreBegin, CoreFirst
  <2> QED
    BY <2>1, <2>2, <2>3, <2>4, <2>5, <2>6
<1>4. Sent'
  BY <1>1, <1>2 DEF CInv, Sent
<1>5. PortKnown'
  <2>1. WwanLeave("core") => ~urb["command"]
    BY DEF WwanLeave, Poisoned, QInv, DrainedQuiet, Quiet, Stoppers, Drained
  <2> QED
    BY <1>1, <2>1 DEF CommandAside, CInv, PortKnown, PortBusy
<1> QED
  BY <1>1, <1>3, <1>4, <1>5, CommandAsideKeeps

\* Every step keeps what is said of the command.
LEMMA NextCInv ==
  ASSUME IInv, LInv, QInv, MInv, CInv, [Next]_vars
  PROVE  CInv'
<1>1. CASE UNCHANGED vars
  <2>1. LifeAside /\ HostAside /\ CommandAside
    BY <1>1 DEF vars, locking, usb, life, wr, power, LifeAside, ProcsAside, HostAside, Traffic,
                Listens, Quiet, RxDone, SvcDone, Polling, CommandAside, At
  <2> QED
    BY <2>1, AsideKeeps
<1>2. ASSUME NEW p \in Procs, ProcStep(p) \/ ProcCall(p)
      PROVE  CInv'
  <2>1. CASE WriteStep(p) \/ WriteCall(p)
    BY <2>1, WriteKeeps, WriteAside, WriteLifeAside, WriteHostAside, AsideKeeps
       DEF WriteStep, WriteCall
  <2>2. CASE ReadStep(p) \/ ReadCall(p)
    BY <2>2, ReadAside, ReadLifeAside, ReadHostAside, AsideKeeps
  <2>3. CASE FileStep(p) \/ OpenCall(p)
    BY <2>3, FileKeeps
  <2> QED
    BY <1>2, <2>1, <2>2, <2>3 DEF ProcStep, ProcCall
<1>3. CASE OutCallback \/ WwanTxComplete
  BY <1>3, OutKeeps
<1>4. CASE InCallback \/ IntCallback \/ WorkStep
  BY <1>4, ResponseAside, CallbackLifeAside, CallbackHostAside, AsideKeeps
<1>5. CASE WwanCall \/ WwanStep
  BY <1>5, PortKeeps
<1>6. CASE CoreStep \/ \E op \in CoreOps : CoreBegin(op)
  BY <1>6, ResetKeeps, CoreKeeps DEF CoreStep
<1> QED
  BY <1>1, <1>2, <1>3, <1>4, <1>5, <1>6 DEF Next

\* Everything said of the command holds in every reachable state.
THEOREM CommandInvariant == Spec => []CInv
<1>1. Init => CInv
  BY InitCInv
<1>2. IInv /\ LInv /\ QInv /\ MInv /\ CInv /\ [Next]_vars => CInv'
  BY NextCInv
<1> QED
  BY <1>1, <1>2, Invariant, LifeInvariant, QuietInvariant, ModeInvariant, PTL DEF Spec

\* A writer fills and submits the command URB only while no command is in flight
\* and its handler is through: whatever interleaving of writers, the late
\* clear_bit of wdm_out_callback (192), pre_reset's (1375) and the port, which
\* never looks at IN_USE, commands never overlap.
THEOREM CommandsExclude == Spec => []CommandExclusive
<1>1. CInv => CommandExclusive
  BY DEF CInv
<1> QED
  BY <1>1, CommandInvariant, PTL

\* desc->outbuf belongs to the command in flight or to the writer that sends it:
\* each command buffer is freed once, and not before the host controller is done
\* with it (190, 495, 500), although the port replaces the handler that frees it.
THEOREM BuffersOwned == Spec => []OutbufOwned
<1>1. CInv => OutbufOwned
  BY DEF CInv
<1> QED
  BY <1>1, CommandInvariant, PTL

-----------------------------------------------------------------------------
(* Power references.  A step takes one, puts one, or leaves them alone: one   *)
(* process begins or ends a transfer, or the port's command does.             *)

Transferring == {p \in Procs : Transfers(p)}

PmAside ==
  /\ pmUse' = pmUse /\ (PortBusy' <=> PortBusy)
  /\ \A p \in Procs : Transfers(p)' <=> Transfers(p)

PmTake(p) ==
  /\ pmUse' = pmUse + 1 /\ (PortBusy' <=> PortBusy)
  /\ ~Transfers(p) /\ Transfers(p)'
  /\ \A q \in Procs : q # p => (Transfers(q)' <=> Transfers(q))

PmPut(p) ==
  /\ pmUse' = pmUse - 1 /\ (PortBusy' <=> PortBusy)
  /\ Transfers(p) /\ ~Transfers(p)'
  /\ \A q \in Procs : q # p => (Transfers(q)' <=> Transfers(q))

PmPort ==
  /\ \/ pmUse' = pmUse + 1 /\ ~PortBusy /\ PortBusy'
     \/ pmUse' = pmUse - 1 /\ PortBusy /\ ~PortBusy'
  /\ \A p \in Procs : Transfers(p)' <=> Transfers(p)

PmStep == PmAside \/ PmPort \/ \E p \in Procs : PmTake(p) \/ PmPut(p)

\* Each of them keeps the balance.
LEMMA PmStepKeeps ==
  ASSUME IInv, PmBalanced, PmStep
  PROVE  PmBalanced'
<1> DEFINE port == IF PortBusy THEN 1 ELSE 0
<1>1. pmUse = Cardinality(Transferring) + port
  BY DEF PmBalanced, Transferring, PortBusy
<1>2. IsFiniteSet(Transferring) /\ Cardinality(Transferring) \in Nat
  <2>1. Transferring \subseteq Procs
    BY DEF Transferring
  <2> QED
    BY <2>1, ConstantsAssumption, FS_Subset, FS_CardinalityType
<1>3. pmUse' = Cardinality(Transferring') + port'
  <2>1. CASE PmAside
    <3>1. Transferring' = Transferring
      BY <2>1 DEF PmAside, Transferring
    <3> QED
      BY <1>1, <2>1, <3>1 DEF PmAside
  <2>2. CASE PmPort
    <3>1. Transferring' = Transferring
      BY <2>2 DEF PmPort, Transferring
    <3> QED
      BY <1>1, <1>2, <2>2, <3>1 DEF PmPort
  <2>3. ASSUME NEW p \in Procs, PmTake(p)
        PROVE  pmUse' = Cardinality(Transferring') + port'
    <3>1. p \notin Transferring /\ Transferring' = Transferring \cup {p}
      BY <2>3 DEF PmTake, Transferring
    <3>2. Cardinality(Transferring') = Cardinality(Transferring) + 1
      BY <1>2, <3>1, FS_AddElement
    <3> QED
      BY <1>1, <1>2, <2>3, <3>2 DEF PmTake
  <2>4. ASSUME NEW p \in Procs, PmPut(p)
        PROVE  pmUse' = Cardinality(Transferring') + port'
    <3>1. p \in Transferring /\ Transferring' = Transferring \ {p}
      BY <2>4 DEF PmPut, Transferring
    <3>2. Cardinality(Transferring') = Cardinality(Transferring) - 1
      BY <1>2, <3>1, FS_RemoveElement
    <3> QED
      BY <1>1, <1>2, <2>4, <3>2 DEF PmPut
  <2> QED
    BY <2>1, <2>2, <2>3, <2>4 DEF PmStep
<1> QED
  BY <1>3 DEF PmBalanced, Transferring, PortBusy

\* A write takes a reference when the device is awake and puts it when it returns.
LEMMA WritePmStep ==
  ASSUME IInv, CInv, NEW p \in Procs, WriteStep(p) \/ WriteCall(p)
  PROVE  PmStep
<1> USE ThreadsDiffer
    DEF IInv, TypeOK, PcTypeOK, HostTypeOK, FieldsTypeOK, Urbs, PmAside, PmTake, PmPut, Transfers,
        PortBusy, At, Goto, usb, wr, power
<1>1. CASE WriteStart(p) \/ WriteLock(p) \/ WriteWait(p) \/ Fsync(p) \/ Flush(p)
  <2>1. PmAside
    BY <1>1 DEF WriteStart, WriteLock, WriteWait, Fsync, Flush
  <2> QED
    BY <2>1 DEF PmStep
<1>2. CASE WritePm(p)
  <2>1. PmTake(p)
    BY <1>2 DEF WritePm
  <2> QED
    BY <2>1 DEF PmStep
<1>3. CASE WriteGiveUp(p)
  <2>1. PmAside \/ PmPut(p)
    BY <1>3 DEF WriteGiveUp, WriteReturn
  <2> QED
    BY <2>1 DEF PmStep
<1>4. CASE WriteCheck(p)
  <2>1. PmAside \/ PmPut(p)
    BY <1>4 DEF WriteCheck, WriteReturn
  <2> QED
    BY <2>1 DEF PmStep
<1>5. CASE WriteFill(p)
  <2>1. ~urb["command"]
    BY <1>5 DEF WriteFill, CInv, CommandExclusive, Filling
  <2>2. PmAside
    BY <1>5, <2>1 DEF WriteFill
  <2> QED
    BY <2>2 DEF PmStep
<1>6. CASE WriteSubmit(p)
  <2>1. handler = "write" /\ handler' = "write"
    BY <1>6 DEF WriteSubmit, CInv, Handed
  <2>2. PmPut(p)
    BY <1>6, <2>1 DEF WriteSubmit, WriteReturn
  <2> QED
    BY <2>2 DEF PmStep
<1>7. ASSUME NEW k \in {"fsync", "flush"},
             AwaitCommand(p, k) \/ AwaitGiveUp(p, k) \/ AwaitStatus(p, k)
      PROVE  PmStep
  <2>1. PmAside
    BY <1>7 DEF AwaitCommand, AwaitGiveUp, AwaitStatus, WerrAt, WaitReturn, WaitAt
  <2> QED
    BY <2>1 DEF PmStep
<1> HIDE DEF PmAside, PmTake, PmPut
<1> QED
  BY <1>1, <1>2, <1>3, <1>4, <1>5, <1>6, <1>7 DEF WriteStep, WriteCall

\* Readers take none.
LEMMA ReadPmStep ==
  ASSUME IInv, NEW p \in Procs, ReadStep(p) \/ ReadCall(p)
  PROVE  PmStep
<1>1. CommandAside
  BY ReadAside
<1>2. pmUse' = pmUse
  BY DEF ReadStep, ReadCall, ReadLock, ReadWait, ReadGiveUp, ReadRetry, ReadCheck, ReadLockIuspin,
         ReadEmpty, ReadEmptyRelock, ReadCopy, ReadTrim, ReadDrained, ReadReturn, SubmitOwed, power
<1>3. \A q \in Procs : Transfers(q)' <=> Transfers(q)
  <2> USE ThreadsDiffer DEF IInv, TypeOK, PcTypeOK, Transfers, At, Goto, locking
  <2>1. CASE ReadLock(p) \/ ReadWait(p) \/ ReadGiveUp(p) \/ ReadRetry(p)
    BY <2>1 DEF ReadLock, ReadWait, ReadGiveUp, ReadRetry, ReadReturn
  <2>2. CASE ReadCheck(p) \/ ReadLockIuspin(p) \/ ReadEmpty(p) \/ ReadEmptyRelock(p)
    BY <2>2 DEF ReadCheck, ReadLockIuspin, ReadEmpty, ReadEmptyRelock, ReadReturn
  <2>3. CASE ReadCopy(p) \/ ReadTrim(p) \/ ReadDrained(p)
    BY <2>3 DEF ReadCopy, ReadTrim, ReadDrained, ReadReturn
  <2>4. CASE \/ SubmitOwed(p, "z_submit", "z_ok", "z_fail")
             \/ SubmitOwed(p, "d_submit", "d_ok", "d_fail")
    BY <2>4 DEF SubmitOwed
  <2> QED
    BY <2>1, <2>2, <2>3, <2>4 DEF ReadStep, ReadCall
<1> QED
  BY <1>1, <1>2, <1>3 DEF CommandAside, PmStep, PmAside, PortBusy

\* An open has one from its autopm_get to its end; a release has none.
LEMMA FilePmStep ==
  ASSUME IInv, NEW p \in Procs, FileStep(p) \/ OpenCall(p)
  PROVE  PmStep
<1> USE ThreadsDiffer, OtherSubmitted
    DEF IInv, TypeOK, PcTypeOK, HostTypeOK, Urbs, PmAside, PmTake, PmPut, Transfers, PortBusy, At,
        Goto, usb, wr, power
<1>1. CASE OpenCall(p) \/ OpenLock(p) \/ ReleaseLock(p) \/ ReleaseCount(p)
  <2>1. PmAside
    BY <1>1 DEF OpenCall, OpenLock, ReleaseLock, ReleaseCount
  <2> QED
    BY <2>1 DEF PmStep
<1>2. CASE OpenPm(p)
  <2>1. PmTake(p)
    BY <1>2 DEF OpenPm
  <2> QED
    BY <2>1 DEF PmStep
<1>3. CASE OpenCount(p)
  <2>1. PmPut(p)
    BY <1>3 DEF OpenCount
  <2> QED
    BY <2>1 DEF PmStep
<1>4. CASE PoisonUrbs(p)
  <2>1. PmAside
    BY <1>4 DEF PoisonUrbs, PoisonUrb
  <2> QED
    BY <2>1 DEF PmStep
<1>5. CASE ReleaseForget(p) \/ ReleaseUnpoison(p)
  <2>1. PmAside
    BY <1>5 DEF ReleaseForget, ReleaseUnpoison, Poisoned
  <2> QED
    BY <2>1 DEF PmStep
<1> QED
  BY <1>1, <1>2, <1>3, <1>4, <1>5 DEF FileStep

\* Handlers and work items take none; the port's completion puts one.
LEMMA CallbackPmStep ==
  ASSUME IInv, CInv,
         OutCallback \/ WwanTxComplete \/ InCallback \/ IntCallback \/ WorkStep
  PROVE  PmStep
<1> USE ThreadsDiffer
    DEF IInv, TypeOK, PcTypeOK, HostTypeOK, FieldsTypeOK, Urbs, At, Goto, usb, wr, power, locking
<1>1. \A q \in Procs : Transfers(q)' <=> Transfers(q)
  <2>1. \A q \in Procs : pc'[q] = pc[q]
    <3>1. CASE OutCallback \/ WwanTxComplete \/ InCallback
      BY <3>1 DEF OutCallback, OutStatus, OutFree, OutWake, WwanTxComplete, InCallback, InForwarded,
                  InTaken, InAnswered, InUnlinked
    <3>2. CASE IntCallback
      BY <3>2 DEF IntCallback, IntComplete, IntExit, IntFault, IntUnlinked, IntNotified, IntRespond
    <3>3. CASE WorkStep
      BY <3>3 DEF WorkStep, RxStep, RxStart, RxSubmit, RxFail, SvcStep, SvcStart, SubmitOwed, SvcEnd
    <3> QED
      BY <3>1, <3>2, <3>3
  <2> QED
    BY <2>1 DEF Transfers
<1>2. CASE OutCallback
  <2>1. pmUse' = pmUse /\ (PortBusy' <=> PortBusy)
    BY <1>2 DEF OutCallback, OutStatus, OutFree, OutWake, Complete, PortBusy
  <2> QED
    BY <1>1, <2>1 DEF PmStep, PmAside
<1>3. CASE WwanTxComplete
  <2>1. pmUse' = pmUse - 1 /\ PortBusy /\ ~PortBusy'
    BY <1>3 DEF WwanTxComplete, Complete, PortBusy
  <2> QED
    BY <1>1, <2>1 DEF PmStep, PmPort
<1>4. CASE InCallback \/ IntCallback \/ WorkStep
  <2>1. CommandAside
    BY <1>4, ResponseAside
  <2>2. pmUse' = pmUse
    BY <1>4
       DEF InCallback, InForwarded, InTaken, InAnswered, InUnlinked, IntCallback, IntComplete,
           IntExit, IntFault, IntUnlinked, IntNotified, IntRespond, WorkStep, RxStep, RxStart,
           RxSubmit, RxFail, SvcStep, SvcStart, SubmitOwed, SvcEnd
  <2> QED
    BY <1>1, <2>1, <2>2 DEF PmStep, PmAside, CommandAside, PortBusy
<1> QED
  BY <1>2, <1>3, <1>4

\* The port takes one for a command that was accepted; the core takes none.
LEMMA OwnersPmStep ==
  ASSUME IInv, LInv, QInv, MInv, CInv,
         \/ WwanCall \/ WwanStep
         \/ CoreStep \/ \E op \in CoreOps : CoreBegin(op)
  PROVE  PmStep
<1> USE ThreadsDiffer, OtherSubmitted, ConstantTypes
    DEF IInv, TypeOK, PcTypeOK, HostTypeOK, Urbs, At, Goto, usb, wr, power
<1>1. \A q \in Procs : Transfers(q)' <=> Transfers(q)
  <2>1. \A q \in Procs : pc'[q] = pc[q]
    <3>1. CASE WwanCall \/ WwanStep
      BY <3>1 DEF WwanCall, WwanStart, WwanTx, WwanStop, WwanStep, WwanClaim, WwanListen, WwanTxOff,
                  PoisonUrbs, PoisonUrb, WwanLeave, Poisoned, WwanUnpoison
    <3>2. CASE CoreStep \/ \E op \in CoreOps : CoreBegin(op)
      <4>1. CASE CoreEnd
        BY <4>1 DEF CoreEnd
      <4> QED
        BY <3>2, <4>1, CoreStaysAside DEF CoreAside
    <3> QED
      BY <3>1, <3>2
  <2> QED
    BY <2>1 DEF Transfers
<1>2. CASE WwanTx
  <2>1. /\ pc["wwan"] = "started" /\ lock["ops"] = None /\ handler' = "wwan"
    BY <1>2 DEF WwanTx, Acquire, Free
  <2>2. "WWAN_IN_USE" \in flags
    BY <2>1, StartedUses
  <2>3. ~Busy
    BY <2>2, PortExcludes DEF PortUses
  <2>4. PICK rv \in SubmitResults("command") :
          /\ urb' = Submitted("command", rv)
          /\ pmUse' = IF rv = "ok" THEN pmUse + 1 ELSE pmUse
    BY <1>2 DEF WwanTx
  <2>5. CASE rv = "ok"
    <3>1. ~urb["command"]
      BY <2>5 DEF SubmitResults
    <3>2. pmUse' = pmUse + 1 /\ ~PortBusy /\ PortBusy'
      BY <2>1, <2>4, <2>5, <3>1 DEF Submitted, PortBusy
    <3> QED
      BY <1>1, <3>2 DEF PmStep, PmPort
  <2>6. CASE rv # "ok"
    <3>1. pmUse' = pmUse /\ (PortBusy' <=> PortBusy)
      BY <2>1, <2>3, <2>4, <2>6 DEF Submitted, PortBusy, Busy, FieldsTypeOK
    <3> QED
      BY <1>1, <3>1 DEF PmStep, PmAside
  <2> QED
    BY <2>5, <2>6
<1>3. CASE (WwanCall \/ WwanStep) /\ ~WwanTx
  <2>1. pmUse' = pmUse /\ handler' = handler /\ urb'["command"] = urb["command"]
    BY <1>3
       DEF WwanCall, WwanStart, WwanStop, WwanStep, WwanClaim, WwanListen, WwanTxOff, PoisonUrbs,
           PoisonUrb, WwanLeave, Poisoned, WwanUnpoison
  <2> QED
    BY <1>1, <2>1 DEF PmStep, PmAside, PortBusy
<1>4. CASE CoreStep \/ \E op \in CoreOps : CoreBegin(op)
  <2>1. pmUse' = pmUse /\ handler' = handler /\ urb'["command"] = urb["command"]
    <3>1. CASE CoreMutex \/ CoreDeinit \/ CoreFlag \/ CoreRlock \/ CoreWlock
      BY <3>1 DEF CoreMutex, CoreDeinit, CoreFlag, CoreRlock, CoreWlock
    <3>2. CASE PoisonUrbs("core") \/ WwanLeave("core") \/ WwanUnpoison("core")
      BY <3>2 DEF PoisonUrbs, PoisonUrb, WwanLeave, Poisoned, WwanUnpoison
    <3>3. CASE CoreCancel \/ CoreUnpoison \/ CorePost \/ CoreEnd
      BY <3>3 DEF CoreCancel, CancelWork, Poisoned, CoreUnpoison, CorePost, Recovered, CoreEnd
    <3>4. CASE CoreResume \/ CoreRecount \/ CoreResubmit
      BY <3>4 DEF CoreResume, CoreRecount, CoreResubmit
    <3>5. CASE \E op \in CoreOps : CoreBegin(op)
      BY <3>5 DEF CoreBegin
    <3> QED
      BY <1>4, <3>1, <3>2, <3>3, <3>4, <3>5 DEF CoreStep
  <2> QED
    BY <1>1, <2>1 DEF PmStep, PmAside, PortBusy
<1> QED
  BY <1>2, <1>3, <1>4

\* Every autopm reference has its holder: a write or an open under way, or the
\* port's command in flight, whose completion puts it (917), whether it ends
\* well, is cancelled by a suspend or outlives the stop of the port.
THEOREM ReferencesBalance == Spec => []PmBalanced
<1>1. Init => PmBalanced
  <2> SUFFICES ASSUME Init PROVE PmBalanced
    OBVIOUS
  <2>1. {p \in Procs : Transfers(p)} = {}
    BY ThreadsDiffer DEF Init, Transfers
  <2>2. Cardinality({p \in Procs : Transfers(p)}) = 0
    BY <2>1, FS_EmptySet
  <2> QED
    BY <2>2 DEF Init, PmBalanced, Urbs
<1>2. ASSUME IInv, LInv, QInv, MInv, CInv, PmBalanced, [Next]_vars
      PROVE  PmBalanced'
  <2>1. PmStep
    <3>1. CASE UNCHANGED vars
      BY <3>1 DEF vars, locking, usb, wr, power, PmStep, PmAside, PortBusy, Transfers
    <3>2. ASSUME NEW p \in Procs, ProcStep(p) \/ ProcCall(p)
          PROVE  PmStep
      BY <1>2, <3>2, WritePmStep, ReadPmStep, FilePmStep DEF ProcStep, ProcCall
    <3>3. CASE OutCallback \/ WwanTxComplete \/ InCallback \/ IntCallback \/ WorkStep
      BY <1>2, <3>3, CallbackPmStep
    <3>4. CASE WwanCall \/ WwanStep \/ CoreStep \/ \E op \in CoreOps : CoreBegin(op)
      BY <1>2, <3>4, OwnersPmStep
    <3> QED
      BY <1>2, <3>1, <3>2, <3>3, <3>4 DEF Next
  <2> QED
    BY <1>2, <2>1, PmStepKeeps
<1> QED
  BY <1>1, <1>2, Invariant, LifeInvariant, QuietInvariant, ModeInvariant, CommandInvariant, PTL
     DEF Spec
=============================================================================
