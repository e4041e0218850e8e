------------------------------- MODULE WdmRead -------------------------------
(***************************************************************************)
(* The response path of cdc-wdm.c.  The device announces a message on the  *)
(* interrupt URB; wdm_int_callback submits the response URB;               *)
(* wdm_in_callback appends what it brought to ubuf; read() drains ubuf and *)
(* submits again while notifications are owed.  Two work items submit when *)
(* a callback could not.  RESPONDING says that the response URB is busy.   *)
(***************************************************************************)
EXTENDS WdmState

-----------------------------------------------------------------------------
(* read(): one reader at a time under rlock *)

ReadReturn(p) ==
  /\ Release({"rlock"})
  /\ cntr' = [cntr EXCEPT ![p] = 0]
  /\ Goto(p, "open")

ReadLock(p) ==
  /\ At(p, "open")
  /\ "read" \in CallsOf[p]
  /\ Acquire(p, "rlock")
  /\ cntr' = [cntr EXCEPT ![p] = Len(ubuf)]
  /\ Goto(p, IF ubuf = <<>> THEN "r_retry" ELSE "r_copy")
  /\ UNCHANGED <<flags, usb, work, life, wr, rsp, ubuf, sent, got, told, dev, power>>

\* retry: 579-588.  ENOBUFS tells the reader of everything dropped so far.
ReadRetry(p) ==
  /\ At(p, "r_retry")
  /\ \/ /\ "DISCONNECTING" \in flags
        /\ ReadReturn(p)
        /\ UNCHANGED <<flags, told>>
     \/ /\ "DISCONNECTING" \notin flags
        /\ "OVERFLOW" \in flags
        /\ Clear({"OVERFLOW"})
        /\ told' = sent
        /\ ReadReturn(p)
     \/ /\ flags \cap {"DISCONNECTING", "OVERFLOW"} = {}
        /\ Goto(p, "r_wait")
        /\ UNCHANGED <<lock, flags, cntr, told>>
  /\ UNCHANGED <<usb, work, life, wr, rsp, ubuf, sent, got, dev, power>>

ReadWait(p) ==
  /\ At(p, "r_wait")
  /\ "READ" \in flags
  /\ Goto(p, "r_check")
  /\ UNCHANGED <<lock, flags, usb, work, life, wr, rsp, buf, dev, power>>

\* EAGAIN of a nonblocking read, a signal in the wait, or EFAULT in the copy:
\* nothing but rlock changes.
ReadGiveUp(p) ==
  /\ \/ At(p, "r_wait")
     \/ At(p, "r_copy")
  /\ ReadReturn(p)
  /\ UNCHANGED <<flags, usb, work, life, wr, rsp, ubuf, sent, got, told, dev, power>>

ReadCheck(p) ==
  /\ At(p, "r_check")
  /\ IF flags \cap {"DISCONNECTING", "RESETTING"} # {}
       THEN ReadReturn(p)
       ELSE Goto(p, "r_spin") /\ UNCHANGED <<lock, cntr>>
  /\ UNCHANGED <<flags, usb, work, life, wr, rsp, ubuf, sent, got, told, dev, power>>

\* spin_lock_irq at 616.  An error is reported and cleared; READ gone means
\* that the race with another completion was lost.
ReadLockIuspin(p) ==
  /\ At(p, "r_spin")
  /\ Free("iuspin")
  /\ \/ /\ rerr < 0
        /\ rerr' = 0
        /\ ReadReturn(p)
     \/ /\ rerr = 0
        /\ UNCHANGED <<lock, rerr>>
        /\ \/ "READ" \notin flags /\ Goto(p, "r_retry") /\ UNCHANGED cntr
           \/ /\ "READ" \in flags
              /\ reslength # 0
              /\ cntr' = [cntr EXCEPT ![p] = Len(ubuf)]
              /\ Goto(p, "r_copy")
  /\ UNCHANGED <<flags, usb, work, life, wr, resp_count, reslength,
                 ubuf, sent, got, told, dev, power>>

\* The zero-length response, 633-641, when no submission is owed: neither way
\* out releases iuspin, so it stays with p.
ReadEmpty(p) ==
  /\ At(p, "r_spin")
  /\ rerr = 0 /\ "READ" \in flags /\ reslength = 0
  /\ TakeOwed
  /\ \/ /\ Settled
        /\ Acquire(p, "iuspin")
        /\ Clear({"READ"})
        /\ Goto(p, "r_retry")
        /\ UNCHANGED cntr
     \/ /\ Refused
        /\ Free("iuspin")
        /\ lock' = [lock EXCEPT !["iuspin"] = p, !["rlock"] = None]
        /\ Clear({"READ"})
        /\ Goto(p, "open")
        /\ cntr' = [cntr EXCEPT ![p] = 0]
     \/ /\ Owed
        /\ Free("iuspin")
        /\ flags' = (flags \ {"READ"}) \cup {"RESPONDING"}
        /\ Goto(p, "z_submit")
        /\ UNCHANGED <<lock, cntr>>
  /\ UNCHANGED <<usb, work, life, wr, rerr, reslength, ubuf, sent, got, told, dev, power>>

\* The same with a submission owed: iuspin is retaken at 550 and kept.
ReadEmptyRelock(p) ==
  /\ Free("iuspin")
  /\ \/ /\ At(p, "z_ok")
        /\ Acquire(p, "iuspin")
        /\ Goto(p, "r_retry")
        /\ UNCHANGED <<flags, resp_count, cntr>>
     \/ /\ At(p, "z_fail")
        /\ Clear({"RESPONDING"})
        /\ resp_count' = 0
        /\ lock' = [lock EXCEPT !["iuspin"] = p, !["rlock"] = None]
        /\ cntr' = [cntr EXCEPT ![p] = 0]
        /\ Goto(p, "open")
  /\ UNCHANGED <<usb, work, life, wr, rerr, reslength, ubuf, sent, got, told, dev, power>>

\* copy_to_user without iuspin: only this reader removes bytes.
ReadCopy(p) ==
  /\ At(p, "r_copy")
  /\ \E n \in ReadSizes :
       LET c == IF cntr[p] > n THEN n ELSE cntr[p] IN
       /\ cntr' = [cntr EXCEPT ![p] = c]
       /\ got' = IF c = 0 THEN got ELSE ubuf[c]
  /\ Goto(p, "r_trim")
  /\ UNCHANGED <<lock, flags, usb, work, life, wr, rsp, ubuf, sent, told, dev, power>>

\* VARIANT: a reader that has drained the buffer asks for nothing more.
ReadTrimForget(p) ==
  /\ At(p, "r_trim")
  /\ Free("iuspin")
  /\ ubuf' = SubSeq(ubuf, cntr[p] + 1, Len(ubuf))
  /\ IF ubuf' = <<>> THEN Clear({"READ"}) ELSE UNCHANGED flags
  /\ ReadReturn(p)
  /\ UNCHANGED <<usb, work, life, wr, rsp, sent, got, told, dev, power>>

\* The copied bytes leave ubuf; the reader that empties it clears READ and
\* asks for what is owed, 654-665.
ReadTrim(p) ==
  /\ At(p, "r_trim")
  /\ Free("iuspin")
  /\ ubuf' = SubSeq(ubuf, cntr[p] + 1, Len(ubuf))
  /\ \/ /\ ubuf' # <<>>
        /\ ReadReturn(p)
        /\ UNCHANGED <<flags, resp_count>>
     \/ /\ ubuf' = <<>>
        /\ ~Owed
        /\ Clear({"READ"})
        /\ TakeOwed
        /\ ReadReturn(p)
     \/ /\ ubuf' = <<>>
        /\ Owed
        /\ flags' = (flags \ {"READ"}) \cup {"RESPONDING"}
        /\ TakeOwed
        /\ Goto(p, "d_submit")
        /\ UNCHANGED <<lock, cntr>>
  /\ UNCHANGED <<usb, work, life, wr, rerr, reslength, sent, got, told, dev, power>>

ReadDrained(p) ==
  /\ Free("iuspin")
  /\ \/ At(p, "d_ok") /\ UNCHANGED <<flags, resp_count>>
     \/ At(p, "d_fail") /\ Clear({"RESPONDING"}) /\ resp_count' = 0
  /\ ReadReturn(p)
  /\ UNCHANGED <<usb, work, life, wr, rerr, reslength, ubuf, sent, got, told, dev, power>>

-----------------------------------------------------------------------------
(* wdm_in_callback: one iuspin section.  Killed URBs bring no data; what    *)
(* else the device answers is drawn from Responses, and it can send bytes   *)
(* only of a message it holds.                                              *)

InOutcomes == {r \in Responses : r[2] > 0 => avail > 0}

Bytes(n) == [i \in 1 .. n |-> sent + i]

\* VARIANT: the limit is off by one.
OverflowsLate(n) == n + Len(ubuf) > wMaxCommand + 1

Overflows(n) == n + Len(ubuf) > wMaxCommand

\* VARIANT: after an overflow, a response that fits is appended again.
InDataResume(n) ==
  IF Overflows(n)
    THEN UNCHANGED <<ubuf, reslength>>
    ELSE ubuf' = ubuf \o Bytes(n) /\ reslength' = n

\* VARIANT: what does not fit empties the buffer.
InDataDiscard(n) ==
  IF Overflows(n) \/ "OVERFLOW" \in flags
    THEN ubuf' = <<>> /\ UNCHANGED reslength
    ELSE ubuf' = ubuf \o Bytes(n) /\ reslength' = n

\* 259-269: the bytes are appended, unless they do not fit or earlier ones did
\* not and no reader has been told yet.
InData(n) ==
  IF Overflows(n) \/ "OVERFLOW" \in flags
    THEN UNCHANGED <<ubuf, reslength>>
    ELSE ubuf' = ubuf \o Bytes(n) /\ reslength' = n

\* 270-283: with an error pending nobody may come to read, so a work item keeps
\* the device served; otherwise the readers are woken.
InSignal(bits) ==
  /\ flags' = (flags \ {"RESPONDING"}) \cup bits
                \cup (IF rerr' < 0 THEN {} ELSE {"READ"})
  /\ work' = IF rerr' < 0 THEN work \cup {"svc"} ELSE work

\* What the device gave up for this answer.
InTaken(r) ==
  /\ sent' = sent + r[2]
  /\ avail' = IF r[1] = "ok" /\ avail > 0 THEN avail - 1 ELSE avail

InUnlinked ==
  /\ poison["response"] > 0
  /\ UNCHANGED <<rerr, reslength, ubuf, sent, got, told, avail>>
  /\ InSignal({})

\* A stall (EPIPE) is not an error to userspace, only an empty answer.
InAnswered ==
  /\ "WWAN_IN_USE" \notin flags
  /\ \E r \in InOutcomes :
       /\ rerr' = IF rerr = 0 /\ r[1] = "EPROTO" THEN -1 ELSE rerr
       /\ InData(r[2])
       /\ InSignal(IF Overflows(r[2]) THEN {"OVERFLOW"} ELSE {})
       /\ InTaken(r)
  /\ UNCHANGED <<got, told>>

\* wdm_wwan_rx, 997-1012: the bytes go to the port, unless there is no memory.
InForwarded ==
  /\ "WWAN_IN_USE" \in flags
  /\ Clear({"RESPONDING"})
  /\ \E r \in InOutcomes : InTaken(r)
  /\ \/ work' = work \cup {"svc"}
     \/ "ENOMEM" \in SubmitFaults /\ UNCHANGED work
  /\ got' = sent'
  /\ UNCHANGED <<rerr, reslength, ubuf, told>>

InCallback ==
  /\ urb["response"]
  /\ Free("iuspin")
  /\ Complete("response")
  /\ InUnlinked \/ InAnswered \/ InForwarded
  /\ UNCHANGED <<locking, poison, life, wr, resp_count, cntr, notesLeft, power>>

-----------------------------------------------------------------------------
(* wdm_int_callback: what the notification asks for, then the resubmission  *)
(* of its own URB.                                                          *)

\* Cancelled: the URB is not sent again.
IntUnlinked ==
  /\ poison["validity"] > 0
  /\ UNCHANGED <<pc, flags, work>>

IntFault ==
  /\ \/ "stall" \in IntFaults /\ work' = work \cup {"rx"}
     \/ "other" \in IntFaults /\ UNCHANGED work
  /\ Goto("int", "int_exit")
  /\ UNCHANGED flags

\* VARIANT: the response URB is submitted for every notification.
IntRespondAlways ==
  /\ Set({"RESPONDING"})
  /\ \E rv \in SubmitResults("response") :
       /\ urb' = [Submitted("response", rv) EXCEPT !["validity"] = FALSE]
       /\ Goto("int", IF rv = "ok" THEN "int_exit" ELSE rv)

\* 350-359: RESPONDING is set whatever happens; the response URB is submitted
\* only if no notification was owed and it was not busy.
IntRespond ==
  /\ Set({"RESPONDING"})
  /\ \/ /\ resp_count = 0
        /\ flags \cap {"RESPONDING", "DISCONNECTING", "SUSPENDING"} = {}
        /\ \E rv \in SubmitResults("response") :
             /\ urb' = [Submitted("response", rv) EXCEPT !["validity"] = FALSE]
             /\ Goto("int", IF rv = "ok" THEN "int_exit" ELSE rv)
     \/ /\ \/ resp_count # 0
           \/ flags \cap {"RESPONDING", "DISCONNECTING", "SUSPENDING"} # {}
        /\ Complete("validity")
        /\ Goto("int", "int_exit")

IntNotified ==
  /\ notesLeft > 0
  /\ notesLeft' = notesLeft - 1
  /\ avail' = avail + 1
  /\ Free("iuspin")
  /\ resp_count' = resp_count + 1
  /\ IntRespond
  /\ UNCHANGED work

IntComplete ==
  /\ urb["validity"]
  /\ At("int", "idle")
  /\ \/ IntNotified
     \/ /\ IntUnlinked \/ IntFault
        /\ Complete("validity")
        /\ UNCHANGED <<resp_count, dev>>
  /\ UNCHANGED <<lock, poison, life, wr, rerr, reslength, buf, power>>

\* 360-373: a submission that failed frees RESPONDING; EPERM also ends the
\* polling, ENOMEM leaves the response to rxwork.
IntExit ==
  /\ ~At("int", "idle")
  /\ Goto("int", "idle")
  /\ IF At("int", "int_exit") THEN UNCHANGED flags ELSE Clear({"RESPONDING"})
  /\ work' = IF At("int", "ENOMEM") THEN work \cup {"rx"} ELSE work
  /\ \/ At("int", "EPERM") /\ UNCHANGED urb
     \/ /\ ~At("int", "EPERM")
        /\ \E rv \in SubmitResults("validity") : urb' = Submitted("validity", rv)
  /\ UNCHANGED <<lock, poison, life, wr, rsp, buf, dev, power>>

-----------------------------------------------------------------------------
(* The work items *)

\* wdm_rxwork, 1020-1043, in its three stretches
RxStart ==
  /\ At("rx", "idle")
  /\ "rx" \in work
  /\ Free("iuspin")
  /\ work' = work \ {"rx"}
  /\ IF flags \cap {"DISCONNECTING", "RESPONDING"} = {}
       THEN Set({"RESPONDING"}) /\ Goto("rx", "rx_submit")
       ELSE UNCHANGED <<pc, flags>>
  /\ UNCHANGED <<lock, usb, life, wr, rsp, buf, dev, power>>

RxSubmit ==
  /\ At("rx", "rx_submit")
  /\ \E rv \in SubmitResults("response") :
       /\ urb' = Submitted("response", rv)
       /\ Goto("rx", IF rv \in {"ok", "EPERM"} THEN "idle" ELSE "rx_fail")
  /\ UNCHANGED <<lock, flags, poison, work, life, wr, rsp, buf, dev, power>>

RxFail ==
  /\ At("rx", "rx_fail")
  /\ Free("iuspin")
  /\ Clear({"RESPONDING"})
  /\ work' = IF "DISCONNECTING" \in flags THEN work ELSE work \cup {"rx"}
  /\ Goto("rx", "idle")
  /\ UNCHANGED <<lock, usb, life, wr, rsp, buf, dev, power>>

\* service_interrupt_work, 1045-1058: READ is set once nothing is owed.
SvcStart ==
  /\ At("svc", "idle")
  /\ "svc" \in work
  /\ Free("iuspin")
  /\ work' = work \ {"svc"}
  /\ TakeOwed
  /\ \/ Settled /\ Set({"READ"}) /\ UNCHANGED pc
     \/ Refused /\ UNCHANGED <<flags, pc>>
     \/ Owed /\ Set({"RESPONDING"}) /\ Goto("svc", "svc_submit")
  /\ UNCHANGED <<lock, usb, life, wr, rerr, reslength, buf, dev, power>>

SvcEnd ==
  /\ Free("iuspin")
  /\ \/ /\ At("svc", "svc_ok")
        /\ IF resp_count = 0 THEN Set({"READ"}) ELSE UNCHANGED flags
        /\ UNCHANGED resp_count
     \/ /\ At("svc", "svc_fail")
        /\ flags' = (flags \ {"RESPONDING"}) \cup {"READ"}
        /\ resp_count' = 0
  /\ Goto("svc", "idle")
  /\ UNCHANGED <<lock, usb, work, life, wr, rerr, reslength, buf, dev, power>>

-----------------------------------------------------------------------------
\* The steps of a read that wait for nobody's leave: all but the call itself.
ReadStep(p) ==
  \/ ReadRetry(p) \/ ReadWait(p) \/ ReadCheck(p) \/ ReadLockIuspin(p)
  \/ ReadEmpty(p) \/ SubmitOwed(p, "z_submit", "z_ok", "z_fail") \/ ReadEmptyRelock(p)
  \/ ReadCopy(p) \/ ReadTrim(p)
  \/ SubmitOwed(p, "d_submit", "d_ok", "d_fail") \/ ReadDrained(p)

ReadCall(p) == ReadLock(p) \/ ReadGiveUp(p)

IntCallback == IntComplete \/ IntExit

RxStep == RxStart \/ RxSubmit \/ RxFail

SvcStep ==
  SvcStart \/ SubmitOwed("svc", "svc_submit", "svc_ok", "svc_fail") \/ SvcEnd

WorkStep == RxStep \/ SvcStep
=============================================================================
