------------------------------ MODULE WdmWrite ------------------------------
(***************************************************************************)
(* The command path of cdc-wdm.c: write(), fsync() and the flush of        *)
(* close(), and the completion of the command URB.  One command at a time  *)
(* is in flight; IN_USE and wlock keep its buffer and its URB to one       *)
(* writer, and a reset takes IN_USE away from a command still in flight.   *)
(***************************************************************************)
EXTENDS WdmState

\* The bits of every write that is over: put_interface, wlock, 511-512 and
\* 516-519; the caller's buffer belongs to the URB or is freed.
WriteReturn(p) ==
  /\ Release({"wlock"})
  /\ pmUse' = pmUse - 1
  /\ Goto(p, "open")

\* write(): an error of the previous command is reported first.
WriteStart(p) ==
  /\ At(p, "open")
  /\ "write" \in CallsOf[p]
  /\ Free("iuspin")
  /\ werr' = 0
  /\ Goto(p, IF werr < 0 THEN "open" ELSE "w_lock")
  /\ UNCHANGED <<lock, flags, usb, work, life, outbuf, handler, txoff, rsp, buf, dev, power>>

\* mutex_lock_interruptible(&desc->wlock) and the test for a dead device.
WriteLock(p) ==
  /\ At(p, "w_lock")
  /\ Free("wlock")
  /\ IF "DISCONNECTING" \in flags
       THEN Goto(p, "open") /\ UNCHANGED lock
       ELSE Goto(p, "w_pm") /\ Acquire(p, "wlock")
  /\ UNCHANGED <<flags, usb, work, life, wr, rsp, buf, dev, power>>

WritePm(p) ==
  /\ At(p, "w_pm")
  /\ PmReady
  /\ pmUse' = pmUse + 1
  /\ Goto(p, "w_wait")
  /\ UNCHANGED <<lock, flags, usb, work, life, wr, rsp, buf, dev, pm, coreOp, opsLeft>>

\* Wait for the command before to complete.  A nonblocking write, or a signal,
\* gives up instead (WriteGiveUp).
WriteWait(p) ==
  /\ At(p, "w_wait")
  /\ "IN_USE" \notin flags
  /\ Goto(p, "w_check")
  /\ UNCHANGED <<lock, flags, usb, work, life, wr, rsp, buf, dev, power>>

WriteGiveUp(p) ==
  \/ /\ At(p, "w_lock")
     /\ Goto(p, "open")
     /\ UNCHANGED <<lock, flags, usb, work, life, wr, rsp, buf, dev, power>>
  \/ /\ At(p, "w_wait")
     /\ WriteReturn(p)
     /\ UNCHANGED <<flags, usb, work, life, wr, rsp, buf, dev, pm, coreOp, opsLeft>>

\* IN_USE may be clear because a reset cleared it under a command still in
\* flight, so RESETTING is looked at after the wait.
\* VARIANT: the wait's result is believed.
WriteCheckBelieved(p) ==
  /\ At(p, "w_check")
  /\ IF "DISCONNECTING" \in flags
       THEN WriteReturn(p)
       ELSE Goto(p, "w_fill") /\ UNCHANGED <<lock, pmUse>>
  /\ UNCHANGED <<flags, usb, work, life, wr, rsp, buf, dev, pm, coreOp, opsLeft>>

WriteCheck(p) ==
  /\ At(p, "w_check")
  /\ IF flags \cap {"RESETTING", "DISCONNECTING"} # {}
       THEN WriteReturn(p)
       ELSE Goto(p, "w_fill") /\ UNCHANGED <<lock, pmUse>>
  /\ UNCHANGED <<flags, usb, work, life, wr, rsp, buf, dev, pm, coreOp, opsLeft>>

\* Fill the URB and the request, mark them used and hand the buffer over.
WriteFill(p) ==
  /\ At(p, "w_fill")
  /\ Set({"IN_USE"})
  /\ outbuf' = p
  /\ handler' = "write"
  /\ Goto(p, "w_submit")
  /\ UNCHANGED <<lock, usb, work, life, werr, txoff, rsp, buf, dev, power>>

\* VARIANT: IN_USE stays set when the command was not sent.
WriteSubmitStuck(p) ==
  /\ At(p, "w_submit")
  /\ \E rv \in SubmitResults("command") :
       /\ urb' = Submitted("command", rv)
       /\ outbuf' = IF rv = "ok" THEN outbuf ELSE None
       /\ UNCHANGED flags
  /\ WriteReturn(p)
  /\ UNCHANGED <<poison, work, life, werr, handler, txoff, rsp, buf, dev, pm, coreOp, opsLeft>>

WriteSubmit(p) ==
  /\ At(p, "w_submit")
  /\ \E rv \in SubmitResults("command") :
       /\ urb' = Submitted("command", rv)
       /\ outbuf' = IF rv = "ok" THEN outbuf ELSE None
       /\ IF rv = "ok" THEN UNCHANGED flags ELSE Clear({"IN_USE"})
  /\ WriteReturn(p)
  /\ UNCHANGED <<poison, work, life, werr, handler, txoff, rsp, buf, dev, pm, coreOp, opsLeft>>

-----------------------------------------------------------------------------
(* wdm_out_callback has three stretches: the status under iuspin, the free  *)
(* of the buffer, and the bit that lets the next writer in.                 *)

OutStatus ==
  /\ urb["command"]
  /\ handler = "write"
  /\ At("out", "idle")
  /\ Free("iuspin")
  /\ Complete("command")
  /\ \E st \in CommandStatus \cup (IF poison["command"] > 0 THEN {"err"} ELSE {}) :
       werr' = IF st = "ok" THEN 0 ELSE -1
  /\ Goto("out", "free")
  /\ UNCHANGED <<lock, flags, poison, work, life, outbuf, handler, txoff, rsp, buf, dev, power>>

OutFree ==
  /\ At("out", "free")
  /\ outbuf' = None
  /\ Goto("out", "wake")
  /\ UNCHANGED <<lock, flags, usb, work, life, werr, handler, txoff, rsp, buf, dev, power>>

OutWake ==
  /\ At("out", "wake")
  /\ Clear({"IN_USE"})
  /\ Goto("out", "idle")
  /\ UNCHANGED <<lock, usb, work, life, wr, rsp, buf, dev, power>>

\* VARIANT: the next writer is let in before the buffer is freed.
OutCallbackSwapped ==
  \/ OutStatus
  \/ /\ At("out", "free")
     /\ Clear({"IN_USE"})
     /\ Goto("out", "wake")
     /\ UNCHANGED <<lock, usb, work, life, wr, rsp, buf, dev, power>>
  \/ /\ At("out", "wake")
     /\ outbuf' = None
     /\ Goto("out", "idle")
     /\ UNCHANGED <<lock, flags, usb, work, life, werr, handler, txoff, rsp, buf, dev, power>>

OutCallback == OutStatus \/ OutFree \/ OutWake

-----------------------------------------------------------------------------
(* wdm_wait_for_response serves fsync(), without a timeout, and the flush   *)
(* that begins every close(), with one.                                     *)

WaitAt == [fsync |-> "fsync_wait", flush |-> "flush_wait"]
WerrAt == [fsync |-> "fsync_werr", flush |-> "flush_werr"]
WaitReturn == [fsync |-> "open", flush |-> "rel_lock"]

Fsync(p) ==
  /\ At(p, "open")
  /\ "fsync" \in CallsOf[p]
  /\ Goto(p, "fsync_wait")
  /\ UNCHANGED <<lock, flags, usb, work, life, wr, rsp, buf, dev, power>>

Flush(p) ==
  /\ At(p, "open")
  /\ "close" \in CallsOf[p]
  /\ Goto(p, "flush_wait")
  /\ UNCHANGED <<lock, flags, usb, work, life, wr, rsp, buf, dev, power>>

AwaitCommand(p, k) ==
  /\ At(p, WaitAt[k])
  /\ "IN_USE" \notin flags \/ "DISCONNECTING" \in flags
  /\ Goto(p, IF "DISCONNECTING" \in flags THEN WaitReturn[k] ELSE WerrAt[k])
  /\ UNCHANGED <<lock, flags, usb, work, life, wr, rsp, buf, dev, power>>

\* A signal ends fsync, a signal or 30 s the flush.
AwaitGiveUp(p, k) ==
  /\ At(p, WaitAt[k])
  /\ Goto(p, WaitReturn[k])
  /\ UNCHANGED <<lock, flags, usb, work, life, wr, rsp, buf, dev, power>>

AwaitStatus(p, k) ==
  /\ At(p, WerrAt[k])
  /\ Free("iuspin")
  /\ werr' = 0
  /\ Goto(p, WaitReturn[k])
  /\ UNCHANGED <<lock, flags, usb, work, life, outbuf, handler, txoff, rsp, buf, dev, power>>

-----------------------------------------------------------------------------
WriteStep(p) ==
  \/ WriteLock(p) \/ WritePm(p) \/ WriteWait(p) \/ WriteCheck(p)
  \/ WriteFill(p) \/ WriteSubmit(p)
  \/ \E k \in {"fsync", "flush"} : AwaitCommand(p, k) \/ AwaitStatus(p, k)

WriteCall(p) ==
  \/ WriteStart(p) \/ Fsync(p) \/ Flush(p) \/ WriteGiveUp(p)
  \/ \E k \in {"fsync", "flush"} : AwaitGiveUp(p, k)

=============================================================================
