------------------------------- MODULE WdmFile -------------------------------
(***************************************************************************)
(* open() and release() of cdc-wdm.c.  desc->count counts the open files;  *)
(* the first open starts the interrupt URB, the last release stops all     *)
(* three URBs, or frees the device if it is gone.                          *)
(***************************************************************************)
EXTENDS WdmState

\* Up to 774, under wdm_mutex.  A process can only ask while the minor is
\* registered, but the device may go before the mutex is taken.
OpenCall(p) ==
  /\ At(p, "closed")
  /\ listed
  /\ Goto(p, "open_lock")
  /\ UNCHANGED <<lock, flags, usb, work, life, wr, rsp, buf, dev, power>>

\* VARIANT: a port in WWAN mode may be opened.
OpenLockShared(p) ==
  /\ At(p, "open_lock")
  /\ Free("wdm")
  /\ IF ~listed \/ "DISCONNECTING" \in flags
       THEN Goto(p, "closed") /\ UNCHANGED lock
       ELSE Goto(p, "open_pm") /\ Acquire(p, "wdm")
  /\ UNCHANGED <<flags, usb, work, life, wr, rsp, buf, dev, power>>

OpenLock(p) ==
  /\ At(p, "open_lock")
  /\ Free("wdm")
  /\ IF ~listed \/ flags \cap {"DISCONNECTING", "WWAN_IN_USE"} # {}
       THEN Goto(p, "closed") /\ UNCHANGED lock
       ELSE Goto(p, "open_pm") /\ Acquire(p, "wdm")
  /\ UNCHANGED <<flags, usb, work, life, wr, rsp, buf, dev, power>>

OpenPm(p) ==
  /\ At(p, "open_pm")
  /\ PmReady
  /\ pmUse' = pmUse + 1
  /\ Goto(p, "open_count")
  /\ UNCHANGED <<lock, flags, usb, work, life, wr, rsp, buf, dev, pm, coreOp, opsLeft>>

\* 783-802 under wlock.  An open whose interrupt URB is refused fails and does
\* not count.
OpenCount(p) ==
  /\ At(p, "open_count")
  /\ Free("wlock")
  /\ \/ /\ count = 0
        /\ werr' = 0
        /\ rerr' = 0
        /\ \E rv \in SubmitResults("validity") :
             /\ urb' = Submitted("validity", rv)
             /\ count' = IF rv = "ok" THEN 1 ELSE 0
             /\ Goto(p, IF rv = "ok" THEN "open" ELSE "closed")
     \/ /\ count > 0
        /\ count' = count + 1
        /\ Goto(p, "open")
        /\ UNCHANGED <<werr, rerr, urb>>
  /\ pmUse' = pmUse - 1
  /\ Release({"wdm"})
  /\ UNCHANGED <<flags, poison, work, alive, listed, outbuf, handler, txoff, resp_count,
                 reslength, buf, dev, pm, coreOp, opsLeft>>

-----------------------------------------------------------------------------
\* release() follows the flush of close() (WdmWrite).
ReleaseLock(p) ==
  /\ At(p, "rel_lock")
  /\ Acquire(p, "wdm")
  /\ Goto(p, "rel_count")
  /\ UNCHANGED <<flags, usb, work, life, wr, rsp, buf, dev, power>>

\* VARIANT: a release after the disconnect leaves the device to nobody.
ReleaseCountLeak(p) ==
  /\ At(p, "rel_count")
  /\ Free("wlock")
  /\ count' = count - 1
  /\ IF count' = 0 /\ "DISCONNECTING" \notin flags
       THEN Goto(p, "p1") /\ UNCHANGED lock
       ELSE Goto(p, "closed") /\ Release({"wdm"})
  /\ UNCHANGED <<flags, usb, work, alive, listed, wr, rsp, buf, dev, power>>

\* 813-830: the last release stops the URBs (from "p1"), or frees a device that
\* is gone.
ReleaseCount(p) ==
  /\ At(p, "rel_count")
  /\ Free("wlock")
  /\ count' = count - 1
  /\ IF count' = 0 /\ "DISCONNECTING" \notin flags
       THEN Goto(p, "p1") /\ UNCHANGED lock
       ELSE Goto(p, "closed") /\ Release({"wdm"})
  /\ alive' = (alive /\ ~(count' = 0 /\ "DISCONNECTING" \in flags))
  /\ UNCHANGED <<flags, usb, work, listed, wr, rsp, buf, dev, power>>

\* 821-824
ReleaseForget(p) ==
  /\ Poisoned(p)
  /\ Free("iuspin")
  /\ resp_count' = 0
  /\ Clear({"RESPONDING"})
  /\ Goto(p, "rel_power")
  /\ UNCHANGED <<lock, usb, work, life, wr, rerr, reslength, buf, dev, power>>

\* manage_power(0) waits, like every autopm_get, for the device to be awake.
\* VARIANT: the URBs are let go while the device is still waking up.
ReleaseUnpoisonAsleep(p) ==
  /\ At(p, "rel_power")
  /\ UnpoisonUrbs
  /\ Goto(p, "closed")
  /\ Release({"wdm"})
  /\ UNCHANGED <<flags, urb, work, life, wr, rsp, buf, dev, power>>

ReleaseUnpoison(p) ==
  /\ At(p, "rel_power")
  /\ PmReady
  /\ UnpoisonUrbs
  /\ Goto(p, "closed")
  /\ Release({"wdm"})
  /\ UNCHANGED <<flags, urb, work, life, wr, rsp, buf, dev, power>>

FileStep(p) ==
  \/ OpenLock(p) \/ OpenPm(p) \/ OpenCount(p)
  \/ ReleaseLock(p) \/ ReleaseCount(p)
  \/ PoisonUrbs(p) \/ ReleaseForget(p) \/ ReleaseUnpoison(p)
=============================================================================
