----------------------------- MODULE WdmHotplug -----------------------------
(***************************************************************************)
(* What the USB core does to cdc-wdm.c: suspend and resume, reset,         *)
(* disconnect.  The core calls one at a time.  Each of them bars and       *)
(* cancels the three URBs, cancels the work items, and ends in its own way.*)
(***************************************************************************)
EXTENDS WdmWwan

\* pm is "resuming" while resume runs: the device is awake, its users wait.
CoreFirst == [suspend |-> "c_rlock", autosuspend |-> "c_flag",
              reset |-> "c_flag", disconnect |-> "c_mutex"]

\* The core begins: only a device in use by no autopm reference autosuspends,
\* and it is awake when it is reset or unbound.
CoreBegin(op) ==
  /\ At("core", "idle")
  /\ op \in CoreOps
  /\ opsLeft > 0
  /\ pm = "active"
  /\ op = "autosuspend" => pmUse = 0
  /\ opsLeft' = opsLeft - 1
  /\ coreOp' = op
  /\ Goto("core", CoreFirst[op])
  /\ UNCHANGED <<lock, flags, usb, work, life, wr, rsp, buf, dev, pm, pmUse>>

\* disconnect, 1260-1265
CoreMutex ==
  /\ At("core", "c_mutex")
  /\ Acquire("core", "wdm")
  /\ Goto("core", IF HasWwan THEN "c_deinit" ELSE "c_flag")
  /\ UNCHANGED <<flags, usb, work, life, wr, rsp, buf, dev, power>>

\* wdm_wwan_deinit, 988-995: removing the port stops it first if it runs.
CoreDeinit ==
  /\ At("core", "c_deinit")
  /\ Free("ops")
  /\ IF At("wwan", "started")
       THEN /\ Acquire("core", "ops")
            /\ Goto("core", "p1")
            /\ coreOp' = "deinit"
       ELSE /\ pc' = [pc EXCEPT !["core"] = "c_flag", !["wwan"] = "removed"]
            /\ UNCHANGED <<lock, coreOp>>
  /\ UNCHANGED <<flags, usb, work, life, wr, rsp, buf, dev, pm, pmUse, opsLeft>>

\* VARIANT: the device is marked without waking the readers.
CoreFlagMute ==
  /\ At("core", "c_flag")
  /\ Free("iuspin")
  /\ \/ /\ coreOp = "disconnect"
        /\ Set({"DISCONNECTING"})
        /\ UNCHANGED rerr
     \/ /\ coreOp = "reset"
        /\ flags' = (flags \ {"IN_USE"}) \cup {"RESETTING"}
        /\ rerr' = -1
  /\ Goto("core", "c_rlock")
  /\ UNCHANGED <<lock, usb, work, life, wr, resp_count, reslength, buf, dev, power>>

\* 1270-1274, 1308-1318, 1372-1378
CoreFlag ==
  /\ At("core", "c_flag")
  /\ Free("iuspin")
  /\ \/ /\ coreOp = "disconnect"
        /\ Set({"DISCONNECTING", "READ"})
        /\ Goto("core", "c_rlock")
        /\ UNCHANGED <<rerr, coreOp>>
     \/ /\ coreOp = "reset"
        /\ flags' = (flags \ {"IN_USE"}) \cup {"RESETTING", "READ"}
        /\ rerr' = -1
        /\ Goto("core", "c_rlock")
        /\ UNCHANGED coreOp
     \/ /\ coreOp = "autosuspend"
        /\ flags \cap {"IN_USE", "RESPONDING"} # {}
        /\ Goto("core", "idle")
        /\ coreOp' = "none"
        /\ UNCHANGED <<flags, rerr>>
     \/ /\ coreOp = "suspend" \/ flags \cap {"IN_USE", "RESPONDING"} = {}
        /\ coreOp \in {"suspend", "autosuspend"}
        /\ Set({"SUSPENDING"})
        /\ Goto("core", "p1")
        /\ UNCHANGED <<rerr, coreOp>>
  /\ UNCHANGED <<lock, usb, work, life, wr, resp_count, reslength, buf, dev,
                 pm, pmUse, opsLeft>>

CoreRlock ==
  /\ At("core", "c_rlock")
  /\ Acquire("core", "rlock")
  /\ Goto("core", "c_wlock")
  /\ UNCHANGED <<flags, usb, work, life, wr, rsp, buf, dev, power>>

CoreWlock ==
  /\ At("core", "c_wlock")
  /\ Acquire("core", "wlock")
  /\ Goto("core", IF coreOp = "suspend" THEN "c_flag" ELSE "p1")
  /\ UNCHANGED <<flags, usb, work, life, wr, rsp, buf, dev, power>>

\* cancel_work_sync of rxwork, once the URBs are quiet, and of service_outs_intr
CancelWork(w, next) ==
  /\ At(w, "idle")
  /\ work' = work \ {w}
  /\ Goto("core", next)
  /\ UNCHANGED <<lock, flags, usb, life, wr, rsp, buf, dev, power>>

\* VARIANT: the works are left to finish on their own.
CoreCancelNot ==
  /\ Poisoned("core")
  /\ coreOp # "deinit"
  /\ Goto("core", IF coreOp = "disconnect" THEN "c_end" ELSE "c_unpoison")
  /\ UNCHANGED <<lock, flags, usb, work, life, wr, rsp, buf, dev, power>>

CoreCancel ==
  \/ /\ Poisoned("core")
     /\ coreOp # "deinit"
     /\ CancelWork("rx", "c_svc")
  \/ /\ At("core", "c_svc")
     /\ CancelWork("svc", IF coreOp = "disconnect" THEN "c_end" ELSE "c_unpoison")

\* The end of suspend, 1323-1328, and the first call of post_reset.
CoreUnpoison ==
  /\ At("core", "c_unpoison")
  /\ UnpoisonUrbs
  /\ IF coreOp = "reset"
       THEN Goto("core", "c_post") /\ UNCHANGED <<lock, pm, coreOp>>
       ELSE /\ IF coreOp = "suspend" THEN Release({"rlock", "wlock"}) ELSE UNCHANGED lock
            /\ pm' = "suspended"
            /\ coreOp' = "none"
            /\ Goto("core", "idle")
  /\ UNCHANGED <<flags, urb, work, life, wr, rsp, buf, dev, pmUse, opsLeft>>

\* recover_from_urb_loss: files that are open want their notifications.
Recovered ==
  IF count > 0
    THEN \E rv \in SubmitResults("validity") : urb' = Submitted("validity", rv)
    ELSE UNCHANGED urb

\* VARIANT: a reset leaves the open files deaf.
CorePostDeaf ==
  /\ At("core", "c_post")
  /\ Clear({"OVERFLOW", "RESETTING"})
  /\ Release({"rlock", "wlock"})
  /\ coreOp' = "none"
  /\ Goto("core", "idle")
  /\ UNCHANGED <<usb, work, life, wr, rsp, buf, dev, pm, pmUse, opsLeft>>

\* post_reset, 1393-1397
CorePost ==
  /\ At("core", "c_post")
  /\ Clear({"OVERFLOW", "RESETTING"})
  /\ Recovered
  /\ Release({"rlock", "wlock"})
  /\ coreOp' = "none"
  /\ Goto("core", "idle")
  /\ UNCHANGED <<poison, work, life, wr, rsp, buf, dev, pm, pmUse, opsLeft>>

\* wdm_resume: SUSPENDING is cleared, then the count is looked at, then the
\* interrupt URB submitted; nothing is locked.
CoreResume ==
  /\ At("core", "idle")
  /\ pm = "suspended"
  /\ pm' = "resuming"
  /\ Clear({"SUSPENDING"})
  /\ Goto("core", "c_recover")
  /\ UNCHANGED <<lock, usb, work, life, wr, rsp, buf, dev, pmUse, coreOp, opsLeft>>

CoreRecount ==
  /\ At("core", "c_recover")
  /\ IF count > 0
       THEN Goto("core", "c_resubmit") /\ UNCHANGED pm
       ELSE Goto("core", "idle") /\ pm' = "active"
  /\ UNCHANGED <<lock, flags, usb, work, life, wr, rsp, buf, dev, pmUse, coreOp, opsLeft>>

CoreResubmit ==
  /\ At("core", "c_resubmit")
  /\ \E rv \in SubmitResults("validity") : urb' = Submitted("validity", rv)
  /\ Goto("core", "idle")
  /\ pm' = "active"
  /\ UNCHANGED <<lock, flags, poison, work, life, wr, rsp, buf, dev, pmUse, coreOp, opsLeft>>

\* VARIANT: the device is freed whether or not files are open.
CoreEndHasty ==
  /\ At("core", "c_end")
  /\ Release({"rlock", "wlock", "wdm"})
  /\ listed' = FALSE
  /\ alive' = FALSE
  /\ coreOp' = "none"
  /\ Goto("core", "gone")
  /\ UNCHANGED <<flags, usb, work, count, wr, rsp, buf, dev, pm, pmUse, opsLeft>>

\* 1280-1292: the device leaves the list; with no open file it is freed here.
CoreEnd ==
  /\ At("core", "c_end")
  /\ Release({"rlock", "wlock", "wdm"})
  /\ listed' = FALSE
  /\ alive' = (alive /\ count > 0)
  /\ coreOp' = "none"
  /\ Goto("core", "gone")
  /\ UNCHANGED <<flags, usb, work, count, wr, rsp, buf, dev, pm, pmUse, opsLeft>>

CoreStep ==
  \/ CoreMutex \/ CoreDeinit \/ CoreFlag \/ CoreRlock \/ CoreWlock
  \/ PoisonUrbs("core") \/ WwanLeave("core") \/ WwanUnpoison("core")
  \/ CoreCancel \/ CoreUnpoison \/ CorePost
  \/ CoreResume \/ CoreRecount \/ CoreResubmit \/ CoreEnd
=============================================================================
