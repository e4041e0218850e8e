------------------------------- MODULE WdmWwan -------------------------------
(***************************************************************************)
(* The WWAN port of cdc-wdm.c (CONFIG_WWAN), an alternative to the open    *)
(* file.  The WWAN core calls start, stop and tx under the port's ops_lock *)
(* ("ops"), and removing the port stops it under the same lock.            *)
(***************************************************************************)
EXTENDS WdmState

WwanStart ==
  /\ HasWwan
  /\ At("wwan", "stopped")
  /\ Acquire("wwan", "ops")
  /\ Goto("wwan", "start_lock")
  /\ UNCHANGED <<flags, usb, work, life, wr, rsp, buf, dev, power>>

\* 883-889: an open file keeps the port out.
WwanClaim ==
  /\ At("wwan", "start_lock")
  /\ Free("wdm")
  /\ IF count > 0
       THEN Release({"ops"}) /\ Goto("wwan", "stopped") /\ UNCHANGED flags
       ELSE Set({"WWAN_IN_USE"}) /\ Goto("wwan", "start_submit") /\ UNCHANGED lock
  /\ UNCHANGED <<usb, work, life, wr, rsp, buf, dev, power>>

\* 891-897: if the interrupt URB is refused, start fails and WWAN_IN_USE stays.
WwanListen ==
  /\ At("wwan", "start_submit")
  /\ PmReady
  /\ txoff' = FALSE
  /\ \E rv \in SubmitResults("validity") :
       /\ urb' = Submitted("validity", rv)
       /\ Goto("wwan", IF rv = "ok" THEN "started" ELSE "stopped")
  /\ Release({"ops"})
  /\ UNCHANGED <<flags, poison, work, life, werr, outbuf, handler, rsp, buf, dev, power>>

\* wdm_wwan_port_tx, 922-959, up to the submission.
WwanTx ==
  /\ At("wwan", "started")
  /\ ~txoff
  /\ PmReady
  /\ handler' = "wwan"
  /\ \E rv \in SubmitResults("command") :
       /\ urb' = Submitted("command", rv)
       /\ IF rv = "ok"
            THEN Acquire("wwan", "ops") /\ Goto("wwan", "tx_off") /\ pmUse' = pmUse + 1
            ELSE Free("ops") /\ UNCHANGED <<pc, lock, pmUse>>
  /\ UNCHANGED <<flags, poison, work, life, werr, outbuf, txoff, rsp, buf, dev,
                 pm, coreOp, opsLeft>>

\* 955-958: TX goes off after the submission, perhaps after the completion.
WwanTxOff ==
  /\ At("wwan", "tx_off")
  /\ txoff' = TRUE
  /\ Release({"ops"})
  /\ Goto("wwan", "started")
  /\ UNCHANGED <<flags, usb, work, life, werr, outbuf, handler, rsp, buf, dev, power>>

\* VARIANT: only a successful transfer puts its autopm reference.
WwanTxCompleteHolds ==
  /\ urb["command"]
  /\ handler = "wwan"
  /\ Complete("command")
  /\ txoff' = FALSE
  /\ pmUse' = IF poison["command"] > 0 THEN pmUse ELSE pmUse - 1
  /\ UNCHANGED <<locking, flags, poison, work, life, werr, outbuf, handler, rsp, buf,
                 dev, pm, coreOp, opsLeft>>

\* wdm_wwan_port_tx_complete, 912-920
WwanTxComplete ==
  /\ urb["command"]
  /\ handler = "wwan"
  /\ Complete("command")
  /\ txoff' = FALSE
  /\ pmUse' = pmUse - 1
  /\ UNCHANGED <<locking, flags, poison, work, life, werr, outbuf, handler, rsp, buf,
                 dev, pm, coreOp, opsLeft>>

\* wdm_wwan_port_stop, from "p1" (PoisonUrbs): called by the WWAN core, or by
\* the core thread that removes the port.
WwanStop ==
  /\ At("wwan", "started")
  /\ Acquire("wwan", "ops")
  /\ Goto("wwan", "p1")
  /\ UNCHANGED <<flags, usb, work, life, wr, rsp, buf, dev, power>>

Stopping(t) == t = "wwan" \/ (t = "core" /\ coreOp = "deinit")

\* 906-908
WwanLeave(t) ==
  /\ Stopping(t)
  /\ Poisoned(t)
  /\ PmReady
  /\ Clear({"READ", "WWAN_IN_USE"})
  /\ Goto(t, "left")
  /\ UNCHANGED <<lock, usb, work, life, wr, rsp, buf, dev, power>>

\* 909: and the port, or its removal, goes on.
WwanUnpoison(t) ==
  /\ At(t, "left")
  /\ UnpoisonUrbs
  /\ Release({"ops"})
  /\ IF t = "wwan"
       THEN Goto("wwan", "stopped") /\ UNCHANGED coreOp
       ELSE /\ pc' = [pc EXCEPT !["core"] = "c_flag", !["wwan"] = "removed"]
            /\ coreOp' = "disconnect"
  /\ UNCHANGED <<flags, urb, work, life, wr, rsp, buf, dev, pm, pmUse, opsLeft>>

WwanCall == WwanStart \/ WwanTx \/ WwanStop

WwanStep ==
  \/ WwanClaim \/ WwanListen \/ WwanTxOff
  \/ PoisonUrbs("wwan") \/ WwanLeave("wwan") \/ WwanUnpoison("wwan")
=============================================================================
