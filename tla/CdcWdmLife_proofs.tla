-------------------------- MODULE CdcWdmLife_proofs --------------------------
(***************************************************************************)
(* Proof that the driver implements WdmLifetime, for any number of           *)
(* processes and with or without a WWAN port: a device is opened only while  *)
(* it is bound, and freed once, by the last to leave.                        *)
(*                                                                         *)
(* open, release and disconnect decide by count and DISCONNECTING, so the    *)
(* invariant LInv says what these tell: count is the number of handles, and  *)
(* DISCONNECTING is set from the core's c_flag on (Unlisted), a stretch that *)
(* wdm_mutex keeps open and release out of (WdmOwned).                       *)
(*                                                                         *)
(* Proof that a suspended device and a disconnected one are quiet: no URB  *)
(* is out, no handler runs, no work item waits to send one.                *)
(*                                                                         *)
(* poison_urbs bars and waits for one URB after the other, and up to three *)
(* threads may be in it at once: the core, the port and the last to close. *)
(* PoisonKnown counts them.  A URB that is barred and quiet stays so       *)
(* whatever the handlers and work items still do (Traffic), which carries  *)
(* quiet from poison_urbs (DrainedQuiet) over cancel_work_sync (WorkDone)  *)
(* into the sleep (Power) and past the disconnect.                         *)
(*                                                                         *)
(* The second invariant, MInv, says who may use the device at all: the     *)
(* port and the descriptors exclude each other (PortMode), the interrupt   *)
(* URB goes round exactly when one of them counts on it (CloseMode,        *)
(* Polled), and it is never stopped under open files by the driver        *)
(* itself (Heard).  The third, LocksHeld, ties each mutex to the steps of  *)
(* the thread that holds it: who could still touch a device cleanup freed. *)
(***************************************************************************)
EXTENDS CdcWdm_proofs, FiniteSetTheorems

Handles == {p \in Procs : Counted(p)}

Opening == {"open_pm", "open_count"}

\* Where a process holds wdm_mutex.
HoldsWdm == Opening \cup {"rel_count", "p1", "p2", "p3", "p4", "rel_power"}

\* Where a process is on its way in or out.
Passing == HoldsWdm \cup {"closed", "open_lock"}

\* The core is in wdm_disconnect, with wdm_mutex.
Unbinding ==
  \/ pc["core"] \in {"c_deinit", "c_end"} \/ coreOp = "deinit"
  \/ coreOp = "disconnect" /\ pc["core"] # "c_mutex"

WdmOwned ==
  /\ \A p \in Procs : pc[p] \in HoldsWdm => lock["wdm"] = p
  /\ Unbinding => lock["wdm"] = "core"

\* DISCONNECTING has been set.
Parting ==
  \/ pc["core"] = "gone"
  \/ coreOp = "disconnect" /\ pc["core"] \notin {"c_mutex", "c_deinit", "c_flag"}

Unlisted ==
  /\ listed <=> pc["core"] # "gone"
  /\ "DISCONNECTING" \in flags <=> Parting

LivesOn ==
  /\ count = Cardinality(Handles)
  /\ alive <=> listed \/ Handles # {}
  /\ \A p \in Procs : pc[p] \in Opening => listed

LInv == WdmOwned /\ Unlisted /\ LivesOn

\* What every step is shown to do.
LStep == LInv' /\ [Lifetime!Next]_(Lifetime!vars)

\* No process comes in or goes out.
ProcsAside == \A p \in Procs : pc'[p] = pc[p] \/ {pc[p], pc'[p]} \cap Passing = {}

\* A step that leaves alone whatever the life of the device depends on.
LifeAside ==
  /\ ProcsAside
  /\ UNCHANGED <<life, coreOp>>
  /\ pc'["core"] = pc["core"] /\ lock'["wdm"] = lock["wdm"]
  /\ "DISCONNECTING" \in flags' <=> "DISCONNECTING" \in flags

-----------------------------------------------------------------------------
\* The handles can be counted.
LEMMA HandlesFinite == IsFiniteSet(Handles) /\ Cardinality(Handles) \in Nat
<1>1. Handles \subseteq Procs
  BY DEF Handles
<1> QED  BY <1>1, ConstantsAssumption, FS_Subset, FS_CardinalityType

\* Nobody comes or goes: the handles are the same, and the abstract device stutters.
LEMMA ProcsAsideKeeps ==
  ASSUME LInv, ProcsAside, UNCHANGED life, WdmOwned', Unlisted'
  PROVE  LStep
<1>1. \A p \in Procs : Counted(p)' <=> Counted(p)
  BY DEF ProcsAside, Passing, HoldsWdm, Opening, Counted, Inside
<1>2. Handles' = Handles
  BY <1>1 DEF Handles
<1>3. LivesOn'
  BY <1>2 DEF LInv, LivesOn, ProcsAside, Passing, HoldsWdm, Opening, life
<1>4. UNCHANGED Lifetime!vars
  BY <1>2 DEF Lifetime!vars, Handles, life
<1> QED  BY <1>3, <1>4 DEF LStep, LInv

\* A step that leaves all of this alone is a stutter of the abstract device.
LEMMA LifeAsideKeeps ==
  ASSUME LInv, LifeAside
  PROVE  LStep
<1>1. WdmOwned'
  BY DEF LInv, LifeAside, ProcsAside, WdmOwned, Unbinding, Passing
<1>2. Unlisted'
  BY DEF LInv, LifeAside, Unlisted, Parting, life
<1> QED  BY <1>1, <1>2, ProcsAsideKeeps DEF LifeAside

-----------------------------------------------------------------------------
\* Writers are aside.
LEMMA WriteLifeAside ==
  ASSUME IInv, NEW p \in Procs, WriteStep(p) \/ WriteCall(p)
  PROVE  LifeAside
<1> USE ThreadsDiffer
    DEF IInv, TypeOK, PcTypeOK, LocksTypeOK, Locks, LifeAside, ProcsAside, Passing, HoldsWdm, Opening,
        At, Goto, Free, Acquire, Release, Set, Clear, locking, usb, life, wr, rsp, buf,
        dev, power
<1>1. CASE WriteStart(p)
  BY <1>1 DEF WriteStart
<1>2. CASE WriteLock(p)
  BY <1>2 DEF WriteLock
<1>3. CASE WritePm(p)
  BY <1>3 DEF WritePm, PmReady
<1>4. CASE WriteGiveUp(p)
  BY <1>4 DEF WriteGiveUp, WriteReturn
<1>5. CASE Fsync(p) \/ Flush(p)
  BY <1>5 DEF Fsync, Flush
<1>6. CASE WriteWait(p)
  BY <1>6 DEF WriteWait
<1>7. CASE WriteCheck(p)
  BY <1>7 DEF WriteCheck, WriteReturn
<1>8. CASE WriteFill(p)
  BY <1>8 DEF WriteFill
<1>9. CASE WriteSubmit(p)
  BY <1>9 DEF WriteSubmit, WriteReturn
<1>10. ASSUME NEW k \in {"fsync", "flush"}, AwaitCommand(p, k)
       PROVE  LifeAside
  BY <1>10 DEF AwaitCommand, WerrAt, WaitReturn, WaitAt
<1>11. ASSUME NEW k \in {"fsync", "flush"}, AwaitStatus(p, k)
       PROVE  LifeAside
  BY <1>11 DEF AwaitStatus, WerrAt, WaitReturn
<1>12. ASSUME NEW k \in {"fsync", "flush"}, AwaitGiveUp(p, k)
       PROVE  LifeAside
  BY <1>12 DEF AwaitGiveUp, WaitReturn, WaitAt
<1> HIDE DEF LifeAside, ProcsAside
<1> QED
  BY <1>1, <1>2, <1>3, <1>4, <1>5, <1>6, <1>7, <1>8, <1>9, <1>10, <1>11, <1>12
     DEF WriteStep, WriteCall

\* Readers are aside.
LEMMA ReadLifeAside ==
  ASSUME IInv, NEW p \in Procs, ReadStep(p) \/ ReadCall(p)
  PROVE  LifeAside
<1> USE ThreadsDiffer
    DEF IInv, TypeOK, PcTypeOK, LocksTypeOK, Locks, LifeAside, ProcsAside, Passing, HoldsWdm, Opening,
        At, Goto, Free, Acquire, Release, Set, Clear, locking, usb, life, wr, rsp, buf,
        dev, power
<1>1. CASE ReadLock(p)
  BY <1>1 DEF ReadLock
<1>2. CASE ReadGiveUp(p)
  BY <1>2 DEF ReadGiveUp, ReadReturn
<1>3. CASE ReadRetry(p)
  BY <1>3 DEF ReadRetry, ReadReturn
<1>4. CASE ReadWait(p)
  BY <1>4 DEF ReadWait
<1>5. CASE ReadCheck(p)
  BY <1>5 DEF ReadCheck, ReadReturn
<1>6. CASE ReadLockIuspin(p)
  BY <1>6 DEF ReadLockIuspin, ReadReturn
<1>7. CASE ReadEmpty(p)
  BY <1>7 DEF ReadEmpty, Owed, Refused, Settled, TakeOwed
<1>8. CASE ReadEmptyRelock(p)
  BY <1>8 DEF ReadEmptyRelock
<1>9. CASE ReadCopy(p)
  BY <1>9 DEF ReadCopy
<1>10. CASE ReadTrim(p)
  BY <1>10 DEF ReadTrim, TakeOwed, Owed, Refused, Settled, ReadReturn
<1>11. CASE ReadDrained(p)
  BY <1>11 DEF ReadDrained, ReadReturn
<1>12. CASE \/ SubmitOwed(p, "z_submit", "z_ok", "z_fail")
            \/ SubmitOwed(p, "d_submit", "d_ok", "d_fail")
  BY <1>12 DEF SubmitOwed
<1> HIDE DEF LifeAside, ProcsAside
<1> QED
  BY <1>1, <1>2, <1>3, <1>4, <1>5, <1>6, <1>7, <1>8, <1>9, <1>10, <1>11, <1>12
     DEF ReadStep, ReadCall

\* Completion handlers and work items are aside.
LEMMA CallbackLifeAside ==
  ASSUME IInv, OutCallback \/ WwanTxComplete \/ InCallback \/ IntCallback \/ WorkStep
  PROVE  LifeAside
<1> USE ThreadsDiffer
    DEF IInv, TypeOK, PcTypeOK, LocksTypeOK, Locks, LifeAside, ProcsAside, Passing, HoldsWdm, Opening,
        At, Goto, Free, Acquire, Release, Set, Clear, locking, usb, life, wr, rsp, buf,
        dev, power
<1>1. CASE OutCallback
  BY <1>1 DEF OutCallback, OutStatus, OutFree, OutWake
<1>2. CASE WwanTxComplete
  BY <1>2 DEF WwanTxComplete
<1>3. CASE InCallback
  BY <1>3 DEF InCallback, InForwarded, InTaken, InOutcomes, InAnswered, Overflows, InSignal,
         InData, Bytes, InUnlinked, Complete
<1>4. CASE IntCallback
  BY <1>4 DEF IntCallback, IntComplete, IntExit, IntFault, IntUnlinked, IntNotified, IntRespond
<1>5. CASE RxStep
  BY <1>5 DEF RxStep, RxStart, RxSubmit, RxFail
<1>6. CASE SvcStep
  BY <1>6 DEF SvcStep, SvcStart, Owed, Refused, Settled, TakeOwed, SubmitOwed, SvcEnd
<1> HIDE DEF LifeAside, ProcsAside
<1> QED
  BY <1>1, <1>2, <1>3, <1>4, <1>5, <1>6 DEF WorkStep

\* So is the port.
LEMMA PortLifeAside ==
  ASSUME IInv, WwanCall \/ WwanStep
  PROVE  LifeAside
<1> USE ThreadsDiffer
    DEF IInv, TypeOK, PcTypeOK, LocksTypeOK, Locks, LifeAside, ProcsAside, Passing, HoldsWdm, Opening,
        At, Goto, Free, Acquire, Release, Set, Clear, locking, usb, life, wr, rsp, buf,
        dev, power
<1>1. CASE WwanCall
  BY <1>1 DEF WwanCall, WwanStart, WwanTx, WwanStop
<1>2. CASE WwanClaim \/ WwanListen \/ WwanTxOff
  BY <1>2 DEF WwanClaim, WwanListen, WwanTxOff, PmReady
<1>3. CASE PoisonUrbs("wwan") \/ WwanLeave("wwan")
  BY <1>3 DEF PoisonUrbs, PoisonUrb, WwanLeave, Poisoned
<1>4. CASE WwanUnpoison("wwan")
  BY <1>4 DEF WwanUnpoison, UnpoisonUrbs
<1> HIDE DEF LifeAside, ProcsAside
<1> QED
  BY <1>1, <1>2, <1>3, <1>4 DEF WwanStep

-----------------------------------------------------------------------------
\* The calls of open and release that neither count nor uncount a handle.
LEMMA FileKeepsHandles ==
  ASSUME IInv, LInv, NEW p \in Procs,
            OpenCall(p) \/ OpenLock(p) \/ OpenPm(p) \/ ReleaseLock(p)
         \/ PoisonUrbs(p) \/ ReleaseForget(p) \/ ReleaseUnpoison(p)
  PROVE  LStep
<1> USE ThreadsDiffer
    DEF IInv, TypeOK, PcTypeOK, LocksTypeOK, Locks, At, Goto, Free, Acquire, Release, Set,
        Clear, locking, usb, life, wr, rsp, buf, dev, power, HoldsWdm, Opening
<1>1. /\ UNCHANGED life
      /\ pc'["core"] = pc["core"] /\ coreOp' = coreOp
      /\ "DISCONNECTING" \in flags' <=> "DISCONNECTING" \in flags
      /\ \A q \in Procs : q # p => pc'[q] = pc[q]
  BY DEF OpenCall, OpenLock, OpenPm, ReleaseLock, PoisonUrbs, PoisonUrb, ReleaseForget,
         Poisoned, ReleaseUnpoison, UnpoisonUrbs
<1>2. /\ Counted(p)' <=> Counted(p)
      /\ pc'[p] \in Opening => listed
  BY DEF OpenCall, OpenLock, OpenPm, ReleaseLock, PoisonUrbs, PoisonUrb, ReleaseForget,
         Poisoned, ReleaseUnpoison, UnpoisonUrbs, Counted, Inside, LInv, LivesOn
<1>3. \/ pc'[p] \in HoldsWdm /\ lock'["wdm"] = p /\ (lock["wdm"] = p \/ lock["wdm"] = None)
      \/ pc'[p] \notin HoldsWdm /\ lock'["wdm"] = lock["wdm"]
      \/ pc'[p] \notin HoldsWdm /\ lock["wdm"] = p
  BY DEF OpenCall, OpenLock, OpenPm, ReleaseLock, PoisonUrbs, PoisonUrb, ReleaseForget,
         Poisoned, ReleaseUnpoison, UnpoisonUrbs, LInv, WdmOwned
<1>4. WdmOwned'
  BY <1>1, <1>3 DEF LInv, WdmOwned, Unbinding
<1>5. Unlisted'
  BY <1>1 DEF LInv, Unlisted, Parting
<1>6. Handles' = Handles
  BY <1>1, <1>2 DEF Handles, Counted, Inside
<1>7. LivesOn'
  BY <1>1, <1>2, <1>6 DEF LInv, LivesOn
<1>8. UNCHANGED Lifetime!vars
  BY <1>1, <1>6 DEF Lifetime!vars, Handles
<1> QED
  BY <1>4, <1>5, <1>7, <1>8 DEF LStep, LInv

\* wdm_open counts the handle if the interrupt URB, the first time, is accepted.
LEMMA OpenLifeStep ==
  ASSUME IInv, LInv, NEW p \in Procs, OpenCount(p)
  PROVE  LStep
<1> USE ThreadsDiffer
    DEF IInv, TypeOK, PcTypeOK, LocksTypeOK, Locks, At, Goto, Free, Release, OpenCount
<1>1. /\ UNCHANGED <<alive, listed, flags, coreOp>>
      /\ pc'["core"] = pc["core"]
      /\ \A q \in Procs : q # p => pc'[q] = pc[q]
      /\ pc[p] = "open_count" /\ lock'["wdm"] = None
      /\ \/ pc'[p] = "open" /\ count' = count + 1
         \/ pc'[p] = "closed" /\ count' = count
  OBVIOUS
<1>2. lock["wdm"] = p /\ listed /\ p \notin Handles
  BY <1>1 DEF LInv, WdmOwned, HoldsWdm, Opening, LivesOn, Handles, Counted
<1>3. WdmOwned'
  BY <1>1, <1>2 DEF LInv, WdmOwned, Unbinding, HoldsWdm, Opening
<1>4. Unlisted'
  BY <1>1 DEF LInv, Unlisted, Parting
<1>5. \A q \in Procs : q # p => (Counted(q)' <=> Counted(q))
  BY <1>1 DEF Counted, Inside
<1>6. CASE pc'[p] = "open" /\ count' = count + 1
  <2>1. Handles' = Handles \cup {p}
    BY <1>5, <1>6 DEF Handles, Counted, Inside
  <2>2. Cardinality(Handles') = Cardinality(Handles) + 1
    BY <1>2, <2>1, HandlesFinite, FS_AddElement
  <2>3. LivesOn'
    BY <1>1, <1>2, <1>6, <2>1, <2>2 DEF LInv, LivesOn, Opening
  <2>4. Lifetime!Open(p)
    BY <1>1, <1>2, <2>1 DEF Lifetime!Open, Handles
  <2> QED
    BY <1>3, <1>4, <2>3, <2>4 DEF LStep, LInv, Lifetime!Next
<1>7. CASE pc'[p] = "closed" /\ count' = count
  <2>1. Handles' = Handles
    BY <1>1, <1>5, <1>7 DEF Handles, Counted, Inside
  <2>2. LivesOn'
    BY <1>1, <1>7, <2>1 DEF LInv, LivesOn, Opening
  <2>3. UNCHANGED Lifetime!vars
    BY <1>1, <2>1 DEF Lifetime!vars, Handles
  <2> QED
    BY <1>3, <1>4, <2>2, <2>3 DEF LStep, LInv
<1> HIDE DEF IInv
<1> QED
  BY <1>1, <1>6, <1>7

\* wdm_release uncounts its handle; since it has wdm_mutex, DISCONNECTING tells
\* it whether the device has left the list.
LEMMA ReleaseLifeStep ==
  ASSUME IInv, LInv, NEW p \in Procs, ReleaseCount(p)
  PROVE  LStep
<1> USE ThreadsDiffer
    DEF IInv, TypeOK, PcTypeOK, LocksTypeOK, Locks, At, Goto, Free, Release, ReleaseCount
<1>1. /\ UNCHANGED <<listed, flags, coreOp>>
      /\ pc'["core"] = pc["core"]
      /\ \A q \in Procs : q # p => pc'[q] = pc[q]
      /\ pc[p] = "rel_count" /\ count' = count - 1
      /\ alive' = (alive /\ ~(count' = 0 /\ "DISCONNECTING" \in flags))
      /\ \/ pc'[p] = "p1" /\ lock' = lock
         \/ pc'[p] = "closed" /\ lock'["wdm"] = None
  BY DEF power
<1>2. lock["wdm"] = p /\ p \in Handles
  BY <1>1 DEF LInv, WdmOwned, HoldsWdm, Handles, Counted, Inside
<1>3. WdmOwned'
  BY <1>1, <1>2 DEF LInv, WdmOwned, Unbinding, HoldsWdm, Opening
<1>4. Unlisted'
  BY <1>1 DEF LInv, Unlisted, Parting
<1>5. Handles' = Handles \ {p}
  BY <1>1 DEF Handles, Counted, Inside
<1>6. Cardinality(Handles') = Cardinality(Handles) - 1 /\ IsFiniteSet(Handles')
  BY <1>2, <1>5, HandlesFinite, FS_RemoveElement
<1>7. count' = Cardinality(Handles') /\ (count' = 0 <=> Handles' = {})
  BY <1>1, <1>6, FS_EmptySet DEF LInv, LivesOn
<1>8. "DISCONNECTING" \in flags <=> ~listed
  BY <1>2 DEF LInv, WdmOwned, Unbinding, Unlisted, Parting
<1>9. alive' <=> listed \/ Handles' # {}
  BY <1>1, <1>2, <1>7, <1>8 DEF LInv, LivesOn
<1>10. LivesOn'
  BY <1>1, <1>7, <1>9 DEF LInv, LivesOn, Opening
<1>11. (~alive)' = (~listed /\ Handles' = {})
  BY <1>9
<1>12. Lifetime!Close(p)
  BY <1>1, <1>2, <1>5, <1>11 DEF Lifetime!Close, Handles
<1> QED
  BY <1>3, <1>4, <1>10, <1>12 DEF LStep, LInv, Lifetime!Next

-----------------------------------------------------------------------------
\* What every step of the core short of the end of disconnect leaves alone.
CoreAside ==
  /\ \A p \in Procs : pc'[p] = pc[p]
  /\ UNCHANGED life
  /\ WdmOwned' /\ Unlisted'

\* The core takes and keeps wdm_mutex, and sets DISCONNECTING, as LInv says.
LEMMA CoreStaysAside ==
  ASSUME IInv, LInv,
         \/ CoreStep /\ ~CoreEnd
         \/ \E op \in CoreOps : CoreBegin(op)
  PROVE  CoreAside
<1> USE ThreadsDiffer, ConstantTypes
    DEF IInv, TypeOK, PcTypeOK, CorePc, LocksTypeOK, Locks, CoreAgrees, CoreOpAt, LInv, WdmOwned,
        Unlisted, Unbinding, Parting, CoreAside, At, Goto, Free, Acquire, Release, Set, Clear,
        locking, usb, life, wr, rsp, buf, dev, power
<1>1. CASE CoreMutex
  BY <1>1 DEF CoreMutex
<1>2. CASE CoreDeinit
  BY <1>2 DEF CoreDeinit
<1>3. CASE CoreFlag
  BY <1>3 DEF CoreFlag
<1>4. CASE CoreRlock
  BY <1>4 DEF CoreRlock
<1>5. CASE CoreWlock
  BY <1>5 DEF CoreWlock
<1>6. CASE PoisonUrbs("core")
  BY <1>6 DEF PoisonUrbs, PoisonUrb
<1>7. CASE WwanLeave("core")
  BY <1>7 DEF WwanLeave, Stopping, Poisoned
<1>8. CASE WwanUnpoison("core")
  BY <1>8 DEF WwanUnpoison, UnpoisonUrbs
<1>9. CASE CoreCancel
  BY <1>9 DEF CoreCancel, CancelWork, Poisoned
<1>10. CASE CoreUnpoison
  BY <1>10 DEF CoreUnpoison, UnpoisonUrbs
<1>11. CASE CorePost
  BY <1>11 DEF CorePost, Recovered
<1>12. CASE CoreResume
  BY <1>12 DEF CoreResume
<1>13. CASE CoreRecount
  BY <1>13 DEF CoreRecount
<1>14. CASE CoreResubmit
  BY <1>14 DEF CoreResubmit
<1>15. ASSUME NEW op \in CoreOps, CoreBegin(op)
       PROVE  CoreAside
  BY <1>15 DEF CoreBegin, CoreFirst
<1> HIDE DEF IInv, LInv, CoreAside
<1> QED
  BY <1>1, <1>2, <1>3, <1>4, <1>5, <1>6, <1>7, <1>8, <1>9, <1>10, <1>11, <1>12, <1>13, <1>14, <1>15
     DEF CoreStep

\* wdm_disconnect takes the device off the list, and frees it with no handle left.
LEMMA EndLifeStep ==
  ASSUME IInv, LInv, CoreEnd
  PROVE  LStep
<1> USE ThreadsDiffer
    DEF IInv, TypeOK, PcTypeOK, LocksTypeOK, Locks, CoreAgrees, CoreOpAt, At, Goto, Release,
        CoreEnd
<1>1. /\ \A p \in Procs : pc'[p] = pc[p]
      /\ pc["core"] = "c_end" /\ pc'["core"] = "gone" /\ coreOp = "disconnect"
      /\ coreOp' = "none" /\ lock'["wdm"] = None /\ flags' = flags
      /\ listed' = FALSE /\ count' = count /\ alive' = (alive /\ count > 0)
  OBVIOUS
<1>2. lock["wdm"] = "core" /\ listed /\ \A p \in Procs : pc[p] \notin HoldsWdm
  BY <1>1 DEF LInv, WdmOwned, Unbinding, Unlisted
<1>3. WdmOwned'
  BY <1>1, <1>2 DEF WdmOwned, Unbinding
<1>4. Unlisted'
  BY <1>1 DEF LInv, Unlisted, Parting
<1>5. Handles' = Handles
  BY <1>1 DEF Handles, Counted, Inside
<1>6. count > 0 <=> Handles # {}
  BY HandlesFinite, FS_EmptySet DEF LInv, LivesOn
<1>7. LivesOn'
  BY <1>1, <1>2, <1>5, <1>6 DEF LInv, LivesOn, HoldsWdm
<1>8. (~alive)' = (Handles = {})
  BY <1>1, <1>2, <1>6 DEF LInv, LivesOn
<1>9. Lifetime!Unbind
  BY <1>1, <1>2, <1>5, <1>8 DEF Lifetime!Unbind, Handles
<1> QED
  BY <1>3, <1>4, <1>7, <1>9 DEF LStep, LInv, Lifetime!Next

-----------------------------------------------------------------------------
\* The device that wdm_create registered is bound and has no handle.
LEMMA LifeInit == Init => LInv /\ Lifetime!Init
<1> SUFFICES ASSUME Init
             PROVE  LInv /\ Lifetime!Init
  OBVIOUS
<1> USE ThreadsDiffer DEF Init
<1>1. Handles = {}
  BY DEF Handles, Counted, Inside
<1>2. WdmOwned /\ Unlisted
  BY DEF WdmOwned, HoldsWdm, Opening, Unbinding, Unlisted, Parting
<1>3. LivesOn
  BY <1>1, FS_EmptySet DEF LivesOn, Opening
<1> QED
  BY <1>1, <1>2, <1>3 DEF LInv, Lifetime!Init, Handles

\* Every step of the driver is one of the device's life, or none of it.
LEMMA LifeNext ==
  ASSUME IInv, LInv, [Next]_vars
  PROVE  LStep
<1>1. CASE UNCHANGED vars
  <2>1. LifeAside
    BY <1>1 DEF vars, locking, life, power, LifeAside, ProcsAside
  <2> QED
    BY <2>1, LifeAsideKeeps
<1>2. ASSUME NEW p \in Procs, ProcStep(p) \/ ProcCall(p)
      PROVE  LStep
  <2>1. CASE WriteStep(p) \/ WriteCall(p)
    BY <2>1, WriteLifeAside, LifeAsideKeeps
  <2>2. CASE ReadStep(p) \/ ReadCall(p)
    BY <2>2, ReadLifeAside, LifeAsideKeeps
  <2>3. CASE FileStep(p) \/ OpenCall(p)
    BY <2>3, FileKeepsHandles, OpenLifeStep, ReleaseLifeStep DEF FileStep
  <2> QED
    BY <1>2, <2>1, <2>2, <2>3 DEF ProcStep, ProcCall
<1>3. CASE OutCallback \/ WwanTxComplete \/ InCallback \/ IntCallback \/ WorkStep
  BY <1>3, CallbackLifeAside, LifeAsideKeeps
<1>4. CASE WwanCall \/ WwanStep
  BY <1>4, PortLifeAside, LifeAsideKeeps
<1>5. CASE CoreStep \/ \E op \in CoreOps : CoreBegin(op)
  <2>1. CASE CoreEnd
    BY <2>1, EndLifeStep
  <2>2. CASE ~CoreEnd
    <3>1. CoreAside
      BY <1>5, <2>2, CoreStaysAside
    <3>2. ProcsAside /\ UNCHANGED life /\ WdmOwned' /\ Unlisted'
      BY <3>1 DEF CoreAside, ProcsAside
    <3> QED
      BY <3>2, ProcsAsideKeeps
  <2> QED
    BY <2>1, <2>2
<1> QED
  BY <1>1, <1>2, <1>3, <1>4, <1>5 DEF Next

\* What is said of wdm_mutex, the list and the count holds in every reachable state.
LEMMA LifeInvariant == Spec => []LInv
<1>1. Init => LInv
  BY LifeInit
<1>2. IInv /\ LInv /\ [Next]_vars => LInv'
  BY LifeNext DEF LStep
<1> QED
  BY <1>1, <1>2, Invariant, PTL DEF Spec

\* The driver implements WdmLifetime: open, release and disconnect, in whatever
\* order, let a handle be made only of a bound device and free the device once,
\* with the last of its handles or at the unbinding (767, 792, 814, 828, 1288).
THEOREM LivesAsPromised == Spec => LifetimeSpec
<1>1. Init => LInv /\ Lifetime!Init
  BY LifeInit
<1>2. IInv /\ LInv /\ [Next]_vars => LInv' /\ [Lifetime!Next]_(Lifetime!vars)
  BY LifeNext DEF LStep
<1>3. Spec => []IInv
  BY Invariant
<1> QED
  BY <1>1, <1>2, <1>3, PTL DEF Spec, LifetimeSpec, Lifetime!Spec

-----------------------------------------------------------------------------
(* A suspended device and a disconnected one are quiet.                      *)

\* Where poison_urbs of any thread is over.
Stopped == {"rel_power", "left", "c_svc", "c_unpoison", "c_end", "gone"}

\* Where a thread keeps a URB poisoned, and where usb_poison_urb has returned too.
Barring == [command |-> Stopped \cup {"p2", "p3", "p4"},
            validity |-> Stopped \cup {"p3", "p4"},
            response |-> Stopped \cup {"p4"}]

Drained == [command |-> Stopped \cup {"p3", "p4"},
            validity |-> Stopped \cup {"p4"},
            response |-> Stopped]

Stoppers == Procs \cup {"core", "wwan"}

Bars(S, u) == IF \E t \in S : pc[t] \in Barring[u] THEN 1 ELSE 0

\* Every poisoning has its thread; of the processes, wdm_mutex admits one.
PoisonKnown ==
  \A u \in Urbs : poison[u] = Bars({"core"}, u) + Bars({"wwan"}, u) + Bars(Procs, u)

DrainedQuiet == \A u \in Urbs, t \in Stoppers : pc[t] \in Drained[u] => Quiet(u)

RxDone == pc["rx"] = "idle" /\ "rx" \notin work
SvcDone == pc["svc"] = "idle" /\ "svc" \notin work

WorkDone ==
  /\ pc["core"] \in {"c_svc", "c_unpoison", "c_end", "gone"} => RxDone
  /\ pc["core"] \in {"c_unpoison", "c_end", "gone"} => SvcDone

Power ==
  /\ pm = "suspended" => /\ pc["core"] = "idle" /\ RxDone /\ SvcDone
                         /\ \A u \in Urbs : Quiet(u)
  /\ pm = "resuming" <=> pc["core"] \in {"c_recover", "c_resubmit"}

\* The port's thread holds ops_lock; removing a started port takes its place.
Porting == {"start_lock", "start_submit", "tx_off", "p1", "p2", "p3", "p4", "left"}

OpsOwned ==
  /\ lock["ops"] = "wwan" <=> pc["wwan"] \in Porting
  /\ lock["ops"] = "core" <=> coreOp = "deinit"
  /\ lock["ops"] \in {"core", "wwan", None}
  /\ coreOp = "deinit" => pc["wwan"] = "started"

QInv == PoisonKnown /\ DrainedQuiet /\ WorkDone /\ Power /\ OpsOwned

\* No submission of u succeeds.
Shut(u) == poison[u] > 0 \/ pm = "suspended"

\* The interrupt URB polls, or its handler is about to send it again.
Polling == urb["validity"] \/ pc["int"] # "idle"

\* What the handlers and work items do in any step: what is shut and quiet stays
\* quiet, and a work item that is done and that nothing queues stays done.
Traffic ==
  /\ \A u \in Urbs : Quiet(u) /\ Shut(u) => Quiet(u)'
  /\ Quiet("validity") /\ RxDone => RxDone'
  /\ Quiet("response") /\ SvcDone => SvcDone'

\* The interrupt URB is sent again and again, unless it is shut, its submission
\* fails, or its handler finds the response URB poisoned (364-370).
Listens ==
  /\ Polling /\ ~Shut("validity") /\ pc["int"] # "EPERM" /\ SubmitFaults = {} => Polling'
  /\ pc'["int"] = "EPERM" => pc["int"] = "EPERM" \/ (urb["validity"] /\ poison["response"] > 0)

\* No thread leaves poison_urbs of u before u is quiet.
Moves ==
  \A u \in Urbs, t \in Stoppers :
    pc'[t] \in Drained[u] => pc[t] \in Drained[u] \/ (pc[t] \in Barring[u] /\ Quiet(u))

\* A step of a process that is inside a call, a handler or a work item leaves
\* alone what the device's owners do to it.
HostAside ==
  /\ UNCHANGED <<poison, pm>>
  /\ pc'["wwan"] = pc["wwan"] /\ lock'["ops"] = lock["ops"]
  /\ "WWAN_IN_USE" \in flags' <=> "WWAN_IN_USE" \in flags
  /\ Polling' => Polling
  /\ Traffic /\ Listens

-----------------------------------------------------------------------------
\* poison_urbs takes command first and response last.
LEMMA BarringNested ==
  \A u \in Urbs : Drained[u] \subseteq Barring[u] /\ Barring[u] \subseteq Barring["command"]
BY DEF Urbs, Barring, Drained

\* A group of threads bars a URB once, or not.
LEMMA BarsType == \A S \in {Procs, {"core"}, {"wwan"}}, u \in Urbs :
  Bars(S, u) \in {0, 1} /\ Bars(S, u)' \in {0, 1}
BY DEF Bars

\* Where a thread keeps a URB poisoned, the count says so.
LEMMA BarredShut ==
  ASSUME PoisonKnown, NEW u \in Urbs, NEW t \in Stoppers, pc[t] \in Barring[u]
  PROVE  poison[u] > 0
BY DEF PoisonKnown, Bars, Stoppers

\* usb_submit_urb of u makes no other URB active, and not u if it is shut.
LEMMA SubmitShut ==
  ASSUME HostTypeOK, NEW u \in Urbs, NEW rv \in SubmitResults(u), NEW v \in Urbs,
         ~urb[v], v = u => Shut(u)
  PROVE  ~Submitted(u, rv)[v]
BY DEF HostTypeOK, SubmitResults, Submitted, Shut

\* It leaves the other URBs as they are.
LEMMA OtherSubmitted ==
  ASSUME HostTypeOK, NEW u \in Urbs, NEW v \in Urbs, u # v, NEW rv
  PROVE  Submitted(u, rv)[v] = urb[v]
BY DEF HostTypeOK, Submitted

\* Who is quiet where it is drained stays so.
LEMMA DrainedStays ==
  ASSUME QInv, Traffic, Moves
  PROVE  DrainedQuiet'
<1> SUFFICES ASSUME NEW u \in Urbs, NEW t \in Stoppers, pc'[t] \in Drained[u]
             PROVE  Quiet(u)'
  BY DEF DrainedQuiet, Stoppers
<1>1. pc[t] \in Barring[u]
  BY DEF Moves, Drained, Barring, Urbs
<1>2. Quiet(u)
  BY DEF Moves, QInv, DrainedQuiet
<1>3. Shut(u)
  BY <1>1, BarredShut DEF QInv, Shut
<1> QED
  BY <1>2, <1>3 DEF Traffic

\* What is asleep stays quiet while it sleeps.
LEMMA SleepStays ==
  ASSUME QInv, Traffic, pm = "suspended"
  PROVE  RxDone' /\ SvcDone' /\ \A u \in Urbs : Quiet(u)'
BY DEF QInv, Power, Shut, Traffic, Urbs

\* The work items the core has cancelled stay so.
LEMMA WorkStays ==
  ASSUME QInv, Traffic
  PROVE  /\ pc["core"] \in {"c_svc", "c_unpoison", "c_end", "gone"} => RxDone'
         /\ pc["core"] \in {"c_unpoison", "c_end", "gone"} => SvcDone'
<1>1. pc["core"] \in Stopped => Quiet("validity") /\ Quiet("response")
  BY DEF QInv, DrainedQuiet, Drained, Urbs, Stoppers
<1> QED
  BY <1>1 DEF QInv, WorkDone, Traffic, Stopped

-----------------------------------------------------------------------------
\* Writers do nothing to the device but send the command.
LEMMA WriteHostAside ==
  ASSUME IInv, NEW p \in Procs, WriteStep(p) \/ WriteCall(p)
  PROVE  HostAside
<1> USE ThreadsDiffer, SubmitShut, OtherSubmitted, SubmittedType
    DEF IInv, TypeOK, PcTypeOK, LocksTypeOK, HostTypeOK, Locks, Urbs, HostAside, Traffic, Listens, Quiet,
        RxDone, SvcDone, Polling, At, Goto, Free, Acquire, Release, Set, Clear, locking, usb, life, wr,
        rsp, buf, dev, power
<1>1. CASE WriteStart(p)
  BY <1>1 DEF WriteStart
<1>2. CASE WriteLock(p)
  BY <1>2 DEF WriteLock
<1>3. CASE WritePm(p)
  BY <1>3 DEF WritePm, PmReady
<1>4. CASE WriteGiveUp(p)
  BY <1>4 DEF WriteGiveUp, WriteReturn
<1>5. CASE Fsync(p) \/ Flush(p)
  BY <1>5 DEF Fsync, Flush
<1>6. CASE WriteWait(p)
  BY <1>6 DEF WriteWait
<1>7. CASE WriteCheck(p)
  BY <1>7 DEF WriteCheck, WriteReturn
<1>8. CASE WriteFill(p)
  BY <1>8 DEF WriteFill
<1>9. CASE WriteSubmit(p)
  BY <1>9 DEF WriteSubmit, WriteReturn
<1>10. ASSUME NEW k \in {"fsync", "flush"}, AwaitCommand(p, k)
       PROVE  HostAside
  BY <1>10 DEF AwaitCommand, WerrAt, WaitReturn, WaitAt
<1>11. ASSUME NEW k \in {"fsync", "flush"}, AwaitStatus(p, k)
       PROVE  HostAside
  BY <1>11 DEF AwaitStatus, WerrAt, WaitReturn
<1>12. ASSUME NEW k \in {"fsync", "flush"}, AwaitGiveUp(p, k)
       PROVE  HostAside
  BY <1>12 DEF AwaitGiveUp, WaitReturn, WaitAt
<1> HIDE DEF HostAside
<1> QED
  BY <1>1, <1>2, <1>3, <1>4, <1>5, <1>6, <1>7, <1>8, <1>9, <1>10, <1>11, <1>12
     DEF WriteStep, WriteCall

\* Readers do nothing to it but ask for a response.
LEMMA ReadHostAside ==
  ASSUME IInv, NEW p \in Procs, ReadStep(p) \/ ReadCall(p)
  PROVE  HostAside
<1> USE ThreadsDiffer, SubmitShut, OtherSubmitted, SubmittedType
    DEF IInv, TypeOK, PcTypeOK, LocksTypeOK, HostTypeOK, Locks, Urbs, HostAside, Traffic, Listens, Quiet,
        RxDone, SvcDone, Polling, At, Goto, Free, Acquire, Release, Set, Clear, locking, usb, life, wr,
        rsp, buf, dev, power
<1>1. CASE ReadLock(p)
  BY <1>1 DEF ReadLock
<1>2. CASE ReadGiveUp(p)
  BY <1>2 DEF ReadGiveUp, ReadReturn
<1>3. CASE ReadRetry(p)
  BY <1>3 DEF ReadRetry, ReadReturn
<1>4. CASE ReadWait(p)
  BY <1>4 DEF ReadWait
<1>5. CASE ReadCheck(p)
  BY <1>5 DEF ReadCheck, ReadReturn
<1>6. CASE ReadLockIuspin(p)
  BY <1>6 DEF ReadLockIuspin, ReadReturn
<1>7. CASE ReadEmpty(p)
  BY <1>7 DEF ReadEmpty, Owed, Refused, Settled, TakeOwed
<1>8. CASE ReadEmptyRelock(p)
  BY <1>8 DEF ReadEmptyRelock
<1>9. CASE ReadCopy(p)
  BY <1>9 DEF ReadCopy
<1>10. CASE ReadTrim(p)
  BY <1>10 DEF ReadTrim, TakeOwed, Owed, Refused, Settled, ReadReturn
<1>11. CASE ReadDrained(p)
  BY <1>11 DEF ReadDrained, ReadReturn
<1>12. CASE \/ SubmitOwed(p, "z_submit", "z_ok", "z_fail")
            \/ SubmitOwed(p, "d_submit", "d_ok", "d_fail")
  BY <1>12 DEF SubmitOwed
<1> HIDE DEF HostAside
<1> QED
  BY <1>1, <1>2, <1>3, <1>4, <1>5, <1>6, <1>7, <1>8, <1>9, <1>10, <1>11, <1>12
     DEF ReadStep, ReadCall

\* Handlers and work items resubmit only what is not shut.
LEMMA CallbackHostAside ==
  ASSUME IInv, OutCallback \/ WwanTxComplete \/ InCallback \/ IntCallback \/ WorkStep
  PROVE  HostAside
<1> USE ThreadsDiffer, SubmitShut, OtherSubmitted, SubmittedType
    DEF IInv, TypeOK, PcTypeOK, LocksTypeOK, HostTypeOK, Locks, Urbs, HostAside, Traffic, Listens, Quiet,
        RxDone, SvcDone, Polling, At, Goto, Free, Acquire, Release, Set, Clear, locking, usb, life, wr,
        rsp, buf, dev, power
<1>1. CASE OutCallback
  BY <1>1 DEF OutCallback, OutStatus, OutFree, OutWake, Complete
<1>2. CASE WwanTxComplete
  BY <1>2 DEF WwanTxComplete, Complete
<1>3. CASE InCallback
  BY <1>3 DEF InCallback, InForwarded, InTaken, InOutcomes, InAnswered, Overflows, InSignal,
         InData, Bytes, InUnlinked, Complete
<1>4. CASE IntComplete
  <2>1. /\ UNCHANGED <<poison, pm>> /\ lock' = lock
        /\ \A x \in {"wwan", "rx", "svc", "out"} : pc'[x] = pc[x]
        /\ urb["validity"]
    BY <1>4 DEF IntComplete, IntFault, IntUnlinked, IntNotified, IntRespond
  <2>2. "WWAN_IN_USE" \in flags' <=> "WWAN_IN_USE" \in flags
    BY <1>4 DEF IntComplete, IntFault, IntUnlinked, IntNotified, IntRespond
  <2>3. "svc" \in work' <=> "svc" \in work
    BY <1>4 DEF IntComplete, IntFault, IntUnlinked, IntNotified, IntRespond
  <2>4. \/ urb' = [urb EXCEPT !["validity"] = FALSE]
        \/ \E rv \in SubmitResults("response") :
             urb' = [Submitted("response", rv) EXCEPT !["validity"] = FALSE]
    BY <1>4 DEF IntComplete, IntNotified, IntRespond, Complete
  <2>5. \A u \in Urbs : u # "validity" /\ ~urb[u] /\ Shut(u) => ~urb'[u]
    <3> SUFFICES ASSUME NEW u \in Urbs, u # "validity", ~urb[u], Shut(u)
                 PROVE  ~urb'[u]
      OBVIOUS
    <3> QED
      BY <2>4
  <2>6. CASE IntUnlinked \/ IntFault
    BY <1>4, <2>1, <2>2, <2>3, <2>5, <2>6 DEF IntComplete, IntFault, IntUnlinked, Shut
  <2>7. CASE IntNotified
    <3>1. \/ pc'["int"] = "int_exit"
          \/ \E rv \in SubmitResults("response") : rv # "ok" /\ pc'["int"] = rv
      BY <2>7 DEF IntNotified, IntRespond
    <3>2. pc'["int"] # "idle" /\ (pc'["int"] = "EPERM" => poison["response"] > 0)
      BY <3>1, ConstantTypes DEF SubmitResults
    <3> QED
      BY <2>1, <2>2, <2>3, <2>5, <3>2, <2>7 DEF IntNotified
  <2> QED
    BY <1>4, <2>6, <2>7 DEF IntComplete
<1>5. CASE IntExit
  <2>1. /\ pc["int"] # "idle" /\ pc'["int"] = "idle" /\ UNCHANGED <<poison, pm>>
        /\ \A x \in {"wwan", "rx", "svc", "out"} : pc'[x] = pc[x]
    BY <1>5 DEF IntExit
  <2>2. pc["int"] = "EPERM" \/ \E rv \in SubmitResults("validity") : urb' = Submitted("validity", rv)
    BY <1>5 DEF IntExit
  <2>3. Listens
    BY <2>1, <2>2 DEF SubmitResults, Submitted, Shut
  <2> HIDE DEF Listens
  <2> QED
    BY <1>5, <2>1, <2>3 DEF IntExit
<1>6. CASE RxStep
  BY <1>6 DEF RxStep, RxStart, RxSubmit, RxFail
<1>7. CASE SvcStep
  BY <1>7 DEF SvcStep, SvcStart, Owed, Refused, Settled, TakeOwed, SubmitOwed, SvcEnd
<1> HIDE DEF HostAside
<1> QED
  BY <1>1, <1>2, <1>3, <1>4, <1>5, <1>6, <1>7 DEF IntCallback, WorkStep

-----------------------------------------------------------------------------
\* A step of theirs keeps everything said of quiet.
LEMMA AsideQuiet ==
  ASSUME IInv, IInv', QInv, LifeAside, HostAside
  PROVE  QInv'
<1>1. \A u \in Urbs, p \in Procs : /\ pc'[p] \in Barring[u] <=> pc[p] \in Barring[u]
                                   /\ pc'[p] \in Drained[u] <=> pc[p] \in Drained[u]
  BY DEF IInv, TypeOK, PcTypeOK, ProcPc, LifeAside, ProcsAside, Passing, HoldsWdm, Barring,
         Drained, Stopped, Urbs
<1>2. /\ pc'["core"] = pc["core"] /\ pc'["wwan"] = pc["wwan"]
      /\ UNCHANGED <<poison, pm>> /\ Traffic
  BY DEF LifeAside, HostAside
<1>3. PoisonKnown'
  BY <1>1, <1>2 DEF QInv, PoisonKnown, Bars
<1>4. DrainedQuiet'
  BY <1>1, <1>2, DrainedStays DEF Moves, Stoppers
<1>5. WorkDone'
  BY <1>2, WorkStays DEF WorkDone
<1>6. Power'
  BY <1>2, SleepStays DEF QInv, Power
<1>7. OpsOwned'
  BY <1>2 DEF QInv, OpsOwned, LifeAside, HostAside
<1> QED
  BY <1>3, <1>4, <1>5, <1>6, <1>7 DEF QInv

\* A thread that neither poisons nor unpoisons leaves the count alone.
LEMMA PoisonStays ==
  ASSUME PoisonKnown, UNCHANGED poison,
         \A u \in Urbs, t \in Stoppers : pc'[t] \in Barring[u] <=> pc[t] \in Barring[u]
  PROVE  PoisonKnown'
BY DEF PoisonKnown, Bars, Stoppers

\* poison_urbs counts once for each thread that runs it.
LEMMA PoisonCounted ==
  ASSUME IInv, LInv, PoisonKnown, NEW t \in Stoppers, PoisonUrbs(t)
  PROVE  PoisonKnown'
<1> USE ThreadsDiffer DEF IInv, TypeOK, PcTypeOK, HostTypeOK, Urbs, At, Goto, Stoppers
<1>1. PICK u \in Urbs :
        /\ poison' = [poison EXCEPT ![u] = @ + 1]
        /\ pc[t] \notin Barring[u] /\ pc'[t] \in Barring[u]
        /\ pc[t] \in {"p1", "p2", "p3"}
        /\ \A v \in Urbs : v # u => (pc'[t] \in Barring[v] <=> pc[t] \in Barring[v])
        /\ \A x \in Stoppers : x # t => pc'[x] = pc[x]
  BY DEF PoisonUrbs, PoisonUrb, Barring, Stopped
<1>2. \A p, q \in Procs : pc[p] \in {"p1", "p2", "p3"} /\ p # q => pc[q] \notin Barring[u]
  BY DEF LInv, WdmOwned, HoldsWdm, Barring, Stopped, ProcPc
<1>3. \A v \in Urbs : v # u => poison'[v] = poison[v]
  BY <1>1
<1>4. poison'[u] = poison[u] + 1
  BY <1>1
<1>5. CASE t \in Procs
  <2>1. Bars(Procs, u) = 0 /\ Bars(Procs, u)' = 1
    BY <1>1, <1>2, <1>5 DEF Bars
  <2>2. \A v \in Urbs : v # u => Bars(Procs, v)' = Bars(Procs, v)
    BY <1>1, <1>5 DEF Bars
  <2>3. \A v \in Urbs : /\ Bars({"core"}, v)' = Bars({"core"}, v)
                        /\ Bars({"wwan"}, v)' = Bars({"wwan"}, v)
    BY <1>1, <1>5 DEF Bars
  <2> QED
    BY <1>3, <1>4, <2>1, <2>2, <2>3, BarsType DEF PoisonKnown
<1>6. CASE t \in {"core", "wwan"}
  BY <1>1, <1>3, <1>4, <1>6 DEF PoisonKnown, Bars
<1> QED
  BY <1>5, <1>6

\* unpoison_urbs gives back what its thread took from each URB.
LEMMA UnpoisonCounted ==
  ASSUME IInv, LInv, PoisonKnown, NEW t \in Stoppers, pc[t] \in Stopped, UnpoisonUrbs,
         \A u \in Urbs : pc'[t] \notin Barring[u],
         \A u \in Urbs, x \in Stoppers :
           x # t => (pc'[x] \in Barring[u] <=> pc[x] \in Barring[u])
  PROVE  PoisonKnown'
<1> USE ThreadsDiffer DEF IInv, TypeOK, PcTypeOK, HostTypeOK, Urbs, Stoppers
<1>1. \A u \in Urbs : poison'[u] = poison[u] - 1 /\ pc[t] \in Barring[u]
  BY DEF UnpoisonUrbs, Barring
<1>2. CASE t \in Procs
  <2>1. pc[t] \in HoldsWdm /\ lock["wdm"] = t
    BY <1>2 DEF ProcPc, Stopped, HoldsWdm, LInv, WdmOwned
  <2>2. \A q \in Procs, u \in Urbs : q # t => pc[q] \notin Barring[u]
    BY <2>1 DEF LInv, WdmOwned, HoldsWdm, Barring, Stopped, ProcPc
  <2>3. \A u \in Urbs : Bars(Procs, u) = 1 /\ Bars(Procs, u)' = 0
    BY <1>1, <1>2, <2>2 DEF Bars
  <2>4. \A u \in Urbs : /\ Bars({"core"}, u)' = Bars({"core"}, u)
                        /\ Bars({"wwan"}, u)' = Bars({"wwan"}, u)
    BY <1>2 DEF Bars
  <2> QED
    BY <1>1, <2>3, <2>4, BarsType DEF PoisonKnown
<1>3. CASE t \in {"core", "wwan"}
  <2>1. \A u \in Urbs : Bars(Procs, u)' = Bars(Procs, u)
    BY <1>3 DEF Bars
  <2>2. CASE t = "core"
    <3>1. \A u \in Urbs : /\ Bars({"core"}, u) = 1 /\ Bars({"core"}, u)' = 0
                          /\ Bars({"wwan"}, u)' = Bars({"wwan"}, u)
      BY <1>1, <2>2 DEF Bars
    <3> QED
      BY <1>1, <2>1, <3>1, BarsType DEF PoisonKnown
  <2>3. CASE t = "wwan"
    <3>1. \A u \in Urbs : /\ Bars({"wwan"}, u) = 1 /\ Bars({"wwan"}, u)' = 0
                          /\ Bars({"core"}, u)' = Bars({"core"}, u)
      BY <1>1, <2>3 DEF Bars
    <3> QED
      BY <1>1, <2>1, <3>1, BarsType DEF PoisonKnown
  <2> QED
    BY <1>3, <2>2, <2>3
<1> QED
  BY <1>2, <1>3

-----------------------------------------------------------------------------
\* What a step of open, release or the port shows.
OwnerStep ==
  /\ PoisonKnown' /\ OpsOwned' /\ Traffic /\ Moves
  /\ UNCHANGED pm /\ pc'["core"] = pc["core"]

\* It keeps everything said of quiet.
LEMMA OwnerQuiet ==
  ASSUME QInv, OwnerStep
  PROVE  QInv'
<1>1. DrainedQuiet'
  BY DrainedStays DEF OwnerStep
<1>2. WorkDone'
  BY WorkStays DEF OwnerStep, WorkDone
<1>3. Power'
  BY SleepStays DEF OwnerStep, QInv, Power
<1> QED
  BY <1>1, <1>2, <1>3 DEF OwnerStep, QInv

\* open and release.
LEMMA FileOwnerStep ==
  ASSUME IInv, LInv, QInv, NEW p \in Procs, FileStep(p) \/ OpenCall(p)
  PROVE  OwnerStep
<1> USE ThreadsDiffer, SubmitShut, SubmittedType
    DEF IInv, TypeOK, PcTypeOK, LocksTypeOK, HostTypeOK, Locks, Urbs, Traffic, Quiet, RxDone,
        SvcDone, At, Goto, Free, Acquire, Release, Set, Clear, locking, usb, life, wr, rsp,
        buf, dev, power
<1>1. /\ Traffic /\ UNCHANGED pm /\ pc'["core"] = pc["core"] /\ pc'["wwan"] = pc["wwan"]
      /\ \A q \in Procs : q # p => pc'[q] = pc[q]
      /\ lock'["ops"] = lock["ops"] /\ coreOp' = coreOp
  <2>1. CASE OpenCall(p) \/ OpenLock(p) \/ OpenPm(p)
    BY <2>1 DEF OpenCall, OpenLock, OpenPm
  <2>2. CASE OpenCount(p)
    BY <2>2 DEF OpenCount
  <2>3. CASE ReleaseLock(p) \/ ReleaseCount(p)
    BY <2>3 DEF ReleaseLock, ReleaseCount
  <2>4. CASE PoisonUrbs(p)
    BY <2>4 DEF PoisonUrbs, PoisonUrb
  <2>5. CASE ReleaseForget(p) \/ ReleaseUnpoison(p)
    BY <2>5 DEF ReleaseForget, ReleaseUnpoison, Poisoned, UnpoisonUrbs
  <2> HIDE DEF Traffic
  <2> QED
    BY <2>1, <2>2, <2>3, <2>4, <2>5 DEF FileStep
<1> HIDE DEF Traffic
<1>0. OpsOwned'
  BY <1>1 DEF QInv, OpsOwned
<1>2. CASE OpenCall(p) \/ OpenLock(p) \/ OpenPm(p) \/ OpenCount(p) \/ ReleaseLock(p) \/ ReleaseCount(p)
  <2>1. UNCHANGED poison
    BY <1>2 DEF OpenCall, OpenLock, OpenPm, OpenCount, ReleaseLock, ReleaseCount
  <2>2. {pc[p], pc'[p]} \subseteq {"closed", "open_lock", "open_pm", "open_count", "open", "rel_lock",
                                   "rel_count", "p1"}
    BY <1>2 DEF OpenCall, OpenLock, OpenPm, OpenCount, ReleaseLock, ReleaseCount
  <2>3. PoisonKnown' /\ Moves
    BY <1>0, <1>1, <2>1, <2>2, PoisonStays
       DEF QInv, Moves, Barring, Drained, Stopped, Stoppers
  <2> QED
    BY <1>0, <1>1, <2>3 DEF OwnerStep
<1>3. CASE PoisonUrbs(p)
  <2>1. Moves
    BY <1>1, <1>3 DEF PoisonUrbs, PoisonUrb, Moves, Barring, Drained, Stopped, Stoppers
  <2> QED
    BY <1>0, <1>1, <1>3, <2>1, PoisonCounted DEF OwnerStep, QInv, Stoppers
<1>4. CASE ReleaseForget(p)
  <2>1. Moves
    BY <1>1, <1>4 DEF ReleaseForget, Poisoned, Moves, Barring, Drained, Stopped, Stoppers
  <2>2. UNCHANGED poison /\ pc[p] = "p4" /\ pc'[p] = "rel_power"
    BY <1>4 DEF ReleaseForget, Poisoned
  <2>3. PoisonKnown'
    BY <1>0, <1>1, <2>2, PoisonStays DEF QInv, Barring, Stopped, Stoppers
  <2> QED
    BY <1>0, <1>1, <2>1, <2>3 DEF OwnerStep
<1>5. CASE ReleaseUnpoison(p)
  <2>1. pc[p] = "rel_power" /\ pc'[p] = "closed" /\ UnpoisonUrbs
    BY <1>5 DEF ReleaseUnpoison
  <2>2. Moves
    BY <1>0, <1>1, <2>1 DEF Moves, Barring, Drained, Stopped, Stoppers
  <2>3. PoisonKnown'
    BY <1>0, <1>1, <2>1, UnpoisonCounted DEF QInv, Barring, Stopped, Stoppers
  <2> QED
    BY <1>0, <1>1, <2>2, <2>3 DEF OwnerStep
<1> QED
  BY <1>2, <1>3, <1>4, <1>5 DEF FileStep

\* The port.
LEMMA PortOwnerStep ==
  ASSUME IInv, LInv, QInv, WwanCall \/ WwanStep
  PROVE  OwnerStep
<1> USE ThreadsDiffer, SubmitShut, SubmittedType
    DEF IInv, TypeOK, PcTypeOK, LocksTypeOK, HostTypeOK, Locks, Urbs, Traffic, Quiet, RxDone,
        SvcDone, At, Goto, Free, Acquire, Release, Set, Clear, locking, usb, life, wr, rsp,
        buf, dev, power
<1>1. /\ Traffic /\ UNCHANGED pm /\ \A t \in Threads : t # "wwan" => pc'[t] = pc[t]
  <2>1. CASE WwanCall
    BY <2>1 DEF WwanCall, WwanStart, WwanTx, WwanStop
  <2>2. CASE WwanClaim \/ WwanListen \/ WwanTxOff
    BY <2>2 DEF WwanClaim, WwanListen, WwanTxOff
  <2>3. CASE PoisonUrbs("wwan") \/ WwanLeave("wwan")
    BY <2>3 DEF PoisonUrbs, PoisonUrb, WwanLeave, Poisoned
  <2>4. CASE WwanUnpoison("wwan")
    BY <2>4 DEF WwanUnpoison, UnpoisonUrbs
  <2> HIDE DEF Traffic
  <2> QED
    BY <2>1, <2>2, <2>3, <2>4 DEF WwanStep
<1> HIDE DEF Traffic
<1>0. OpsOwned'
  <2> USE DEF QInv, OpsOwned, Porting
  <2>1. CASE WwanCall
    BY <2>1 DEF WwanCall, WwanStart, WwanTx, WwanStop
  <2>2. CASE WwanClaim \/ WwanListen \/ WwanTxOff
    BY <2>2 DEF WwanClaim, WwanListen, WwanTxOff
  <2>3. CASE PoisonUrbs("wwan") \/ WwanLeave("wwan") \/ WwanUnpoison("wwan")
    BY <2>3 DEF PoisonUrbs, PoisonUrb, WwanLeave, Poisoned, WwanUnpoison
  <2> HIDE DEF OpsOwned
  <2> QED
    BY <2>1, <2>2, <2>3 DEF WwanStep
<1>2. CASE WwanCall \/ WwanClaim \/ WwanListen \/ WwanTxOff
  <2>1. UNCHANGED poison
    BY <1>2 DEF WwanCall, WwanStart, WwanTx, WwanStop, WwanClaim, WwanListen, WwanTxOff
  <2>2. {pc["wwan"], pc'["wwan"]} \subseteq {"stopped", "start_lock", "start_submit", "started",
                                             "tx_off", "p1"}
    BY <1>2 DEF WwanCall, WwanStart, WwanTx, WwanStop, WwanClaim, WwanListen, WwanTxOff
  <2>3. PoisonKnown' /\ Moves
    BY <1>0, <1>1, <2>1, <2>2, PoisonStays
       DEF QInv, Moves, Barring, Drained, Stopped, Stoppers
  <2> QED
    BY <1>0, <1>1, <2>3 DEF OwnerStep
<1>3. CASE PoisonUrbs("wwan")
  <2>1. Moves
    BY <1>1, <1>3 DEF PoisonUrbs, PoisonUrb, Moves, Barring, Drained, Stopped, Stoppers
  <2> QED
    BY <1>0, <1>1, <1>3, <2>1, PoisonCounted DEF OwnerStep, QInv, Stoppers
<1>4. CASE WwanLeave("wwan")
  <2>1. Moves
    BY <1>1, <1>4 DEF WwanLeave, Poisoned, Moves, Barring, Drained, Stopped, Stoppers
  <2>2. UNCHANGED poison /\ pc["wwan"] = "p4" /\ pc'["wwan"] = "left"
    BY <1>4 DEF WwanLeave, Poisoned
  <2>3. PoisonKnown'
    BY <1>0, <1>1, <2>2, PoisonStays DEF QInv, Barring, Stopped, Stoppers
  <2> QED
    BY <1>0, <1>1, <2>1, <2>3 DEF OwnerStep
<1>5. CASE WwanUnpoison("wwan")
  <2>1. pc["wwan"] = "left" /\ pc'["wwan"] = "stopped" /\ UnpoisonUrbs
    BY <1>5 DEF WwanUnpoison
  <2>2. Moves
    BY <1>0, <1>1, <2>1 DEF Moves, Barring, Drained, Stopped, Stoppers
  <2>3. PoisonKnown'
    BY <1>0, <1>1, <2>1, UnpoisonCounted DEF QInv, Barring, Stopped, Stoppers
  <2> QED
    BY <1>0, <1>1, <2>2, <2>3 DEF OwnerStep
<1> QED
  BY <1>2, <1>3, <1>4, <1>5 DEF WwanStep

-----------------------------------------------------------------------------
\* Suspend, reset and disconnect before and after they cancel.
LEMMA CoreTraffic ==
  ASSUME IInv, CoreStep \/ \E op \in CoreOps : CoreBegin(op)
  PROVE  Traffic
<1> USE ThreadsDiffer, SubmitShut, SubmittedType
    DEF IInv, TypeOK, PcTypeOK, LocksTypeOK, HostTypeOK, Locks, Urbs, Traffic, Quiet, RxDone,
        SvcDone, At, Goto, Free, Acquire, Release, Set, Clear, locking, usb, life, wr, rsp,
        buf, dev, power
<1>1. CASE CoreMutex \/ CoreDeinit \/ CoreRlock \/ CoreWlock
  BY <1>1 DEF CoreMutex, CoreDeinit, CoreRlock, CoreWlock
<1>2. CASE CoreFlag
  BY <1>2 DEF CoreFlag
<1>3. CASE PoisonUrbs("core") \/ WwanLeave("core") \/ WwanUnpoison("core")
  BY <1>3 DEF PoisonUrbs, PoisonUrb, WwanLeave, WwanUnpoison, UnpoisonUrbs, Poisoned, Stopping
<1>4. CASE CoreCancel
  BY <1>4 DEF CoreCancel, CancelWork, Poisoned
<1>5. CASE CoreUnpoison
  BY <1>5 DEF CoreUnpoison, UnpoisonUrbs
<1>6. CASE CorePost
  BY <1>6 DEF CorePost, Recovered
<1>7. CASE CoreResume \/ CoreRecount \/ CoreEnd
  BY <1>7 DEF CoreResume, CoreRecount, CoreEnd
<1>8. CASE CoreResubmit
  BY <1>8 DEF CoreResubmit
<1>9. ASSUME NEW op \in CoreOps, CoreBegin(op)
      PROVE  Traffic
  BY <1>9 DEF CoreBegin
<1> HIDE DEF Traffic
<1> QED
  BY <1>1, <1>2, <1>3, <1>4, <1>5, <1>6, <1>7, <1>8, <1>9 DEF CoreStep

\* What else of a core step has to be shown.
CoreKeepsQuiet == PoisonKnown' /\ OpsOwned' /\ Moves /\ WorkDone' /\ Power'

\* A step of the core that stays clear of poison_urbs; it may remove the port.
CoreOutside ==
  /\ UNCHANGED poison
  /\ \A p \in Procs : pc'[p] = pc[p]
  /\ \/ pc'["wwan"] = pc["wwan"]
     \/ pc["wwan"] \notin Barring["command"] /\ pc'["wwan"] = "removed"
  /\ {pc["core"], pc'["core"]} \cap Barring["command"] = {}

\* The core's steps before it stops the URBs, and the resume after.
LEMMA CoreStartQuiet ==
  ASSUME IInv, LInv, QInv, Traffic,
         \/ CoreMutex \/ CoreDeinit \/ CoreFlag \/ CoreRlock \/ CoreWlock \/ CorePost
         \/ CoreResume \/ CoreRecount \/ CoreResubmit
         \/ \E op \in CoreOps : CoreBegin(op)
  PROVE  CoreKeepsQuiet
<1> USE ThreadsDiffer, ConstantTypes
    DEF IInv, TypeOK, PcTypeOK, LocksTypeOK, Locks, CoreAgrees, CoreOpAt, At, Goto, Acquire, usb,
        power
<1>1. CoreOutside /\ Power' /\ OpsOwned'
  <2> USE SleepStays DEF QInv, Power, OpsOwned, Porting, CoreOutside, Barring, Stopped
  <2>1. CASE CoreMutex \/ CoreRlock \/ CoreWlock
    BY <2>1 DEF CoreMutex, CoreRlock, CoreWlock
  <2>2. CASE CoreDeinit
    BY <2>2 DEF CoreDeinit, Free, PortPc
  <2>3. CASE CoreFlag
    BY <2>3 DEF CoreFlag
  <2>4. CASE CorePost
    BY <2>4 DEF CorePost, Release
  <2>5. CASE CoreResume \/ CoreRecount \/ CoreResubmit
    BY <2>5 DEF CoreResume, CoreRecount, CoreResubmit
  <2>6. ASSUME NEW op \in CoreOps, CoreBegin(op)
        PROVE  CoreOutside /\ Power' /\ OpsOwned'
    BY <2>6 DEF CoreBegin, CoreFirst
  <2> HIDE DEF CoreOutside, Power, OpsOwned
  <2> QED
    BY <2>1, <2>2, <2>3, <2>4, <2>5, <2>6
<1>2. \A t \in Stoppers : pc'[t] = pc[t] \/ (pc[t] \notin Barring["command"] /\ pc'[t] \notin Barring["command"])
  BY <1>1 DEF CoreOutside, Stoppers, Barring, Stopped
<1>3. \A u \in Urbs, t \in Stoppers : /\ pc'[t] \in Barring[u] <=> pc[t] \in Barring[u]
                                      /\ pc'[t] \in Drained[u] <=> pc[t] \in Drained[u]
  BY <1>2, BarringNested
<1>4. PoisonKnown'
  BY <1>1, <1>3, PoisonStays DEF QInv, CoreOutside
<1>5. Moves
  BY <1>3 DEF Moves
<1>6. WorkDone'
  BY <1>1 DEF CoreOutside, WorkDone, Barring, Stopped
<1> QED
  BY <1>1, <1>4, <1>5, <1>6 DEF CoreKeepsQuiet

\* poison_urbs, cancel_work_sync, and what comes after them.
LEMMA CoreStopQuiet ==
  ASSUME IInv, LInv, QInv, Traffic,
         \/ PoisonUrbs("core") \/ WwanLeave("core") \/ WwanUnpoison("core")
         \/ CoreCancel \/ CoreUnpoison \/ CoreEnd
  PROVE  CoreKeepsQuiet
<1> USE ThreadsDiffer
    DEF IInv, TypeOK, PcTypeOK, LocksTypeOK, Locks, CoreAgrees, CoreOpAt, At, Goto, Release,
        usb, power
<1>1. /\ \A p \in Procs : pc'[p] = pc[p]
      /\ \/ pc'["wwan"] = pc["wwan"]
         \/ WwanUnpoison("core") /\ pc["wwan"] = "started" /\ pc'["wwan"] = "removed"
      /\ OpsOwned'
  BY DEF PoisonUrbs, PoisonUrb, WwanLeave, Stopping, Poisoned, WwanUnpoison, CoreCancel,
         CancelWork, CoreUnpoison, CoreEnd, QInv, OpsOwned, Porting
<1>2. \A u \in Urbs, t \in Stoppers : t # "core" =>
        /\ pc'[t] \in Barring[u] <=> pc[t] \in Barring[u]
        /\ pc'[t] \in Drained[u] <=> pc[t] \in Drained[u]
  BY <1>1 DEF Stoppers, Barring, Drained, Stopped, Urbs
<1>3. CASE PoisonUrbs("core")
  <2>1. PoisonKnown'
    BY <1>3, PoisonCounted DEF QInv, Stoppers
  <2>2. Moves
    BY <1>2, <1>3 DEF PoisonUrbs, PoisonUrb, Moves, Barring, Drained, Stopped, Urbs
  <2>3. WorkDone' /\ Power'
    BY <1>3, SleepStays DEF PoisonUrbs, PoisonUrb, QInv, WorkDone, Power
  <2> QED
    BY <1>1, <2>1, <2>2, <2>3 DEF CoreKeepsQuiet
<1>4. CASE WwanLeave("core") \/ CoreCancel \/ CoreEnd
  <2>1. /\ UNCHANGED poison /\ pm' = pm
        /\ pc["core"] \in Stopped \/ (pc["core"] = "p4" /\ Quiet("response"))
        /\ pc'["core"] \in Stopped
    BY <1>4 DEF WwanLeave, Poisoned, CoreCancel, CancelWork, CoreEnd, Stopped
  <2>2. PoisonKnown'
    BY <1>2, <2>1, PoisonStays DEF QInv, Barring, Urbs
  <2>3. Moves
    BY <1>2, <2>1 DEF Moves, Barring, Drained, Urbs
  <2>4. Power'
    BY <2>1 DEF QInv, Power, Stopped
  <2>5. WorkDone'
    BY <1>4, WorkStays
       DEF WwanLeave, Poisoned, CoreCancel, CancelWork, CoreEnd, WorkDone, RxDone, SvcDone
  <2> QED
    BY <1>1, <2>2, <2>3, <2>4, <2>5 DEF CoreKeepsQuiet
<1>5. CASE WwanUnpoison("core") \/ CoreUnpoison
  <2>1. /\ pc["core"] \in {"left", "c_unpoison"} /\ UnpoisonUrbs
        /\ pc'["core"] \in {"c_flag", "c_post", "idle"}
    BY <1>5 DEF WwanUnpoison, CoreUnpoison
  <2>2. PoisonKnown'
    BY <1>2, <2>1, UnpoisonCounted DEF QInv, Stoppers, Barring, Stopped, Urbs
  <2>3. Moves
    BY <1>2, <2>1 DEF Moves, Drained, Stopped, Urbs
  <2>4. \A u \in Urbs : Quiet(u)'
    <3>1. \A u \in Urbs : Quiet(u) /\ Shut(u)
      BY <2>1, BarredShut DEF QInv, DrainedQuiet, Stoppers, Drained, Barring, Stopped, Shut, Urbs
    <3> QED
      BY <3>1 DEF Traffic
  <2>5. WorkDone' /\ Power'
    BY <1>5, <2>1, <2>4, WorkStays DEF WwanUnpoison, CoreUnpoison, QInv, WorkDone, Power
  <2> QED
    BY <1>1, <2>2, <2>3, <2>5 DEF CoreKeepsQuiet
<1> QED
  BY <1>3, <1>4, <1>5

-----------------------------------------------------------------------------
\* The registered device is poisoned by nobody and idle.
LEMMA InitQuiet == Init => QInv
<1> SUFFICES ASSUME Init PROVE QInv
  OBVIOUS
<1> USE ThreadsDiffer DEF Init
<1>1. /\ pc["core"] = "idle" /\ pc["wwan"] = "stopped" /\ pc["rx"] = "idle" /\ pc["svc"] = "idle"
      /\ \A p \in Procs : pc[p] = "closed"
  OBVIOUS
<1>2. PoisonKnown
  <2>1. \A u \in Urbs : /\ "idle" \notin Barring[u] /\ "stopped" \notin Barring[u]
                       /\ "closed" \notin Barring[u]
    BY DEF Barring, Stopped, Urbs
  <2>2. \A u \in Urbs : Bars({"core"}, u) = 0 /\ Bars({"wwan"}, u) = 0 /\ Bars(Procs, u) = 0
    BY <1>1, <2>1 DEF Bars
  <2> QED
    BY <2>2 DEF PoisonKnown
<1>3. DrainedQuiet
  BY <1>1 DEF DrainedQuiet, Drained, Stopped, Stoppers, Urbs
<1>4. WorkDone /\ Power /\ OpsOwned
  BY <1>1 DEF WorkDone, Power, OpsOwned, Porting, Locks
<1> QED
  BY <1>2, <1>3, <1>4 DEF QInv

\* Every step keeps what is said of quiet.
LEMMA NextQuiet ==
  ASSUME IInv, IInv', LInv, QInv, [Next]_vars
  PROVE  QInv'
<1>1. CASE UNCHANGED vars
  <2>1. LifeAside /\ HostAside
    BY <1>1 DEF vars, locking, usb, life, power, LifeAside, ProcsAside, HostAside, Traffic, Listens,
                Quiet, RxDone, SvcDone, Polling, At
  <2> QED
    BY <2>1, AsideQuiet
<1>2. ASSUME NEW p \in Procs, ProcStep(p) \/ ProcCall(p)
      PROVE  QInv'
  <2>1. CASE WriteStep(p) \/ WriteCall(p)
    BY <2>1, WriteLifeAside, WriteHostAside, AsideQuiet
  <2>2. CASE ReadStep(p) \/ ReadCall(p)
    BY <2>2, ReadLifeAside, ReadHostAside, AsideQuiet
  <2>3. CASE FileStep(p) \/ OpenCall(p)
    BY <2>3, FileOwnerStep, OwnerQuiet
  <2> QED
    BY <1>2, <2>1, <2>2, <2>3 DEF ProcStep, ProcCall
<1>3. CASE OutCallback \/ WwanTxComplete \/ InCallback \/ IntCallback \/ WorkStep
  BY <1>3, CallbackLifeAside, CallbackHostAside, AsideQuiet
<1>4. CASE WwanCall \/ WwanStep
  BY <1>4, PortOwnerStep, OwnerQuiet
<1>5. CASE CoreStep \/ \E op \in CoreOps : CoreBegin(op)
  <2>1. Traffic
    BY <1>5, CoreTraffic
  <2>2. CoreKeepsQuiet
    BY <1>5, <2>1, CoreStartQuiet, CoreStopQuiet DEF CoreStep
  <2>3. DrainedQuiet'
    BY <2>1, <2>2, DrainedStays DEF CoreKeepsQuiet
  <2> QED
    BY <2>2, <2>3 DEF CoreKeepsQuiet, QInv
<1> QED
  BY <1>1, <1>2, <1>3, <1>4, <1>5 DEF Next

\* It holds in every reachable state.
THEOREM QuietInvariant == Spec => []QInv
<1>1. Init => QInv
  BY InitQuiet
<1>2. IInv /\ IInv' /\ LInv /\ QInv /\ [Next]_vars => QInv'
  BY NextQuiet
<1> QED
  BY <1>1, <1>2, Invariant, LifeInvariant, PTL DEF Spec

\* After the disconnect every URB is poisoned and idle, no work item is queued
\* and no handler runs, whatever the open files and the port were doing
\* (1277-1279): with any number of processes, no resubmission by a handler or a
\* work item slips between poison_urbs and cancel_work_sync.
THEOREM StillGone == Spec => []StillAfterDisconnect
<1>1. IInv /\ QInv => StillAfterDisconnect
  <2> SUFFICES ASSUME IInv, QInv, pc["core"] = "gone"
               PROVE  /\ \A u \in Urbs : ~urb[u] /\ poison[u] > 0
                      /\ work = {}
                      /\ \A t \in {"rx", "svc", "int", "out"} : At(t, "idle")
    BY DEF StillAfterDisconnect, At
  <2>1. \A u \in Urbs : Quiet(u)
    BY DEF QInv, DrainedQuiet, Stoppers, Drained, Stopped, Urbs
  <2>2. \A u \in Urbs : poison[u] > 0
    BY BarredShut DEF QInv, Stoppers, Barring, Stopped, Urbs
  <2>3. RxDone /\ SvcDone
    BY DEF QInv, WorkDone
  <2>4. work = {}
    BY <2>3 DEF IInv, TypeOK, BitsTypeOK, Works, RxDone, SvcDone
  <2> QED
    BY <2>1, <2>2, <2>3, <2>4 DEF Quiet, Urbs, RxDone, SvcDone, At
<1> QED
  BY <1>1, Invariant, QuietInvariant, PTL

\* A suspended device has no URB out, and neither a handler nor a work item that
\* could send one, although suspend unpoisons the URBs before it sleeps
\* (1317-1323).
THEOREM SleepsQuietly == Spec => []AsleepQuiet
<1>1. QInv => AsleepQuiet
  BY DEF QInv, Power, AsleepQuiet, Quiet, Urbs, RxDone, SvcDone, At
<1> QED
  BY <1>1, QuietInvariant, PTL

-----------------------------------------------------------------------------
(* Who polls.  The open files and the port each have the interrupt URB to    *)
(* themselves (PortMode), and who lets go of it, or takes it away from those *)
(* who have it, sends or stops it (Polled, Heard).                           *)

Closing == {"p1", "p2", "p3", "p4", "rel_power"}

PortUses == "WWAN_IN_USE" \in flags \/ pc["wwan"] = "started"

\* A started port, or one whose start failed, keeps opens out; only its removal
\* by the core clears WWAN_IN_USE before the port is no longer started.
PortMode ==
  /\ pc["wwan"] \in {"start_submit", "tx_off", "p1", "p2", "p3", "p4"} => "WWAN_IN_USE" \in flags
  /\ pc["wwan"] = "started" => "WWAN_IN_USE" \in flags \/ pc["core"] = "left"
  /\ PortUses => count = 0 /\ \A p \in Procs : pc[p] \notin Opening \cup Closing

\* Only the last release stops the URBs; the port is not polling for open files.
CloseMode ==
  /\ (\E p \in Procs : pc[p] \in Closing) => count = 0
  /\ count > 0 => pc["wwan"] \in {"stopped", "start_lock", "removed"}

\* Once disconnect has removed the port nobody opens and nothing is started.
Removed ==
  /\ \/ pc["core"] = "gone"
     \/ coreOp = "disconnect" /\ pc["core"] \notin {"c_mutex", "c_deinit"}
     => pc["wwan"] = "removed" \/ (~HasWwan /\ pc["wwan"] = "stopped")
  /\ ~HasWwan => pc["wwan"] \in {"stopped", "removed"}
  /\ pc["core"] = "gone" => \A p \in Procs : pc[p] \notin Opening \cup Closing

\* The interrupt URB polls for no one only under the release that will stop it;
\* so does a resume that counted a file which is gone.
Polled ==
  /\ count = 0 /\ "WWAN_IN_USE" \notin flags /\ Polling =>
       \E p \in Procs : pc[p] \in {"p1", "p2", "p3"}
  /\ count = 0 /\ pc["core"] = "c_resubmit" => \E p \in Procs : pc[p] \in Closing

\* Where the core has the interrupt URB and will give it back.
Deaf == {"p3", "p4", "left", "c_svc", "c_unpoison", "c_post", "c_end", "gone"}

\* If submissions do not fail, open files are polled for.
Heard ==
  /\ SubmitFaults = {} /\ count > 0 /\ pm = "active" /\ pc["core"] \notin Deaf => Polling
  /\ pc["int"] # "EPERM"

MInv == PortMode /\ CloseMode /\ Removed /\ Polled /\ Heard

\* With files open and the core away, nothing bars the interrupt URB.
LEMMA OpenUnbarred ==
  ASSUME IInv, QInv, CloseMode, count > 0, pc["core"] \notin Barring["validity"]
  PROVE  poison["validity"] = 0
<1>1. \A p \in Procs : pc[p] \notin Barring["validity"]
  BY DEF CloseMode, Closing, Barring, Stopped, IInv, TypeOK, PcTypeOK, ProcPc
<1>2. pc["wwan"] \notin Barring["validity"]
  BY DEF CloseMode, Barring, Stopped
<1> QED
  BY <1>1, <1>2 DEF QInv, PoisonKnown, Bars, Urbs

\* Who has poisoned the response URB has stopped the polling before.
LEMMA ResponseLast ==
  ASSUME IInv, QInv, poison["response"] > 0
  PROVE  ~urb["validity"]
<1>1. \E t \in Stoppers : pc[t] \in Barring["response"]
  BY DEF QInv, PoisonKnown, Bars, Urbs, Stoppers
<1>2. Barring["response"] = Drained["validity"]
  BY DEF Barring, Drained
<1> QED
  BY <1>1, <1>2 DEF QInv, DrainedQuiet, Quiet, Urbs

\* Users, handlers and work items keep it.
LEMMA AsideMode ==
  ASSUME IInv, IInv', QInv, MInv, LifeAside, HostAside
  PROVE  MInv'
<1> USE DEF IInv, TypeOK, PcTypeOK, LifeAside, HostAside, ProcsAside, Passing, HoldsWdm, life
<1>1. \A p \in Procs : /\ pc'[p] \in Opening \cup Closing <=> pc[p] \in Opening \cup Closing
                       /\ pc'[p] \in Closing <=> pc[p] \in Closing
                       /\ pc'[p] \in {"p1", "p2", "p3"} <=> pc[p] \in {"p1", "p2", "p3"}
  BY DEF Closing, Opening
<1>2. PortMode'
  BY <1>1 DEF MInv, PortMode, PortUses
<1>3. CloseMode' /\ Removed'
  BY <1>1 DEF MInv, CloseMode, Removed
<1>4. Polled'
  BY <1>1 DEF MInv, Polled
<1>5. pc'["int"] # "EPERM"
  BY ResponseLast DEF MInv, Heard, Listens
<1>6. SubmitFaults = {} /\ count' > 0 /\ pm' = "active" /\ pc'["core"] \notin Deaf => Polling'
  <2> SUFFICES ASSUME SubmitFaults = {}, count > 0, pm = "active", pc["core"] \notin Deaf
               PROVE  Polling'
    OBVIOUS
  <2>1. ~Shut("validity")
    BY OpenUnbarred DEF Deaf, Barring, Stopped, MInv, Shut, CorePc
  <2> QED
    BY <2>1 DEF MInv, Heard, Listens
<1> QED
  BY <1>2, <1>3, <1>4, <1>5, <1>6 DEF MInv, Heard

\* wdm_mutex admits one process, and no core that unbinds.
LEMMA WdmAlone ==
  ASSUME LInv, NEW p \in Procs, pc[p] \in HoldsWdm
  PROVE  (\A q \in Procs : q # p => pc[q] \notin HoldsWdm) /\ ~Unbinding
BY ThreadsDiffer DEF LInv, WdmOwned

\* A count above zero has a handle, and the count is never below zero.
LEMMA CountHandles ==
  ASSUME LInv
  PROVE  count \in Nat /\ \A p \in Handles : count > 0
BY HandlesFinite, FS_EmptySet DEF LInv, LivesOn

\* What of the port and the core a step of open or release leaves alone.
FileApart(p) ==
  /\ \A q \in Procs : q # p => pc'[q] = pc[q]
  /\ pc'["core"] = pc["core"] /\ pc'["wwan"] = pc["wwan"] /\ pc'["int"] = pc["int"]
  /\ UNCHANGED <<pm, coreOp>>
  /\ "WWAN_IN_USE" \in flags' <=> "WWAN_IN_USE" \in flags

\* open and release leave the port and the core apart.
LEMMA FileStaysApart ==
  ASSUME IInv, NEW p \in Procs, FileStep(p) \/ OpenCall(p)
  PROVE  FileApart(p)
<1> USE ThreadsDiffer DEF IInv, TypeOK, PcTypeOK, FileApart, At, Goto, Clear, usb, life, power
<1>1. CASE OpenCall(p) \/ OpenLock(p) \/ OpenPm(p)
  BY <1>1 DEF OpenCall, OpenLock, OpenPm
<1>2. CASE OpenCount(p)
  BY <1>2 DEF OpenCount
<1>3. CASE ReleaseLock(p) \/ ReleaseCount(p)
  BY <1>3 DEF ReleaseLock, ReleaseCount
<1>4. CASE PoisonUrbs(p)
  BY <1>4 DEF PoisonUrbs, PoisonUrb
<1>5. CASE ReleaseForget(p) \/ ReleaseUnpoison(p)
  BY <1>5 DEF ReleaseForget, ReleaseUnpoison, Poisoned, UnpoisonUrbs
<1> HIDE DEF FileApart
<1> QED
  BY <1>1, <1>2, <1>3, <1>4, <1>5 DEF FileStep

\* wdm_open: in under wdm_mutex while the port is not in use, and counted only
\* with the interrupt URB polling.
LEMMA OpenMode ==
  ASSUME IInv, LInv, QInv, MInv, NEW p \in Procs,
         OpenCall(p) \/ OpenLock(p) \/ OpenPm(p) \/ OpenCount(p)
  PROVE  MInv'
<1>1. FileApart(p)
  BY FileStaysApart DEF FileStep
<1> USE <1>1, ThreadsDiffer
    DEF FileApart, IInv, TypeOK, PcTypeOK, LocksTypeOK, Locks, At, Goto, Free, Acquire, usb,
        life, Opening, Closing, Polling
<1>2. CASE OpenCall(p) \/ OpenPm(p)
  <2>1. /\ UNCHANGED <<urb, count, flags>>
        /\ pc'[p] \in Opening => pc[p] \in Opening
        /\ pc[p] \notin Closing /\ pc'[p] \notin Closing
    BY <1>2 DEF OpenCall, OpenPm
  <2> QED
    BY <2>1 DEF MInv, PortMode, PortUses, CloseMode, Removed, Polled, Heard
<1>3. CASE OpenLock(p)
  <2>1. UNCHANGED <<urb, count, flags>> /\ pc[p] \notin Closing /\ pc'[p] \notin Closing
    BY <1>3 DEF OpenLock
  <2>2. pc'[p] \in Opening => ~PortUses /\ pc["core"] # "gone"
    <3>1. pc'[p] \in Opening => "WWAN_IN_USE" \notin flags /\ listed
      BY <1>3 DEF OpenLock
    <3>2. pc["core"] # "left"
      BY <1>3, ThreadsDiffer DEF OpenLock, LInv, WdmOwned, Unbinding, CoreAgrees, CoreOpAt
    <3> QED
      BY <3>1, <3>2 DEF PortUses, MInv, PortMode, LInv, Unlisted
  <2> QED
    BY <2>1, <2>2 DEF MInv, PortMode, PortUses, CloseMode, Removed, Polled, Heard
<1>4. CASE OpenCount(p)
  <2>1. /\ \A q \in Procs : q # p => pc[q] \notin HoldsWdm
        /\ pc[p] = "open_count" /\ pc'[p] \notin Opening \cup Closing
        /\ flags' = flags
    BY <1>4, WdmAlone DEF OpenCount, HoldsWdm
  <2>2. \A q \in Procs : /\ pc'[q] \notin Opening \cup Closing
                         /\ pc[q] \notin Closing
    BY <2>1 DEF HoldsWdm
  <2>3. ~PortUses
    BY <2>1 DEF MInv, PortMode
  <2>4. PortMode' /\ Removed'
    BY <2>1, <2>2, <2>3 DEF MInv, PortMode, PortUses, Removed
  <2>5. CASE count > 0
    <3>1. count' > 0 /\ urb' = urb
      BY <1>4, <2>5, CountHandles DEF OpenCount
    <3> QED
      BY <2>2, <2>4, <2>5, <3>1 DEF MInv, CloseMode, Polled, Heard
  <2>6. CASE ~(count > 0)
    <3>1. count = 0
      BY <2>6, CountHandles
    <3>2. ~Polling /\ pc["core"] # "c_resubmit"
      BY <2>2, <2>3, <3>1 DEF MInv, Polled, PortUses
    <3>3. PICK rv \in SubmitResults("validity") :
            urb' = Submitted("validity", rv) /\ count' = IF rv = "ok" THEN 1 ELSE 0
      BY <1>4, <2>6 DEF OpenCount
    <3>4. CASE rv = "ok"
      <4>1. count' = 1 /\ urb'["validity"]
        BY <3>3, <3>4 DEF Submitted, HostTypeOK, Urbs
      <4>2. ~(poison["validity"] > 0)
        BY <3>4 DEF SubmitResults
      <4>3. pc["wwan"] \in {"stopped", "start_lock", "removed"}
        BY <2>3, <4>2, BarredShut
           DEF MInv, PortMode, PortUses, PortPc, QInv, Stoppers, Barring, Stopped, Urbs
      <4> QED
        BY <2>2, <2>4, <4>1, <4>3 DEF MInv, CloseMode, Polled, Heard
    <3>5. CASE rv # "ok"
      <4>1. count' = 0 /\ urb' = urb
        BY <3>3, <3>5 DEF Submitted
      <4> QED
        BY <2>2, <2>4, <3>2, <4>1 DEF MInv, CloseMode, Polled, Heard
    <3> QED
      BY <3>4, <3>5
  <2> QED
    BY <2>5, <2>6
<1> QED
  BY <1>2, <1>3, <1>4

\* wdm_release: the last handle takes the polling with it.
LEMMA ReleaseMode ==
  ASSUME IInv, LInv, QInv, MInv, NEW p \in Procs,
         \/ ReleaseLock(p) \/ ReleaseCount(p) \/ PoisonUrbs(p)
         \/ ReleaseForget(p) \/ ReleaseUnpoison(p)
  PROVE  MInv'
<1>1. FileApart(p)
  BY FileStaysApart DEF FileStep
<1> USE <1>1, ThreadsDiffer
    DEF FileApart, IInv, TypeOK, PcTypeOK, LocksTypeOK, Locks, At, Goto, Free, Acquire, usb,
        life, Opening, Closing, Polling
<1>2. CASE ReleaseLock(p)
  <2>1. /\ UNCHANGED <<urb, count, flags>>
        /\ pc[p] \notin Opening \cup Closing /\ pc'[p] \notin Opening \cup Closing
    BY <1>2 DEF ReleaseLock
  <2> QED
    BY <2>1 DEF MInv, PortMode, PortUses, CloseMode, Removed, Polled, Heard
<1>3. CASE ReleaseCount(p)
  <2>1. /\ \A q \in Procs : q # p => pc[q] \notin HoldsWdm
        /\ ~Unbinding
        /\ pc[p] = "rel_count" /\ pc'[p] \notin Opening
        /\ UNCHANGED <<flags, urb>>
    BY <1>3, WdmAlone DEF ReleaseCount, HoldsWdm
  <2>2. count > 0 /\ count \in Nat /\ count' = count - 1
    BY <1>3, <2>1, CountHandles DEF ReleaseCount, Handles, Counted, Inside
  <2>3. ~PortUses /\ pc["wwan"] \in {"stopped", "start_lock", "removed"}
    BY <2>2 DEF MInv, PortMode, CloseMode
  <2>4. \A q \in Procs : q # p => pc'[q] \notin Opening \cup Closing
    BY <2>1 DEF HoldsWdm
  <2>5. PortMode'
    BY <2>1, <2>3 DEF MInv, PortMode, PortUses
  <2>6. Heard'
    BY <2>1, <2>2 DEF MInv, Heard
  <2>7. CASE count' = 0 /\ "DISCONNECTING" \notin flags
    <3>1. pc'[p] = "p1" /\ pc["core"] # "gone"
      BY <1>3, <2>7 DEF ReleaseCount, LInv, Unlisted, Parting
    <3> QED
      BY <2>1, <2>4, <2>5, <2>6, <2>7, <3>1 DEF MInv, CloseMode, Removed, Polled
  <2>8. CASE ~(count' = 0 /\ "DISCONNECTING" \notin flags)
    <3>1. pc'[p] = "closed"
      BY <1>3, <2>8 DEF ReleaseCount
    <3>2. \A q \in Procs : pc'[q] \notin Opening \cup Closing
      BY <2>4, <3>1
    <3>3. CASE count' = 0
      <4>1. pc["core"] = "gone"
        BY <2>1, <2>8, <3>3 DEF LInv, Unlisted, Parting, Unbinding
      <4>2. ~Polling'
        BY <2>1, <4>1 DEF QInv, DrainedQuiet, Quiet, Stoppers, Drained, Stopped, Urbs
      <4> QED
        BY <2>3, <2>5, <2>6, <3>2, <3>3, <4>1, <4>2 DEF MInv, CloseMode, Removed, Polled
    <3>4. CASE count' > 0
      BY <2>3, <2>5, <2>6, <3>2, <3>4 DEF MInv, CloseMode, Removed, Polled
    <3> QED
      BY <2>2, <3>3, <3>4
  <2> QED
    BY <2>7, <2>8
<1>4. CASE PoisonUrbs(p)
  <2>1. /\ UNCHANGED <<urb, count, flags>>
        /\ pc[p] \in {"p1", "p2", "p3"} /\ pc'[p] \in Closing \ Opening
        /\ pc'[p] \in {"p1", "p2", "p3"} \/ ~Polling'
    BY <1>4 DEF PoisonUrbs, PoisonUrb, Quiet
  <2> HIDE DEF Polling
  <2>2. Polling' <=> Polling
    BY <2>1 DEF Polling
  <2> QED
    BY <2>1, <2>2 DEF MInv, PortMode, PortUses, CloseMode, Removed, Polled, Heard
<1>5. CASE ReleaseForget(p)
  <2>1. UNCHANGED <<urb, count>> /\ pc[p] = "p4" /\ pc'[p] = "rel_power"
    BY <1>5 DEF ReleaseForget, Poisoned
  <2> QED
    BY <2>1 DEF MInv, PortMode, PortUses, CloseMode, Removed, Polled, Heard
<1>6. CASE ReleaseUnpoison(p)
  <2>1. UNCHANGED <<urb, count, flags>> /\ pc[p] = "rel_power" /\ pc'[p] = "closed" /\ pm = "active"
    BY <1>6 DEF ReleaseUnpoison, PmReady
  <2>2. pc["core"] # "c_resubmit"
    BY <2>1 DEF QInv, Power
  <2> QED
    BY <2>1, <2>2 DEF MInv, PortMode, PortUses, CloseMode, Removed, Polled, Heard
<1> QED
  BY <1>2, <1>3, <1>4, <1>5, <1>6

\* The port: started only with WWAN_IN_USE set and no file open, and let go of
\* only when its polling has stopped.
LEMMA PortModeStep ==
  ASSUME IInv, LInv, QInv, MInv, WwanCall \/ WwanStep
  PROVE  MInv'
<1>1. /\ \A t \in Threads : t # "wwan" => pc'[t] = pc[t]
      /\ UNCHANGED <<pm, coreOp, count>>
      /\ \A p \in Procs : pc'[p] = pc[p]
      /\ pc'["core"] = pc["core"] /\ pc'["int"] = pc["int"]
  <2> USE ThreadsDiffer DEF IInv, TypeOK, PcTypeOK, At, Goto, Free, Acquire, locking, life, power
  <2>1. CASE WwanCall
    BY <2>1 DEF WwanCall, WwanStart, WwanTx, WwanStop
  <2>2. CASE WwanClaim \/ WwanListen \/ WwanTxOff
    BY <2>2 DEF WwanClaim, WwanListen, WwanTxOff
  <2>3. CASE PoisonUrbs("wwan") \/ WwanLeave("wwan") \/ WwanUnpoison("wwan")
    BY <2>3 DEF PoisonUrbs, PoisonUrb, WwanLeave, Poisoned, WwanUnpoison
  <2> QED
    BY <2>1, <2>2, <2>3 DEF WwanStep
<1> DEFINE at  == pc["wwan"]
           at1 == pc'["wwan"]
<1> USE <1>1, ThreadsDiffer
    DEF IInv, TypeOK, PcTypeOK, LocksTypeOK, HostTypeOK, Locks, Urbs, At, Goto, Free, Acquire,
        Release, Set, Clear, usb, life
\* the port has the interrupt URB for itself and keeps it
<1>2. ASSUME UNCHANGED flags, Polling' <=> Polling,
             at \in {"started", "tx_off", "p1", "p2", "p3"},
             at1 \in {"started", "tx_off", "p1", "p2", "p3", "p4"},
             "WWAN_IN_USE" \in flags
      PROVE  MInv'
  BY <1>2 DEF MInv, PortMode, PortUses, CloseMode, Removed, Polled, Heard
\* WWAN_IN_USE is set when the core is not removing the port
<1>3. ASSUME at = "started", Free("ops")
      PROVE  "WWAN_IN_USE" \in flags
  <2>1. coreOp # "deinit"
    BY <1>3 DEF QInv, OpsOwned
  <2> QED
    BY <1>3, <2>1 DEF MInv, PortMode, CoreAgrees, CoreOpAt
<1>4. CASE WwanStart
  <2>1. UNCHANGED <<flags, urb>> /\ at = "stopped" /\ at1 = "start_lock" /\ HasWwan
    BY <1>4 DEF WwanStart
  <2> QED
    BY <2>1 DEF MInv, PortMode, PortUses, CloseMode, Removed, Polled, Polling, Heard
<1>5. CASE WwanTx
  <2>1. Free("ops") /\ at = "started" /\ at1 \in {"started", "tx_off"} /\ flags' = flags
    BY <1>5 DEF WwanTx
  <2>2. urb'["validity"] = urb["validity"]
    BY <1>5, OtherSubmitted DEF WwanTx
  <2> QED
    BY <1>2, <1>3, <2>1, <2>2 DEF Polling
<1>6. CASE WwanStop
  <2>1. Free("ops") /\ at = "started" /\ at1 = "p1" /\ UNCHANGED <<flags, urb>>
    BY <1>6 DEF WwanStop
  <2> QED
    BY <1>2, <1>3, <2>1 DEF Polling
<1>7. CASE WwanClaim
  <2>1. at = "start_lock" /\ urb' = urb /\ lock["wdm"] = None
    BY <1>7 DEF WwanClaim
  <2>2. CASE count > 0
    <3>1. flags' = flags /\ at1 = "stopped"
      BY <1>7, <2>2 DEF WwanClaim
    <3> QED
      BY <2>1, <3>1 DEF MInv, PortMode, PortUses, CloseMode, Removed, Polled, Polling, Heard
  <2>3. CASE ~(count > 0)
    <3>1. flags' = flags \cup {"WWAN_IN_USE"} /\ at1 = "start_submit"
      BY <1>7, <2>3 DEF WwanClaim
    <3>2. count = 0
      BY <2>3, CountHandles
    <3>3. \A p \in Procs : pc[p] \notin Opening \cup Closing
      BY <2>1 DEF LInv, WdmOwned, HoldsWdm, Closing
    <3> QED
      BY <2>1, <3>1, <3>2, <3>3 DEF MInv, PortMode, PortUses, CloseMode, Removed, Polled, Heard
  <2> QED
    BY <2>2, <2>3
<1>8. CASE WwanListen
  <2>1. at = "start_submit" /\ at1 \in {"started", "stopped"} /\ flags' = flags
    BY <1>8 DEF WwanListen
  <2> QED
    BY <2>1 DEF MInv, PortMode, PortUses, CloseMode, Removed, Polled, Heard
<1>9. CASE WwanTxOff
  <2>1. at = "tx_off" /\ at1 = "started" /\ UNCHANGED <<flags, urb>>
    BY <1>9 DEF WwanTxOff
  <2> QED
    BY <1>2, <2>1 DEF MInv, PortMode, Polling
<1>10. CASE PoisonUrbs("wwan")
  <2>1. /\ at \in {"p1", "p2", "p3"} /\ at1 \in {"p2", "p3", "p4"} /\ UNCHANGED <<flags, urb>>
    BY <1>10 DEF PoisonUrbs, PoisonUrb
  <2> QED
    BY <1>2, <2>1 DEF MInv, PortMode, Polling
<1>11. CASE WwanLeave("wwan")
  <2>1. /\ at = "p4" /\ at1 = "left" /\ urb' = urb
        /\ flags' = flags \ {"READ", "WWAN_IN_USE"}
    BY <1>11 DEF WwanLeave, Poisoned
  <2>2. ~Polling'
    BY <2>1 DEF QInv, DrainedQuiet, Quiet, Stoppers, Drained, Stopped, Polling
  <2> QED
    BY <2>1, <2>2 DEF MInv, PortMode, PortUses, CloseMode, Removed, Polled, Heard
<1>12. CASE WwanUnpoison("wwan")
  <2>1. at = "left" /\ at1 = "stopped" /\ UNCHANGED <<flags, urb>>
    BY <1>12 DEF WwanUnpoison
  <2> QED
    BY <2>1 DEF MInv, PortMode, PortUses, CloseMode, Removed, Polled, Polling, Heard
<1> QED
  BY <1>4, <1>5, <1>6, <1>7, <1>8, <1>9, <1>10, <1>11, <1>12 DEF WwanCall, WwanStep

\* With files open and submissions that do not fail, recover_from_urb_loss gets
\* the interrupt URB going.
LEMMA Recovers ==
  ASSUME IInv, QInv, CloseMode, SubmitFaults = {}, count > 0, pm # "suspended",
         pc["core"] \notin Barring["validity"],
         NEW rv \in SubmitResults("validity"), urb' = Submitted("validity", rv)
  PROVE  urb'["validity"]
<1>1. ~(poison["validity"] > 0)
  BY OpenUnbarred
<1> QED
  BY <1>1 DEF SubmitResults, Submitted, IInv, TypeOK, HostTypeOK, Urbs

\* The core's steps that leave the interrupt URB, the count and WWAN_IN_USE alone.
LEMMA CoreApartMode ==
  ASSUME IInv, LInv, QInv, MInv,
         \/ CoreMutex \/ CoreDeinit \/ CoreFlag \/ CoreRlock \/ CoreWlock
         \/ PoisonUrbs("core") \/ WwanUnpoison("core") \/ CoreCancel \/ CoreUnpoison
         \/ CoreResume \/ CoreRecount \/ CoreEnd
         \/ \E op \in CoreOps : CoreBegin(op)
  PROVE  MInv'
<1> USE ThreadsDiffer, ConstantTypes
    DEF IInv, TypeOK, PcTypeOK, LocksTypeOK, Locks, CoreAgrees, CoreOpAt, At, Goto, Free, Acquire,
        Release, Set, Clear, usb, life, power
<1>1. /\ \A p \in Procs : pc'[p] = pc[p]
      /\ pc'["int"] = pc["int"]
      /\ UNCHANGED <<urb, count>>
      /\ "WWAN_IN_USE" \in flags' <=> "WWAN_IN_USE" \in flags
  BY DEF CoreMutex, CoreDeinit, CoreFlag, CoreRlock, CoreWlock, PoisonUrbs, PoisonUrb,
         WwanUnpoison, CoreCancel, CancelWork, Poisoned, CoreUnpoison, CoreResume, CoreRecount,
         CoreEnd, CoreBegin
<1>2. /\ pc["core"] # "left" \/ pc'["wwan"] = "removed"
      /\ pc'["wwan"] = pc["wwan"] \/ pc'["wwan"] = "removed"
  BY DEF CoreMutex, CoreDeinit, CoreFlag, CoreRlock, CoreWlock, PoisonUrbs, PoisonUrb,
         WwanUnpoison, CoreCancel, CancelWork, Poisoned, CoreUnpoison, CoreResume, CoreRecount,
         CoreEnd, CoreBegin
<1>3. PortMode' /\ CloseMode'
  BY <1>1, <1>2 DEF MInv, PortMode, PortUses, CloseMode
<1>4. Removed'
  <2>1. CASE CoreEnd
    <3>1. pc["core"] = "c_end" /\ coreOp = "disconnect" /\ pc'["wwan"] = pc["wwan"]
      BY <2>1 DEF CoreEnd
    <3>2. \A p \in Procs : pc[p] \notin Opening \cup Closing
      BY <3>1 DEF LInv, WdmOwned, Unbinding, HoldsWdm, Closing
    <3> QED
      BY <1>1, <3>1, <3>2 DEF MInv, Removed
  <2>2. CASE CoreMutex \/ CoreDeinit \/ CoreFlag \/ CoreRlock \/ CoreWlock
    BY <1>1, <2>2 DEF CoreMutex, CoreDeinit, CoreFlag, CoreRlock, CoreWlock, MInv, Removed
  <2>3. CASE PoisonUrbs("core") \/ WwanUnpoison("core") \/ CoreCancel \/ CoreUnpoison
    BY <1>1, <2>3
       DEF PoisonUrbs, PoisonUrb, WwanUnpoison, CoreCancel, CancelWork, Poisoned, CoreUnpoison,
           MInv, Removed
  <2>4. CASE CoreResume \/ CoreRecount \/ \E op \in CoreOps : CoreBegin(op)
    BY <1>1, <2>4 DEF CoreResume, CoreRecount, CoreBegin, CoreFirst, MInv, Removed
  <2> QED
    BY <2>1, <2>2, <2>3, <2>4
<1>5. Polled'
  <2>1. pc'["core"] = "c_resubmit" => count > 0
    BY DEF CoreMutex, CoreDeinit, CoreFlag, CoreRlock, CoreWlock, PoisonUrbs, PoisonUrb,
           WwanUnpoison, CoreCancel, CancelWork, Poisoned, CoreUnpoison, CoreResume,
           CoreRecount, CoreEnd, CoreBegin, CoreFirst
  <2> QED
    BY <1>1, <2>1 DEF MInv, Polled, Polling
<1>6. count > 0 /\ pm' = "active" /\ pc'["core"] \notin Deaf =>
        pm = "active" /\ pc["core"] \notin Deaf
  <2> USE DEF Deaf
  <2>1. CASE CoreMutex \/ CoreDeinit \/ CoreFlag \/ CoreRlock \/ CoreWlock
    BY <2>1 DEF CoreMutex, CoreDeinit, CoreFlag, CoreRlock, CoreWlock
  <2>2. CASE PoisonUrbs("core") \/ CoreCancel \/ CoreUnpoison \/ CoreEnd
    BY <2>2 DEF PoisonUrbs, PoisonUrb, CoreCancel, CancelWork, Poisoned, CoreUnpoison, CoreEnd
  <2>3. CASE WwanUnpoison("core")
    <3>1. pc["wwan"] = "started"
      BY <2>3 DEF WwanUnpoison, QInv, OpsOwned
    <3> QED
      BY <3>1 DEF MInv, CloseMode
  <2>4. CASE CoreResume \/ CoreRecount \/ \E op \in CoreOps : CoreBegin(op)
    BY <2>4 DEF CoreResume, CoreRecount, CoreBegin, CoreFirst
  <2> QED
    BY <2>1, <2>2, <2>3, <2>4
<1>7. Heard'
  BY <1>1, <1>6 DEF MInv, Heard, Polling
<1> QED
  BY <1>3, <1>4, <1>5, <1>7 DEF MInv

\* Those that clear WWAN_IN_USE or send the interrupt URB.
LEMMA CorePollsMode ==
  ASSUME IInv, LInv, QInv, MInv, WwanLeave("core") \/ CorePost \/ CoreResubmit
  PROVE  MInv'
<1> USE ThreadsDiffer
    DEF IInv, TypeOK, PcTypeOK, CoreAgrees, CoreOpAt, At, Goto, Clear, usb, life, power
<1>1. /\ \A p \in Procs : pc'[p] = pc[p]
      /\ pc'["int"] = pc["int"] /\ pc'["wwan"] = pc["wwan"] /\ count' = count
  BY DEF WwanLeave, Poisoned, CorePost, CoreResubmit
<1>2. CASE WwanLeave("core")
  <2>1. /\ pc["core"] = "p4" /\ pc'["core"] = "left" /\ coreOp = "deinit" /\ urb' = urb
        /\ flags' = flags \ {"READ", "WWAN_IN_USE"} /\ coreOp' = coreOp
    BY <1>2 DEF WwanLeave, Poisoned, Stopping
  <2>2. ~Polling'
    BY <1>1, <2>1 DEF QInv, DrainedQuiet, Quiet, Stoppers, Drained, Stopped, Polling, Urbs
  <2>3. pc["wwan"] = "started"
    BY <2>1 DEF QInv, OpsOwned
  <2> QED
    BY <1>1, <2>1, <2>2, <2>3
       DEF MInv, PortMode, PortUses, CloseMode, Removed, Polled, Heard, Deaf
<1>3. CASE CorePost \/ CoreResubmit
  <2>1. /\ pc["core"] \in {"c_post", "c_resubmit"} /\ pc'["core"] = "idle" /\ coreOp' = "none"
        /\ "WWAN_IN_USE" \in flags' <=> "WWAN_IN_USE" \in flags
    BY <1>3 DEF CorePost, CoreResubmit
  <2>2. PortMode' /\ CloseMode' /\ Removed'
    BY <1>1, <2>1 DEF MInv, PortMode, PortUses, CloseMode, Removed
  <2>3. pm # "suspended" /\ pc["core"] \notin Barring["validity"]
    BY <2>1 DEF QInv, Power, Barring, Stopped
  <2>4. count > 0 \/ pc["core"] = "c_resubmit" =>
          \E rv \in SubmitResults("validity") : urb' = Submitted("validity", rv)
    BY <1>3 DEF CorePost, CoreResubmit, Recovered
  <2>5. Heard'
    BY <1>1, <2>3, <2>4, Recovers DEF MInv, Heard, Polling
  <2>6. CASE count = 0 /\ pc["core"] = "c_post"
    <3>1. urb' = urb
      BY <1>3, <2>6 DEF CorePost, CoreResubmit, Recovered
    <3> QED
      BY <1>1, <2>1, <2>2, <2>5, <3>1 DEF MInv, Polled, Polling
  <2>7. CASE count = 0 /\ pc["core"] = "c_resubmit"
    <3>1. PICK p \in Procs : pc[p] \in Closing
      BY <2>7 DEF MInv, Polled
    <3>2. CASE pc[p] \in {"p1", "p2", "p3"}
      BY <1>1, <2>1, <2>2, <2>5, <3>2 DEF MInv, Polled
    <3>3. CASE pc[p] \in {"p4", "rel_power"}
      <4>1. poison["validity"] > 0
        BY <3>3, BarredShut DEF QInv, Stoppers, Barring, Stopped, Urbs
      <4>2. urb' = urb
        BY <2>4, <2>7, <4>1 DEF SubmitResults, Submitted
      <4> QED
        BY <1>1, <2>1, <2>2, <2>5, <4>2 DEF MInv, Polled, Polling
    <3> QED
      BY <3>1, <3>2, <3>3 DEF Closing
  <2>8. CASE count # 0
    BY <1>1, <2>1, <2>2, <2>5, <2>8 DEF MInv, Polled
  <2> QED
    BY <2>1, <2>6, <2>7, <2>8
<1> QED
  BY <1>2, <1>3

\* At first nobody is in, the port is stopped and nothing polls.
LEMMA InitMode == Init => MInv
<1> SUFFICES ASSUME Init PROVE MInv
  OBVIOUS
<1>1. /\ pc["core"] = "idle" /\ pc["wwan"] = "stopped" /\ pc["int"] = "idle"
      /\ \A p \in Procs : pc[p] = "closed"
      /\ count = 0 /\ flags = {} /\ ~urb["validity"] /\ coreOp = "none"
  BY ThreadsDiffer DEF Init, Urbs
<1> QED
  BY <1>1 DEF MInv, PortMode, PortUses, CloseMode, Removed, Polled, Polling, Heard, Opening, Closing

\* Every step keeps what is said of who polls.
LEMMA NextMode ==
  ASSUME IInv, IInv', LInv, QInv, MInv, [Next]_vars
  PROVE  MInv'
<1>1. CASE UNCHANGED vars
  <2>1. LifeAside /\ HostAside
    BY <1>1 DEF vars, locking, usb, life, power, LifeAside, ProcsAside, HostAside, Traffic, Listens,
                Quiet, RxDone, SvcDone, Polling, At
  <2> QED
    BY <2>1, AsideMode
<1>2. ASSUME NEW p \in Procs, ProcStep(p) \/ ProcCall(p)
      PROVE  MInv'
  <2>1. CASE WriteStep(p) \/ WriteCall(p)
    BY <2>1, WriteLifeAside, WriteHostAside, AsideMode
  <2>2. CASE ReadStep(p) \/ ReadCall(p)
    BY <2>2, ReadLifeAside, ReadHostAside, AsideMode
  <2>3. CASE FileStep(p) \/ OpenCall(p)
    BY <2>3, OpenMode, ReleaseMode DEF FileStep
  <2> QED
    BY <1>2, <2>1, <2>2, <2>3 DEF ProcStep, ProcCall
<1>3. CASE OutCallback \/ WwanTxComplete \/ InCallback \/ IntCallback \/ WorkStep
  BY <1>3, CallbackLifeAside, CallbackHostAside, AsideMode
<1>4. CASE WwanCall \/ WwanStep
  BY <1>4, PortModeStep
<1>5. CASE CoreStep \/ \E op \in CoreOps : CoreBegin(op)
  BY <1>5, CoreApartMode, CorePollsMode DEF CoreStep
<1> QED
  BY <1>1, <1>2, <1>3, <1>4, <1>5 DEF Next

\* It holds in every reachable state.
THEOREM ModeInvariant == Spec => []MInv
<1>1. Init => MInv
  BY InitMode
<1>2. IInv /\ IInv' /\ LInv /\ QInv /\ MInv /\ [Next]_vars => MInv'
  BY NextMode
<1> QED
  BY <1>1, <1>2, Invariant, LifeInvariant, QuietInvariant, PTL DEF Spec

\* The open files and the port exclude each other (771, 884), with any number of
\* processes, and while the core removes a started port (988-995): WWAN_IN_USE is
\* clear before the port has stopped, but then the core holds wdm_mutex.
THEOREM ModesExclude == Spec => []ModeExclusive
<1>1. MInv => ModeExclusive
  BY DEF MInv, PortMode, PortUses, ModeExclusive, Opening, At
<1> QED
  BY <1>1, ModeInvariant, PTL

\* With no open file and no port the interrupt URB polls only until the release
\* under way has poisoned it (820-826), even if a resume that counted a file sends
\* it after that file was closed (1338-1339).
THEOREM NobodyPolled == Spec => []NoOrphanPolling
<1>1. MInv => NoOrphanPolling
  BY DEF MInv, Polled, Polling, NoOrphanPolling
<1> QED
  BY <1>1, ModeInvariant, PTL

\* If usb_submit_urb fails for no other cause than an active, poisoned or sleeping
\* URB, suspends and resets give open files back the interrupt URB they took: no
\* interleaving with open and release leaves them deaf (1336-1342, 1393-1397).
THEOREM FilesHear == ASSUME SubmitFaults = {} PROVE Spec => []DeviceHeard
<1>1. MInv => DeviceHeard
  BY DEF MInv, Heard, Polling, DeviceHeard, Deaf, At
<1> QED
  BY <1>1, ModeInvariant, PTL

-----------------------------------------------------------------------------
(* What a freed device leaves.  Nobody is inside, and a mutex that is held    *)
(* has somebody who will give it back: the converse of Owners and WdmOwned.   *)

Mutexes == {"rlock", "wlock", "wdm"}

LocksHeld ==
  /\ \A p \in Procs : /\ lock["rlock"] = p => pc[p] \in Reading
                      /\ lock["wlock"] = p => pc[p] \in Writing
                      /\ lock["wdm"] = p => pc[p] \in HoldsWdm
  /\ \A l \in Mutexes : lock[l] \in Procs \cup {"core", None}
  /\ pc["core"] = "gone" => \A l \in Mutexes : lock[l] # "core"

\* Writers take and give back wlock.
LEMMA WriteHolds ==
  ASSUME IInv, LocksHeld, NEW p \in Procs, WriteStep(p) \/ WriteCall(p)
  PROVE  LocksHeld'
<1> USE ThreadsDiffer
    DEF IInv, TypeOK, PcTypeOK, LocksTypeOK, Locks, LocksHeld, Mutexes, Reading, Writing, HoldsWdm,
        Opening, At, Goto, Free, Acquire, Release
<1>1. CASE WriteStart(p) \/ Fsync(p) \/ Flush(p)
  BY <1>1 DEF WriteStart, Fsync, Flush
<1>2. CASE WriteLock(p)
  BY <1>2 DEF WriteLock
<1>3. CASE WritePm(p) \/ WriteWait(p) \/ WriteFill(p)
  BY <1>3 DEF WritePm, WriteWait, WriteFill
<1>4. CASE WriteGiveUp(p)
  BY <1>4 DEF WriteGiveUp, WriteReturn
<1>5. CASE WriteCheck(p)
  BY <1>5 DEF WriteCheck, WriteReturn
<1>6. CASE WriteSubmit(p)
  BY <1>6 DEF WriteSubmit, WriteReturn
<1>7. ASSUME NEW k \in {"fsync", "flush"}, AwaitCommand(p, k) \/ AwaitGiveUp(p, k) \/ AwaitStatus(p, k)
      PROVE  LocksHeld'
  BY <1>7 DEF AwaitCommand, AwaitGiveUp, AwaitStatus, WerrAt, WaitReturn, WaitAt
<1> HIDE DEF LocksHeld
<1> QED
  BY <1>1, <1>2, <1>3, <1>4, <1>5, <1>6, <1>7 DEF WriteStep, WriteCall

\* Readers take and give back rlock.
LEMMA ReadHolds ==
  ASSUME IInv, LocksHeld, NEW p \in Procs, ReadStep(p) \/ ReadCall(p)
  PROVE  LocksHeld'
<1> USE ThreadsDiffer
    DEF IInv, TypeOK, PcTypeOK, LocksTypeOK, Locks, LocksHeld, Mutexes, Reading, Writing, HoldsWdm,
        Opening, At, Goto, Free, Acquire, Release, locking
<1>1. CASE ReadLock(p)
  BY <1>1 DEF ReadLock
<1>2. CASE ReadGiveUp(p)
  BY <1>2 DEF ReadGiveUp, ReadReturn
<1>3. CASE ReadRetry(p) \/ ReadWait(p)
  BY <1>3 DEF ReadRetry, ReadWait, ReadReturn
<1>4. CASE ReadCheck(p) \/ ReadLockIuspin(p)
  BY <1>4 DEF ReadCheck, ReadLockIuspin, ReadReturn
<1>5. CASE ReadEmpty(p) \/ ReadEmptyRelock(p)
  BY <1>5 DEF ReadEmpty, ReadEmptyRelock
<1>6. CASE ReadCopy(p)
  BY <1>6 DEF ReadCopy
<1>7. CASE ReadTrim(p) \/ ReadDrained(p)
  BY <1>7 DEF ReadTrim, ReadDrained, ReadReturn
<1>8. CASE \/ SubmitOwed(p, "z_submit", "z_ok", "z_fail")
           \/ SubmitOwed(p, "d_submit", "d_ok", "d_fail")
  BY <1>8 DEF SubmitOwed
<1> HIDE DEF LocksHeld
<1> QED
  BY <1>1, <1>2, <1>3, <1>4, <1>5, <1>6, <1>7, <1>8 DEF ReadStep, ReadCall

\* Handlers and work items take no mutex.
LEMMA CallbackHolds ==
  ASSUME IInv, LocksHeld,
         OutCallback \/ WwanTxComplete \/ InCallback \/ IntCallback \/ WorkStep
  PROVE  LocksHeld'
<1> USE ThreadsDiffer
    DEF IInv, TypeOK, PcTypeOK, LocksTypeOK, Locks, LocksHeld, Mutexes, At, Goto, locking
<1>1. CASE OutCallback \/ WwanTxComplete
  BY <1>1 DEF OutCallback, OutStatus, OutFree, OutWake, WwanTxComplete
<1>2. CASE InCallback
  BY <1>2 DEF InCallback, InForwarded, InTaken, InAnswered, InUnlinked
<1>3. CASE IntCallback
  BY <1>3 DEF IntCallback, IntComplete, IntExit, IntFault, IntUnlinked, IntNotified, IntRespond
<1>4. CASE WorkStep
  BY <1>4 DEF WorkStep, RxStep, RxStart, RxSubmit, RxFail, SvcStep, SvcStart, SubmitOwed, SvcEnd
<1> HIDE DEF LocksHeld
<1> QED
  BY <1>1, <1>2, <1>3, <1>4

\* open and release take and give back wdm_mutex.
LEMMA FileHolds ==
  ASSUME IInv, LInv, LocksHeld, NEW p \in Procs, FileStep(p) \/ OpenCall(p)
  PROVE  LocksHeld'
<1> USE ThreadsDiffer
    DEF IInv, TypeOK, PcTypeOK, LocksTypeOK, Locks, LocksHeld, Mutexes, Reading, Writing, HoldsWdm,
        Opening, At, Goto, Free, Acquire, Release
<1>1. CASE OpenCall(p) \/ OpenLock(p) \/ OpenPm(p)
  BY <1>1 DEF OpenCall, OpenLock, OpenPm
<1>2. CASE OpenCount(p)
  BY <1>2 DEF OpenCount
<1>3. CASE ReleaseLock(p) \/ ReleaseCount(p)
  BY <1>3 DEF ReleaseLock, ReleaseCount
<1>4. CASE PoisonUrbs(p)
  BY <1>4 DEF PoisonUrbs, PoisonUrb
<1>5. CASE ReleaseForget(p) \/ ReleaseUnpoison(p)
  BY <1>5 DEF ReleaseForget, ReleaseUnpoison, Poisoned
<1> HIDE DEF LocksHeld
<1> QED
  BY <1>1, <1>2, <1>3, <1>4, <1>5 DEF FileStep

\* The port takes none of the three, and the core gives its own back.
LEMMA OwnersHold ==
  ASSUME IInv, LocksHeld,
         \/ WwanCall \/ WwanStep
         \/ CoreStep \/ \E op \in CoreOps : CoreBegin(op)
  PROVE  LocksHeld'
<1> USE ThreadsDiffer, ConstantTypes
    DEF IInv, TypeOK, PcTypeOK, LocksTypeOK, Locks, LocksHeld, Mutexes, At, Goto, Free, Acquire,
        Release, locking
<1>1. CASE WwanCall
  BY <1>1 DEF WwanCall, WwanStart, WwanTx, WwanStop
<1>2. CASE WwanStep
  BY <1>2 DEF WwanStep, WwanClaim, WwanListen, WwanTxOff, PoisonUrbs, PoisonUrb, WwanLeave,
              Poisoned, WwanUnpoison
<1>3. CASE CoreMutex \/ CoreDeinit \/ CoreFlag \/ CoreRlock \/ CoreWlock
  BY <1>3 DEF CoreMutex, CoreDeinit, CoreFlag, CoreRlock, CoreWlock
<1>4. CASE PoisonUrbs("core") \/ WwanLeave("core") \/ WwanUnpoison("core")
  BY <1>4 DEF PoisonUrbs, PoisonUrb, WwanLeave, Poisoned, WwanUnpoison
<1>5. CASE CoreCancel \/ CoreUnpoison \/ CorePost
  BY <1>5 DEF CoreCancel, CancelWork, Poisoned, CoreUnpoison, CorePost
<1>6. CASE CoreResume \/ CoreRecount \/ CoreResubmit
  BY <1>6 DEF CoreResume, CoreRecount, CoreResubmit
<1>7. CASE CoreEnd
  BY <1>7 DEF CoreEnd
<1>8. ASSUME NEW op \in CoreOps, CoreBegin(op)
      PROVE  LocksHeld'
  BY <1>8 DEF CoreBegin, CoreFirst
<1> HIDE DEF LocksHeld
<1> QED
  BY <1>1, <1>2, <1>3, <1>4, <1>5, <1>6, <1>7, <1>8 DEF CoreStep

\* No mutex is left behind.
THEOREM LocksInvariant == Spec => []LocksHeld
<1>1. Init => LocksHeld
  BY ThreadsDiffer DEF Init, LocksHeld, Mutexes, Locks
<1>2. ASSUME IInv, LInv, LocksHeld, [Next]_vars
      PROVE  LocksHeld'
  <2>1. CASE UNCHANGED vars
    BY <1>2, <2>1 DEF LocksHeld, vars, locking
  <2>2. ASSUME NEW p \in Procs, ProcStep(p) \/ ProcCall(p)
        PROVE  LocksHeld'
    BY <1>2, <2>2, WriteHolds, ReadHolds, FileHolds DEF ProcStep, ProcCall
  <2>3. CASE OutCallback \/ WwanTxComplete \/ InCallback \/ IntCallback \/ WorkStep
    BY <1>2, <2>3, CallbackHolds
  <2>4. CASE WwanCall \/ WwanStep \/ CoreStep \/ \E op \in CoreOps : CoreBegin(op)
    BY <1>2, <2>4, OwnersHold
  <2> QED
    BY <1>2, <2>1, <2>2, <2>3, <2>4 DEF Next
<1> QED
  BY <1>1, <1>2, Invariant, LifeInvariant, PTL DEF Spec

\* Once desc is freed nothing can touch it: no process is inside the driver or
\* holds one of its mutexes, no URB, handler or work item is left, and the core has
\* let go (1288, 830), whoever of the last close and the disconnect came first.
THEOREM FreedIsForgotten == Spec => []NoUseAfterFree
<1>1. ASSUME IInv, LInv, QInv, MInv, LocksHeld, StillAfterDisconnect
      PROVE  NoUseAfterFree
  <2> SUFFICES ASSUME ~alive
               PROVE  /\ \A p \in Procs : ~Inside(p)
                      /\ \A u \in Urbs : ~urb[u]
                      /\ work = {}
                      /\ \A t \in {"rx", "svc", "int", "out"} : At(t, "idle")
                      /\ At("core", "gone")
                      /\ \A l \in Locks \ {"iuspin"} : Free(l)
    BY DEF NoUseAfterFree
  <2>1. At("core", "gone") /\ Handles = {}
    BY <1>1 DEF LInv, LivesOn, Unlisted, At
  <2>2. \A p \in Procs : ~Inside(p)
    BY <1>1, <2>1 DEF MInv, Removed, Opening, Closing, Handles, Counted, Inside, At
  <2>3. \A l \in Mutexes : Free(l)
    BY <1>1, <2>1, <2>2
       DEF LocksHeld, Mutexes, Free, Inside, Reading, Writing, HoldsWdm, Opening, At
  <2>4. Free("ops")
    BY <1>1, <2>1
       DEF QInv, OpsOwned, Porting, MInv, Removed, IInv, CoreAgrees, CoreOpAt, Free, At
  <2> QED
    BY <1>1, <2>1, <2>2, <2>3, <2>4 DEF StillAfterDisconnect, Locks, Mutexes
<1> QED
  BY <1>1, Invariant, LifeInvariant, QuietInvariant, ModeInvariant, LocksInvariant, StillGone, PTL
=============================================================================
