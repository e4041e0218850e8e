------------------------------- MODULE CdcWdm -------------------------------
(***************************************************************************)
(* The whole driver of cdc-wdm.c: every process, callback, work item and   *)
(* core operation over one device, and what must hold of it.               *)
(***************************************************************************)
EXTENDS WdmWrite, WdmRead, WdmFile, WdmHotplug

\* What a process that entered the driver goes on to do by itself.
ProcStep(p) == WriteStep(p) \/ ReadStep(p) \/ FileStep(p)

\* What only a user starts or breaks off.
ProcCall(p) == WriteCall(p) \/ ReadCall(p) \/ OpenCall(p)

Next ==
  \/ \E p \in Procs : ProcStep(p) \/ ProcCall(p)
  \/ OutCallback \/ WwanTxComplete \/ InCallback \/ IntCallback
  \/ WorkStep
  \/ WwanCall \/ WwanStep
  \/ CoreStep \/ \E op \in CoreOps : CoreBegin(op)

Spec == Init /\ [][Next]_vars

-----------------------------------------------------------------------------
(* Fairness.  The scheduler runs every thread that can go on; the kernel's    *)
(* mutexes and cancel_work_sync serve those who wait; the host controller     *)
(* completes every control transfer, and the interrupt URB once it is         *)
(* cancelled.  No user has to make a call, no device to notify.               *)

LockStep(p) ==
  WriteLock(p) \/ OpenLock(p) \/ OpenCount(p) \/ ReleaseLock(p) \/ ReleaseCount(p)

IntCancelled == poison["validity"] > 0 /\ IntComplete

Fairness ==
  /\ \A p \in Procs : WF_vars(ProcStep(p)) /\ SF_vars(LockStep(p))
  /\ WF_vars(OutCallback) /\ WF_vars(InCallback)
  /\ WF_vars(IntCancelled) /\ WF_vars(IntExit)
  /\ WF_vars(RxStep) /\ WF_vars(SvcStep)
  /\ SF_vars(CoreStep)

FairSpec == Spec /\ Fairness

\* Users that go on reading: their calls get their turn at rlock and are not for
\* ever interrupted.
KeenSpec ==
  FairSpec /\ \A p \in Procs : SF_vars(ReadLock(p)) /\ SF_vars(ReadStep(p))

-----------------------------------------------------------------------------
ProcPc == {"closed", "open_lock", "open_pm", "open_count", "open",
           "w_lock", "w_pm", "w_wait", "w_check", "w_fill", "w_submit",
           "fsync_wait", "fsync_werr", "flush_wait", "flush_werr",
           "rel_lock", "rel_count", "p1", "p2", "p3", "p4", "rel_power",
           "r_retry", "r_wait", "r_check", "r_spin", "r_copy", "r_trim",
           "z_submit", "z_ok", "z_fail", "d_submit", "d_ok", "d_fail"}

CorePc == {"idle", "c_mutex", "c_deinit", "c_flag", "c_rlock", "c_wlock",
           "p1", "p2", "p3", "p4", "left", "c_svc", "c_unpoison",
           "c_post", "c_recover", "c_resubmit", "c_end", "gone"}

PortPc == {"stopped", "start_lock", "start_submit", "started", "tx_off",
           "p1", "p2", "p3", "p4", "left", "removed"}

Flags == {"IN_USE", "DISCONNECTING", "READ", "RESPONDING", "SUSPENDING", "RESETTING",
          "OVERFLOW", "WWAN_IN_USE"}

PcTypeOK ==
  /\ DOMAIN pc = Threads
  /\ \A p \in Procs : pc[p] \in ProcPc
  /\ pc["core"] \in CorePc /\ pc["wwan"] \in PortPc
  /\ pc["rx"] \in {"idle", "rx_submit", "rx_fail"}
  /\ pc["svc"] \in {"idle", "svc_submit", "svc_ok", "svc_fail"}
  /\ pc["int"] \in {"idle", "int_exit", "EBUSY", "EPERM", "EHOSTUNREACH", "ENOMEM"}
  /\ pc["out"] \in {"idle", "free", "wake"}

LocksTypeOK == lock \in [Locks -> Threads \cup {None}]

BitsTypeOK == flags \subseteq Flags /\ work \subseteq Works

HostTypeOK == urb \in [Urbs -> BOOLEAN] /\ poison \in [Urbs -> Int]

PowerTypeOK ==
  /\ pm \in {"active", "suspended", "resuming"} /\ pmUse \in Int
  /\ coreOp \in {"none", "deinit", "suspend", "autosuspend", "reset", "disconnect"}
  /\ opsLeft \in Nat /\ avail \in Nat /\ notesLeft \in Nat

FieldsTypeOK ==
  /\ count \in Int /\ alive \in BOOLEAN /\ listed \in BOOLEAN
  /\ werr \in {0, -1} /\ outbuf \in Procs \cup {None}
  /\ handler \in {"write", "wwan"} /\ txoff \in BOOLEAN
  /\ rerr \in {0, -1} /\ resp_count \in Nat

BytesTypeOK ==
  /\ ubuf \in Seq(Nat) /\ Len(ubuf) <= wMaxCommand /\ reslength \in 0 .. wMaxCommand
  /\ cntr \in [Procs -> 0 .. wMaxCommand]
  /\ sent \in Nat /\ got \in Nat /\ told \in Nat

\* The types of the variables; ubuf never outgrows the wMaxCommand bytes that
\* wdm_create allocated for it (cdc-wdm.c:1111, 259), nor does a read copy more.
TypeOK ==
  /\ PcTypeOK /\ LocksTypeOK /\ BitsTypeOK /\ HostTypeOK /\ PowerTypeOK
  /\ FieldsTypeOK /\ BytesTypeOK

-----------------------------------------------------------------------------
(* The command path *)

Filling(p) == pc[p] \in {"w_fill", "w_submit"}

\* A writer fills and submits the command URB only while no command is in flight
\* and its completion handler is through: neither IN_USE taken away by pre_reset
\* (1375) nor the handler's late clear_bit (192) lets two of them overlap.
CommandExclusive ==
  \A p \in Procs : Filling(p) => ~urb["command"] /\ At("out", "idle")

\* desc->outbuf is the buffer of the command in flight, or of the writer that is
\* about to send it, and of nobody else: no command buffer is freed under the
\* host controller, freed twice or forgotten (495, 500, 190).
OutbufOwned ==
  /\ outbuf = None <=> /\ ~(urb["command"] /\ handler = "write")
                       /\ ~At("out", "free")
                       /\ \A p \in Procs : ~At(p, "w_submit")
  /\ \A p \in Procs : At(p, "w_submit") => outbuf = p

-----------------------------------------------------------------------------
(* The response path *)

\* Byte j may follow byte i: no byte between them was dropped, or a read has
\* returned ENOBUFS for it.
Follows(j, i) == j = i + 1 \/ (j > i /\ j <= told + 1)

\* What a reader is about to copy follows what readers got before it, and ubuf
\* has no unannounced gap: concurrent and partial reads, completions between the
\* copy and the trim (648, 656), overflows and a close in between lose, repeat
\* or reorder nothing without a word.
StreamInOrder ==
  /\ \A i \in 1 .. Len(ubuf) - 1 : Follows(ubuf[i + 1], ubuf[i])
  /\ \A p \in Procs :
       At(p, "r_copy") /\ cntr[p] > 0
         => cntr[p] <= Len(ubuf) /\ Follows(ubuf[1], got)

\* A reader between its copy and its trim has copied no more than ubuf holds,
\* although neither stretch is under the lock that the completions hold: the
\* length of 659 cannot go below zero (648, 656-659).
CopyBounded ==
  \A p \in Procs : pc[p] \in {"r_copy", "r_trim"} => cntr[p] <= Len(ubuf)

Submitting(t) == pc[t] \in {"z_submit", "d_submit", "svc_submit", "rx_submit"}

\* Nobody submits the response URB while it is active (531-549, 1031-1034).
ResponseExclusive ==
  \A t \in Procs \cup {"rx", "svc"} : Submitting(t) => ~urb["response"]

Serving(t) ==
  pc[t] \in {"r_trim", "z_submit", "z_ok", "z_fail", "d_submit", "d_ok", "d_fail",
             "svc_submit", "svc_ok", "svc_fail", "rx_submit", "rx_fail"}

\* A notification that is owed is never forgotten: the response URB is out, or a
\* reader will find READ set, or somebody is on the way to ask (535-549).
NotificationAttended ==
  resp_count > 0 /\ count > 0 =>
    \/ urb["response"]
    \/ "READ" \in flags
    \/ work # {}
    \/ \E t \in Procs \cup {"rx", "svc"} : Serving(t)
    \/ ~At("int", "idle")

-----------------------------------------------------------------------------
(* Life and death of the device *)

\* Inside an open file, or between the lookup and the end of an open or release.
Inside(p) == pc[p] \notin {"closed", "open_lock"}

\* Once desc is freed nothing can touch it: no process is inside the driver, no
\* URB, handler or work item is left, the core has let go (1288, 830).
NoUseAfterFree ==
  ~alive => /\ \A p \in Procs : ~Inside(p)
            /\ \A u \in Urbs : ~urb[u]
            /\ work = {}
            /\ \A t \in {"rx", "svc", "int", "out"} : At(t, "idle")
            /\ At("core", "gone")
            /\ \A l \in Locks \ {"iuspin"} : Free(l)

\* After the disconnect no URB can be sent and no work item runs, although open
\* files keep the device (1277-1279).
StillAfterDisconnect ==
  At("core", "gone") =>
    /\ \A u \in Urbs : ~urb[u] /\ poison[u] > 0
    /\ work = {}
    /\ \A t \in {"rx", "svc", "int", "out"} : At(t, "idle")

\* A sleeping device has no URB out and no work item that could send one
\* (1317-1323).
AsleepQuiet ==
  pm = "suspended" =>
    /\ \A u \in Urbs : ~urb[u]
    /\ At("rx", "idle") /\ At("svc", "idle") /\ At("int", "idle") /\ At("out", "idle")

\* With no open file and no port, no interrupt URB is left polling, not even one
\* that a concurrent resume sent (1338-1339, 820-826).
NoOrphanPolling ==
  count = 0 /\ "WWAN_IN_USE" \notin flags /\ urb["validity"] =>
    \E p \in Procs : pc[p] \in {"p1", "p2", "p3"}

\* An open file hears of responses whenever the device is awake and the core is
\* done with it: suspends and resets give back the interrupt URB they took.
DeviceHeard ==
  count > 0 /\ pm = "active" /\ At("core", "idle") =>
    urb["validity"] \/ ~At("int", "idle")

\* The file and the WWAN port exclude each other (771, 884), so that command URB
\* and completion handler have one user.
ModeExclusive ==
  "WWAN_IN_USE" \in flags \/ At("wwan", "started") =>
    count = 0 /\ \A p \in Procs : pc[p] \notin {"open_pm", "open_count"}

\* An open handle is a process that was counted and has not been uncounted.
Counted(p) == Inside(p) /\ pc[p] \notin {"open_pm", "open_count", "p1", "p2", "p3",
                                         "p4", "rel_power"}

\* Whatever the order of opens, closes, failed opens, resets and the disconnect,
\* the device lives and dies as WdmLifetime says (767, 792, 814, 828, 1288).
Lifetime == INSTANCE WdmLifetime WITH
  Users <- Procs,
  handles <- {p \in Procs : Counted(p)},
  bound <- listed,
  freed <- ~alive

LifetimeSpec == Lifetime!Spec

-----------------------------------------------------------------------------
(* Power references *)

Transfers(p) == pc[p] \in {"w_wait", "w_check", "w_fill", "w_submit", "open_count"}

\* Every autopm reference has its holder: a write or an open under way, or the
\* port's command in flight, whose completion puts it (917).  One too many keeps
\* the device awake for good, one too few lets it sleep under a transfer.
PmBalanced ==
  pmUse = Cardinality({p \in Procs : Transfers(p)})
          + (IF urb["command"] /\ handler = "wwan" THEN 1 ELSE 0)

-----------------------------------------------------------------------------
(* What must happen *)

\* A disconnect ends, although readers sleep under rlock and writers under wlock
\* (1265-1276).
DisconnectEnds == At("core", "c_mutex") ~> At("core", "gone")

\* A write that has begun returns, whatever the command before it came to.
WritesReturn ==
  \A p \in Procs : At(p, "w_lock") ~> pc[p] \in {"open", "closed"}

\* What the device announced is fetched as long as somebody keeps reading: no
\* interleaving of notifications, answers, failed submissions and reads leaves
\* resp_count and RESPONDING so that nobody asks again (350, 535, 555).
AnnouncedIsFetched == avail > 0 ~> avail = 0

-----------------------------------------------------------------------------
(* What comments of the source say, and the code does not keep *)

\* "it is better handled as an empty read" (243-245): the reader of a stalled
\* response is done with iuspin.  wdm_read leaves 637 and 640 with it locked.
EmptyReadLetsGo == \A p \in Procs : lock["iuspin"] # p
=============================================================================
