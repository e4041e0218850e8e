# A TLA+ verification of linux-function-test

The repository is a collection of Linux kernel modules and test programs for
USB, networking, DMA and RDMA. This directory holds TLA+ models of its
concurrent parts, the TLC runs that check them and the TLAPS proofs about them.
All paths below are under `src/`; a bare line number is one of the file the
paragraph is about.

## 1. Inventory

| component | source | state it keeps | operations | what is hard | here |
|---|---|---|---|---|---|
| cdc-wdm | `modules/cdc-wdm/cdc-wdm.c` | one `struct wdm_device` per interface: 3 URBs, flag bits, 2 mutexes and a spinlock, `ubuf`, `count`, `resp_count`, `werr`, `rerr`, 2 work items | file operations, URB completions, work, WWAN port, suspend / resume / reset / disconnect | everything runs against everything | modelled, sections 2 to 4 |
| cdc_ncm | `modules/ncm/cdc_ncm.c` | `cdc_ncm_ctx`: the block being filled, the frame kept over, timer and tasklet, low-memory counters, negotiated sizes | bind, unbind, fill_tx_frame, timer and tasklet, rx_fixup, status, sysfs stores, MTU change | size arithmetic, allocation failure, stores under a running transmitter | modelled, section 5 |
| dummy_usb, device end | `modules/dummy_usb/udc.c`, `usb_over_net.c` | endpoint queues, halt bits, `fifo_req`, driver, pullup, callback count, sockets | enable, disable, queue, dequeue, halt; poll thread; setup, start, stop, pullup; probe, remove | give-back without the lock; life of driver, thread and sockets | partly, section 6 |
| dummy_usb, host end | `modules/dummy_usb/hcd.c` | port status, connection, URB queue | event thread, hub control, bus suspend and resume; enqueue, dequeue | events between the requests of the hub driver | the root hub port, section 6 |
| soft-rdma | `rdma/soft-rdma/` | queue pair state, exchanged keys | TCP exchange, INIT, RTR, RTS, post, poll, cleanup | order of the two sides, failure at any call | modelled, section 6 |
| virtual_pcie | `modules/virtual_pcie/` | `connected`, socket, packet list, threads, timer, BARs | connect, send, process, keepalive | | not modelled: no packet is ever accepted |
| soft-dma | `modules/dma/soft-dma/soft_dma.c` | lists `submitted`, `issued`, `completed` | prep, issue_pending, copy thread | | not modelled: no transfer can be submitted |
| sketh | `modules/sketh_plat/`, `modules/sketh_pci/` | rings, DOWN bit | xmit, clean, open, stop | | not modelled: never reaches a running state |
| fake_autosuspend | `modules/fake_autosuspend/` | a runtime-PM reference | debugfs writes | | not modelled: no operation is reachable |
| soft-rdma-ok, kprobe_carrier_on, libusb-test, dbus, debug, gadget_win_driver | | none to speak of | sequential I/O | | not modelled |

Section 10 gives the reasons. The components do not call each other: each is a
module or a program of its own, except that the two ends of dummy_usb exchange
datagrams, of which only the host's POLL, SETUP and events have an effect.

What makes cdc-wdm correct: one command at a time and its buffer freed once;
responses reach readers in order and complete, or the reader is told (ENOBUFS);
the response URB is never submitted twice and a notification never forgotten; a
device is freed once, after its last user; nothing runs on a device that is gone
or asleep; the character device and the WWAN port exclude each other; power
references balance; disconnects end and writes return. `PROJECT.json` lists the
hazards of all components, line by line, with the property that watches each.

## 2. The actors of cdc-wdm

* Processes call open, read, write, fsync and close; `rlock` serves one reader
  at a time, `wlock` one writer, the global `wdm_mutex` opens and releases.
* The host controller completes three URBs. `command` carries a write,
  `validity` polls the interrupt endpoint for notifications, `response` fetches
  a message. Their handlers run in interrupt context, under the spinlock
  `iuspin` for part of the time.
* Two work items, `rxwork` and `service_outs_intr`, submit `response` when a
  handler could not.
* The USB core suspends, resumes, resets and unbinds, one operation at a time.
* The WWAN core starts, stops and sends over the port, an alternative to the
  character device.

## 3. Modules of cdc-wdm

| module | models |
|---|---|
| `WdmState` | constants, variables, Init; locks, `usb_submit_urb`, `poison_urbs`, `service_outstanding_interrupt` |
| `WdmWrite` | `wdm_write`, `wdm_out_callback`, `wdm_wait_for_response` (fsync, flush) |
| `WdmRead` | `wdm_read`, `wdm_in_callback`, `wdm_int_callback`, `wdm_rxwork`, `service_interrupt_work`, `wdm_wwan_rx` |
| `WdmFile` | `wdm_open`, `wdm_release` |
| `WdmWwan` | `wdm_wwan_port_start`, `_stop`, `_tx`, `_tx_complete` |
| `WdmHotplug` | `wdm_suspend`, `wdm_resume`, `wdm_pre_reset`, `wdm_post_reset`, `wdm_disconnect`, `wdm_wwan_deinit` |
| `CdcWdm` | the whole driver: Next, fairness, every property |
| `WdmLifetime` | abstract: opened only while bound, freed once by the last to leave |
| `MCCdcWdm` | values of the constants for TLC |
| `CdcWdm_proofs` | theorems: types, the copy, the order of the bytes |
| `CdcWdmLife_proofs` | theorems: the refinement of `WdmLifetime`; silence after a disconnect and in a suspend, the two modes, polling, use after free |
| `CdcWdmUrbs_proofs` | theorems: whose turn it is to submit the response URB; the command URB and its buffer, power references |

`WdmWrite`, `WdmRead`, `WdmFile` and `WdmWwan` extend `WdmState`; `WdmHotplug`
extends `WdmWwan`, since a disconnect stops the port; `CdcWdm` extends them all.
`CdcWdmLife_proofs` extends `CdcWdm_proofs`, and `CdcWdmUrbs_proofs` extends that.

**Grain.** One action is one stretch of code whose middle no other context can
see: an `iuspin` section, one `test_bit` and what follows from it, one call that
blocks. Where the code works on the shared state without the lock (the copy of
648, the `clear_bit` of 192, the submission of 549) the stretch has an action of
its own. `pc` names the place of each thread, including the handlers that run in
more than one stretch (`"int"`, `"out"`). A reader between 616 and 643 holds
`iuspin` only inside one action, save on the branch 633-641, which leaves with
the lock held: there `lock["iuspin"]` stays with the process.

**State.** `flags`, `count`, `werr`, `rerr`, `resp_count`, `reslength`, `ubuf`
and `outbuf` are the fields of the same name. `flags` is the set of bits that are
set; `WDM_INT_STALL`, `WDM_POLL_RUNNING` and `WDM_RESULT` are never tested and
are left out. `ubuf` is the sequence of unread bytes, `desc->length` its length;
a byte is its position in what the device has sent. `sent`, `got` and `told` are
history: the last byte sent, the last byte a reader copied, and the last byte
covered by an ENOBUFS. `outbuf` is the process whose buffer it is. Error numbers
are kept as far as the code tells them apart: `werr` and `rerr` are 0 or -1.

**The environment**, modelled from how the driver uses it (in the map as
external): `usb_submit_urb` returns EBUSY, EPERM or EHOSTUNREACH if the URB is
active, poisoned or the device asleep, and otherwise succeeds or, with
`SubmitFaults`, fails with ENOMEM; `usb_poison_urb` bars new submissions, then
cancels and waits for the handler; a cancelled URB completes with an error and
no data. `cancel_work_sync` waits for a running item and removes a queued one.
`usb_autopm_get_interface` returns when the device is awake, and an autosuspend
begins only without references. The core resets and unbinds a device only when
it is awake.

**Abstractions.** poll and ioctl only read and are left out. `usb_autopm_get_interface`
and the copy from user space do not fail except where the result is the same as a
signal's (`WriteGiveUp`). `OpenCall` lets a process look the minor up at any
time before the disconnect drops the device from the list: `usb_open` is held
off a little earlier, by `usb_deregister_dev`. `manage_power(1)` at 799 changes nothing
the model has, for the reference that `wdm_open` holds keeps the device awake. A fault of the
interrupt endpoint is a stall, which schedules `rxwork`, or any other, which
only resubmits, like a notification of another type.

## 4. What TLC checks of cdc-wdm

The runs of cdc-wdm instantiate `MCCdcWdm`. Two processes are enough for the properties of
two actors of one kind (two readers, two writers, an open against a release);
`wMaxCommand` of 2 lets a message be read piecemeal and a second one overflow;
`MaxNotes` bounds the notifications the device sends and `MaxCoreOps` the
suspends, resets and disconnects, 2 of which allow a reset or a suspend followed
by a disconnect. `CallsOf` says which calls a run's processes make: each run brings
together the actors of its question. What a run leaves out, and matters to its
property, is named in the table or under the limits below.

| run | size | checks |
|---|---|---|
| `MC_Commands` | 2 writers that close, failing URBs, every core operation, 2 of them | `CommandExclusive`, `OutbufOwned`, `WritesReturn` |
| `MC_Stream` | 2 readers of 1 or 2 bytes that close, 3 messages of 0 to 2 bytes, stalled and failed answers, ENOMEM | `TypeOK`, `StreamInOrder`, `CopyBounded` |
| `MC_Turns` | 2 readers, 4 notifications | `ResponseExclusive`, `NotificationAttended`, `AnnouncedIsFetched`, no deadlock |
| `MC_Life` | 2 readers that open and close, every core operation, 2 of them | `NoUseAfterFree`, `StillAfterDisconnect`, `AsleepQuiet`, `NoOrphanPolling`, `DeviceHeard`, refinement of `WdmLifetime` |
| `MC_Wwan` | 1 process, the port, autosuspend, disconnect | `ModeExclusive`, `PmBalanced` |
| `MC_DisconnectEnds` | 2 processes that read and write, 1 disconnect | `DisconnectEnds` |

The largest, `MC_Life`, has 2.1 million states; `MC_Stream` has 1.1 million. A
stall of the interrupt endpoint, which makes the driver fetch unasked any number of times, is in
`MC_Life` only; with it `MC_Stream` passes as well, at 2 messages and 5 million states.

Deadlock checking is off where the system may stop for good: the device is
gone and every handle closed, or the bound on core operations is used up with
every process done. `MC_Turns` has no such state and checks it. Symmetry of the
processes is used only in runs with no liveness property (`LifetimeSpec` is a
property of steps, and the same for every naming of the processes).

**Fairness** (`FairSpec`). Every thread that can go on does (weak fairness of a
process's own steps, of the work items and of the core). The kernel's mutexes
are queued, so a process waiting for one is served: strong fairness of
`LockStep`; likewise the core, which waits for `rlock` and `wlock` between other
users. The host controller completes every control transfer, with an error if
need be, and the interrupt URB once it is cancelled. Nothing is assumed of
users, who need not call and may be interrupted, or of the device, which need
not notify. `KeenSpec`, for `AnnouncedIsFetched` alone, adds readers that go on
reading and are not interrupted for ever: the driver fetches only what somebody reads.

**Limits of the liveness runs.** `DisconnectEnds` is checked without a WWAN
port. With one it does not hold: the disconnect takes the port's `ops_lock`
under `wdm_mutex` (1267), `wwan_port_start` takes them the other way round
(883). `AnnouncedIsFetched` is checked without suspends and without transient submission
failures: under `SUSPENDING` a notification sets `RESPONDING` and submits
nothing (351-354), and a second notification between the ENOMEM of 364 and
`rxwork` makes `rxwork` do nothing (1031-1034). Both are listed as hazards.
An empty read leaves `iuspin` locked (below), after which nothing returns.
The liveness runs therefore keep away from it: `WritesReturn` has no reader,
and the runs with readers draw answers of one or two bytes and cancel the
response URB in no way but the disconnect. A suspend, or the close of another
handle, that cancels it is enough for an empty read.

### Where the code and its comments disagree

`MC_EmptyRead` expects a violation: a stall "is better handled as an empty
read" (243-245), but `wdm_read` leaves that branch with `iuspin` locked
(633-641).

Three more comments are not kept to the letter, and no run is spent on them:

* "stop TX until URB completion" (955): TX is stopped after the submission, and
  the completion may come before that. TX then stays off until the next one.
* "unblock read" (1374): a reader past its copy clears `READ` again (662), and
  the next one sleeps on a pending error.
* "the spinlock makes sure no new urbs are generated in the callbacks" (1269)
  holds for the response URB only: `wdm_int_callback` resubmits its own URB at
  373 without a look at the bit, and the poisoning of 1277 is what ends the polling
  (`StillAfterDisconnect`).

Also seen, and in no property: a failed submission sets `resp_count` to 0 and
forgets what was owed (558).

`StreamInOrder` and the others are checked with the stall and the empty answer
among the device's answers where the run's question includes them; a process
that has left with `iuspin` stays its owner and everything that needs the lock
stops, as it does in the kernel.

## 5. cdc_ncm

| module | models |
|---|---|
| `NcmParams` | the sizes: choice of altsetting and endpoints, `cdc_ncm_init`, `_check_rx_max`, `_check_tx_max`, `_update_rxtx_max`, `_set_dgram_size`, `_fix_modulus`, `_setup`, as functions of the context and the device |
| `NcmBlock` | `cdc_ncm_fill_tx_frame` with `_align_tail`, `_ndp16`, `_ndp32`, and `cdc_ncm_rx_fixup` with `_rx_verify_*`, as functions of the context and a block |
| `Ncm` | bind and unbind, transmission with timer and tasklet, the sysfs stores and MTU change, `cdc_ncm_status`, over these functions |
| `MCNcm` | devices and received blocks for TLC |
| `Ncm_proofs` | theorems: sizes, unbind, carrier; where every frame is, types, nobody stranded |
| `NcmBlock_proofs` | theorems: the layout of a block, no frame dropped that has room, what the reader makes of a block |

**State.** `ctx` is the negotiated part of `struct cdc_ncm_ctx`, field by field;
`tx` the transmit part: `cur` the block being filled (`tx_curr_skb`), `rem` the
frame that did not fit (`tx_rem_skb`), `delayed` whether the table kept for the
end (`delayed_ndp16/32`) is in use, `lowVal` and `lowMax` the counters of the
low-memory mode. A block is its length, the index in its header (`ndp`), where
its table really is (`table`, which differs while the table waits for the end
and after a change of `ndp_to_end`) and the place and length of each datagram: no
payload. What a stale index leads to, bytes of no table, is read as no table. `pending`, `timer`, `sched` and `bh` are `tx_timer_pending`, the hrtimer
and the tasklet; `sysfs` says that a store has dropped the tx lock and not yet
updated `min_tx_pkt` (460, 471). `out`, `sent`, `issued`, `tx.dropped`, `tx.starved`
(an allocation has failed), `tx.turned` (`ndp_to_end` has changed under an empty block with an
index), `up` and `link.since` are history.

**Grain.** A call of `cdc_ncm_fill_tx_frame` is one action: every caller holds
`netif_tx_lock`. The tasklet has an action before and after 1480, between the
test of `stop` and the start of the timer; unbind has one for each of
`stop`, `hrtimer_cancel`, `tasklet_kill` and the freeing; a store has two.

**Numbers.** Sizes are integers; `min_tx_pkt` is kept modulo 65536, since
`clamp_t(u16)` truncates; the subtraction of `cdc_ncm_ndp16` is unsigned and wraps
(`WithTable`). A received table is the offsets and lengths of its entries; bytes
that are no table read as one without signature.

| run | size | checks |
|---|---|---|
| `MC_NcmSend` | 4 devices, frames of 510 and 1514 bytes, stores of `tx_max` (1552, 1657, 2048), the timer, `ndp_to_end` and the MTU, 4 of all these, allocations that fail; 1.0 million states | `TypeOK`, `FramesAccounted`, `BlockWellFormed`, `ReadBack`, `NothingDropped`, `NeverStranded`, `UnbindQuiet`, `CollectedIsSent` |
| `MC_NcmReceive` | the same devices, 20 blocks sound and damaged, in both formats, stores of `rx_max` and `min_tx_pkt`, notifications whole, halved, lost and short, 2 of all these; 0.3 million states | `SizesAgree`, `Delivered`, `CarrierFollows` |

`Delivered` says of a block that conforms to the specification (`Conforming`) that everything its
tables announce comes up in order, as far as memory goes, and of any other that nothing comes up but frames
that lie in it. `SoundBlocks`, which TLC evaluates, ties the names of the 20 blocks to `Conforming`.

The four devices have the sizes at which the negotiation branches: one small,
one with wide alignments and MBIM beside NCM, one that breaks the alignment rules
and leaves the number of datagrams open, one without a bulk OUT endpoint. Two
full frames overflow a block of 2048 bytes, so 4 events reach a frame kept over, a
flush and a resize in between. `LoopMax` is the 50 of the source.

`FairSpec` says that a running hrtimer fires and a scheduled tasklet runs; the
stack need send nothing more. `CollectedIsSent` rests on these two alone.

The three sizes are one below a full frame with its alignments, one
at which the last table loses its alignment, and one with room.

**Guards of the properties.** `NothingDropped` is about steps: a frame is
dropped only after an allocation has failed, or in a block smaller than one
largest frame with header, table and every alignment (`BlockSize < Needed`).
`cdc_ncm_check_tx_max` computes its minimum without the alignments (177-191), so
that a store of such a `tx_max` is accepted and then full frames are dropped
(1321). `NeverStranded` excuses an allocation that failed: the frame then waits in
`tx_rem_skb` without a timer (1464-1473) for the next frame. `BlockWellFormed` has two
exceptions, where the code does not do better. A table at the end of the block
may miss its alignment when it ends exactly with the block: the room kept for
it (1219-1223) is reckoned from the end of the last frame, and a frame that found no
room has already moved that end by its own alignment (1314). And the header may not
lead to the table after `ndp_to_end` was changed under an empty block in which a frame
had found no room: the store flushes (342-344), but an empty block is not sent
(1384), so that its index stays. `ReadBack` leaves out the blocks after such a change; its reader takes
blocks of the size that was built, and sees of their length the 16 bits that `wBlockLength` has (1442).

**Seen on the way**, and kept in the model as the code has it: `min_tx_pkt` is
updated (471) after the lock is dropped (460), although 470 says that the tx lock
protects it; "send immediately" of 1258-1261 does not set `ready2send`; the first
`check_tx_max` of `cdc_ncm_setup` still sees a `max_datagram_size` of 0; shrinking
`tx_max` (462) leaves the current block at its old size; `ndp_to_end_store` compares a
bool with bit 2 to find that nothing changes; an allocation that fails in the middle of a received
block reports failure after part of it went up (1812-1813); 50 loops allow 51
tables; the device is told of the larger input size (417-430) before URBs of that
size are posted; a half speed change that was lost swallows the next
notification (1861). The tasklet between 1480 and 1481 may start the timer again
after `hrtimer_cancel` of the unbind (1003); `UnbindQuiet` speaks of the tasklet
for that reason.

## 6. dummy_usb and soft-rdma

`Udc` (with `MCUdc` and, for the theorems, `Udc_proofs`) models the device controller. An action is a
critical section of `dum->lock`, or what a thread does between two: `pc` says
that a thread of the gadget driver, the poll thread or the core is between the
check and the addition of `dummy_queue` (281-285), or calls a request's completion with
the lock dropped. `setup` and `usage` are the setup callback in hand and
`callback_usage`; `phase` is the core's way through start, pullup and stop; `life`
the stages of probe, with its error paths, and remove. A queue entry is the request, its number and whether it
was checked too early (`late`); `fifo` tells whose bytes `fifo_req` has. Datagrams
may be lost, repeated and reordered: any packet may come next. `MC_Udc` has two IN
endpoints beside ep0, which compete for the one `fifo_req`, two requests (one too
long to be copied) and 3 accepted calls of `dummy_queue`: 2.6 million states, and
deadlock is checked.

`Hcd` models the root hub port: the events of the device's end in any
order, the requests of the hub driver, `bus_suspend` and `bus_resume`, which read
and write the port without the lock. `MC_Hcd` has no bound: the 6,700 states are
all there are.

`Rdma` models both programs of soft-rdma, call by call, with every call that may
fail, kills at any point and the adapters in between (external). A cleanup releases one resource
after the other (`FirstHeld`), and other steps may come in between. `MC_Rdma` covers
all combinations of failures, 10,700 states.

`Hcd_proofs` and `Rdma_proofs` hold the theorems about the two.

| run | checks |
|---|---|
| `MC_Udc` | `HeldOnce`, `BytesKept`, `NothingStranded`, `CallbacksDrained`, `ClosedLast`, no deadlock |
| `MC_Hcd` | `ChangeReported`, `PortFollows`, no deadlock |
| `MC_Rdma` | `ReleasedInOrder`, `EarlySendWaits`, `ReportsAgree`, `BothEnd`, no deadlock but the end |

`FairSpec` of `Rdma`: a program that can go on does, and the adapters deliver,
acknowledge and give up. A server that waits for a message that will not come
polls for ever, which is a behaviour of the code (265-268), so `BothEnd` is about
runs without a failure, a kill or a late server.

**Seen on the way.** Device controller: the checks of `dummy_queue` precede the lock
(281-285), so a request may be added to an endpoint that was disabled
or a controller that has stopped, and stays there (`NothingStranded` names exactly
these); a SETUP that comes after `pullup(0)` finds no driver (673-676;
`CallbacksDrained` is about those that came before); `set_wedge` passes 1, so that `wedged`
is never set (376); `dummy_dequeue` returns early without restoring the irq flags
(339); GET_STATUS leaves `fifo_req.buf` on the stack (597-598), the excuse
in `BytesKept`; the length sent is `actual`, always 0 (654); `uoe_recv_packet`
ignores its timeout, so that `remove` waits for a packet. Port: `bus_suspend` and
`bus_resume` may lose an event (372, 380), the excuse in `PortFollows`; CONNECT
sets no change bit (141-145), so that the hub driver is not told; a datagram that
is too short repeats the last event (128-136); nothing sends RESET_DONE. soft-rdma:
an empty device list is not freed (88-90), the excuse in `ReleasedInOrder`; an
unchecked `recv` leaves stack contents in `remote_info`; the exit code is always 0; the
client's retries may end before the server is ready to receive.

## 7. What is proved

For all values of the constants that the named assumptions of the modules
(`ConstantsAssumption`, `NcmAssumption`, `UdcAssumption`, `RdmaAssumption`) allow: these give the
constants their types and name no size of theirs. `NcmAssumption` says besides that every frame has its
Ethernet header (14 bytes), `RdmaAssumption` that only calls fail whose result the programs look at; `Hcd` has
no constant. A theorem with a further assumption has it in its
statement, and here.

**cdc-wdm**, any set of processes, buffer size, faults, answers and core operations, with
or without a WWAN port.

*Types and bytes* (`CdcWdm_proofs`)

* `TypeCorrect`: `Spec => []TypeOK`, with `Len(ubuf) <= wMaxCommand`.
* `CopyNeverExceeds`: `Spec => []CopyBounded`.
* `BytesInOrder`: `Spec => []StreamInOrder`, if there is no WWAN port and the core never resets.

The first two rest on `Invariant` (`Spec => []IInv`). `TypeOK` alone is not
inductive: the trim of 656-659 needs `cntr[p] <= Len(ubuf)`, which only holds because
nobody else removes bytes between a reader's copy and its trim. `IInv` therefore adds
`CopyBounded`; `Owners`, which says where a reader holds `rlock`, a writer
`wlock` and the core both; and `CoreAgrees`, which says what the core is about at
each of its places. The proof has one step per action; actions with a wide
effect have one step per part (the lemmas `...ByPart`).

For the order of the bytes `OrderInv` adds what lies between the last byte copied and the
next one the device will send: the buffer has no gap but those an ENOBUFS covers
(`NoGap`), its first byte follows the last copied (`Front`) or, between copy
and trim, the copied ones lead it (`Copied`), and the next byte sent follows the last kept
unless `WDM_OVERFLOW` says otherwise (`NextFollows`). Both
assumptions are needed: `post_reset` clears `WDM_OVERFLOW` before a reader was told (1394),
and the port takes its bytes past `ubuf` (1002).

*Life* (`CdcWdmLife_proofs`)

* `LivesAsPromised`: `Spec => LifetimeSpec`, the refinement of `WdmLifetime`.

It rests on `LInv` besides: `count` is the number of handles; the
device is alive as long as it is listed or has a handle (`LivesOn`);
`DISCONNECTING` is set from the core's flag section on, so that it tells
a release that has `wdm_mutex` whether the device has left the list (`Unlisted`);
and `wdm_mutex` keeps opens, releases and the disconnect apart
(`WdmOwned`), so that no open passes its check of 771 and counts itself at 792 with the end of
the disconnect in between. Only `OpenCount`, `ReleaseCount` and `CoreEnd` are steps
of the abstract device, all others stutter.

*Quiet and modes* (`CdcWdmLife_proofs`)

* `StillGone`: `Spec => []StillAfterDisconnect`.
* `SleepsQuietly`: `Spec => []AsleepQuiet`.
* `ModesExclude`: `Spec => []ModeExclusive`.
* `NobodyPolled`: `Spec => []NoOrphanPolling`.
* `FilesHear`: `Spec => []DeviceHeard`, if submissions do not fail for lack of memory
  (`SubmitFaults = {}`, as in `MC_Life`: the driver does not retry a resubmission that failed, 373-378).
* `FreedIsForgotten`: `Spec => []NoUseAfterFree`.

`poison_urbs` bars one URB after the other and waits for each, and up to three threads
may be in it at once. `QInv` counts who bars what (`PoisonKnown`); what has been
waited for is quiet (`DrainedQuiet`) and stays so whatever the handlers and work
items still do (`Traffic`, a lemma about their steps); `cancel_work_sync` comes after,
when nothing is left that could queue a work item again (`WorkDone`); hence a sleeping device
is quiet (`Power`). `OpsOwned` says when the port's thread holds `ops_lock` and that only a started
port is removed. `MInv` is about who may use the device: a started port, or one whose
start failed, keeps opens out until the core has removed it (`PortMode`,
`Removed`); only the last release stops the URBs (`CloseMode`); polling for nobody happens only
under the release that will stop it, also when a resume counted a file that is gone (`Polled`);
open files are polled for except where the core will submit again (`Heard`).
`LocksHeld` is the converse of `Owners`: a mutex that is held has a holder
who is still inside, so that nobody waits in a freed device.

*The response URB* (`CdcWdmUrbs_proofs`)

* `OneSubmitter`: `Spec => []ResponseExclusive`, under `Undisturbed`: the interrupt endpoint
  does not stall, no answer is an error (EPROTO), nobody closes, the core does not
  reset, there is no port. Submissions may fail for lack of memory, the device may be suspended
  and disconnected, answers may be empty or a stall of the control endpoint (EPIPE).
* `NobodyForgotten`: `Spec => []NotificationAttended`, under `Reliable`: submissions do
  not fail for a reason of their own (`SubmitFaults = {}`), the core neither suspends,
  resets nor disconnects, there is no port, and the interrupt endpoint does not stall or nobody
  closes. Answers may be of any kind, errors among them, and files come and go.

Neither holds without its assumptions, and TLC finds a violation without any single
one of them: `service_outstanding_interrupt` does not look at `RESPONDING` (531-549),
so that a submission whose author it has forgotten, or which `rxwork` makes after a
stall, meets its own; and a notification that finds another one owed, or a suspend, sets
`RESPONDING` and submits nothing (352-359), although the submission it relies on
may have failed (364) or been cancelled. What a failed submission gives up (558) is not owed
any more, and `NobodyForgotten` says nothing of it. `MC_Turns` satisfies both sets of
assumptions.

`TInv` says that the right to submit is with at most one of the URB, the readers (`READ`
set), the reader that drained the buffer, `rxwork` and an interrupt callback that failed
(`Turn`), that whoever has it except the readers finds `RESPONDING` set and `ubuf`
empty, and that with `resp_count` 0 nobody has it: the callback of 352 may then take it. `PInv`
says that what is owed is pursued, or at the readers or with
`service_interrupt_work` (`Sought`), and that a `RESPONDING` at which a notification
would stop is backed by a submission (`Kept`). The second uses `QInv`: a notification comes while
the interrupt URB polls, so nobody has poisoned the response URB (`ResponseLast`), and
`rxwork` runs while no close can have done so (`Unbarred`).

*Commands and references* (`CdcWdmUrbs_proofs`)

* `CommandsExclude`: `Spec => []CommandExclusive`.
* `BuffersOwned`: `Spec => []OutbufOwned`.
* `ReferencesBalance`: `Spec => []PmBalanced`.

`IN_USE` alone does not give the first two, since `pre_reset` clears it under a command
in flight. `CInv` adds that such a command is known by `IN_USE` or by
`RESETTING`, and that a writer that found `IN_USE` clear still finds it so
(`BusyKnown`), that a completion handler under way means the URB is idle
(`OneCommand`), and that a reset has cancelled the command before `post_reset`
clears `RESETTING` (`ResetQuiet`). The port does not look at `IN_USE`: a write's
command is in flight only for an open file or under the release that cancels it (`Sent`), the
port's only under `WWAN_IN_USE` (`PortKnown`), and `PortMode` excludes one from the
other. Actions that touch nothing of this share one frame lemma
(`CommandAside`). A reference is taken or put by the action that
makes or ends its holder, which `PmStep` says of every action.

**cdc_ncm**, any devices, frames, stores, blocks and failures:

* `SizesAlwaysAgree`: `Spec => []SizesAgree`. The invariant `SizesInv` adds that the
  URB size is `rx_max`, that both are numbers, and that the device is known once
  bound; one lemma for each function of `NcmParams` that a bind or a store calls.
* `UnbindEndsQuiet`: `Spec => []UnbindQuiet`. `QuietInv` adds that `stop` is set
  from the first step of the unbind on, which is what keeps a late timer from
  scheduling the tasklet again (1486-1494).
* `CarrierRecovers`: `Spec => []CarrierFollows`. `LinkInv` adds that the driver waits
  for a second half only where the device has one to send, once no half was lost since the
  last announcement.
* `NoFrameLost`: `Spec => []FramesAccounted`. `FramesInv` says of a call of
  `cdc_ncm_fill_tx_frame` where each frame is at any point of it: sent, in the
  block, kept, dropped, or in the hand of the call, which has up to two, in the
  order of their numbers (`Accounts`). A turn of the loop moves one frame out of the hand.
* `TypesCorrect`: `Spec => []TypeOK`, from `SizesInv`, `FramesInv` and
  `PendingInv`.
* `NoFrameStranded`: `Spec => []NeverStranded`. `WaitInv`: while the net device is up,
  what is collected or kept has the timer, the tasklet scheduled or the tasklet running,
  unless an allocation has failed. What stops one starts another or has flushed.
* `BlocksWellFormed`: `Spec => []BlockWellFormed`. `BlocksInv` has what the negotiation
  leaves of the alignments, which no store changes (`Geometry`, `RemainderGood`), and what holds
  of the block being filled: datagrams within it, aligned, apart from each other
  and from the table, and, if more may come, room for the table that is still to be
  written (`Roomy`). What `FinishBlock` makes of that is `OutGood`.
* `NoNeedlessDrop`: `Spec => NothingDropped`. `SpareInv`: no frame is longer than the
  device's largest datagram, whatever MTU is set, and a block that still has nothing
  but its header and tables has spent no more than `Needed` allows (`Ample`).
* `BlocksDelivered`: `Spec => []Delivered`. The tables of a block may be any number, of any
  length, and may point anywhere. `RxRun` says what the turns of the reader's loop are, and each is followed beside
  what the chain announces: in a conforming block the reader stands where the announcement
  does and has taken what it says, until memory ends. The induction over the turns is one
  on a set of numbers, from the well-foundedness of `<` (`Induct`): the sets are
  definable without an operator as parameter, so this recursion, unlike one over
  arbitrary data, is within reach.
* `FormatAgrees`: `Spec => []ReadBack`. What `BlocksWellFormed` leaves of a finished block makes it conform
  once received (`OutConforms`), its one table announces its frames (`Listed`), and so the reader takes up
  all of them. The 16 bits of `wBlockLength` are no obstacle: a
  length that is cut short still passes the test against `rx_max`, and nothing else looks at it.

**dummy_usb**, any endpoints and requests (`Udc_proofs`):

* `PullupDrains`: `Spec => []CallbacksDrained`. `CallbackInv` adds that
  `callback_usage` counts the callback under way, that only a core that is up has the pullup
  on, and that the driver is there until the stop is over, through
  the give-backs in which the lock is dropped.
* `SocketsLast`: `Spec => []ClosedLast`. `LifeInv` says for each stage of probe and
  remove what exists in it.
* `RequestsHeldOnce`: `Spec => []HeldOnce`. `HeldInv` has each request in one place: with its
  owner, in one queue once (`OneQueue`), or in one thread's hand while the lock is
  dropped (`OneHand`), and every one somewhere (`Somewhere`).
* `QueuesKeepOrder`: `Spec => []BytesKept`, with the numbers of the requests bounded by
  those given out (`NumberedInv`).
* `QueuesEmptied`: `Spec => []NothingStranded`. `StrandInv`: an endpoint that is disabled, or a
  controller without a driver, has only late requests or a thread that still has to
  empty it; a core that stops has all those in its hand.

**dummy_usb**, the root hub port (`Hcd_proofs`):

* `HcdTypes`: `Spec => []TypeOK`.
* `ChangesAreReported`: `Spec => []ChangeReported`. `CopyHasNoNewChange` adds that what
  `bus_suspend` or `bus_resume` has read and will write back shows no change that the port does not.
* `PortFollowsEvents`: `Spec => []PortFollows`. `CopyIsFresh` adds that such a copy agrees with
  the last event, unless one has come in between, which `PortFollows` excuses.

**soft-rdma**, any set of checked calls that may fail, with kills or without (`Rdma_proofs`):

* `RdmaTypes`: `Spec => []TypeOK`.
* `CleanupInOrder`: `Spec => []ReleasedInOrder`. `HeldInv` says that at each step a program holds exactly
  what the steps before it made (`OnWay`), that what it holds is closed: with a resource it holds those that one was
  made from (`Tidy`), which the order of the cleanup keeps, and that a program that has ended holds
  nothing but the empty device list (`Empty`).
* `ReportsOfTheMessageAgree`: `Spec => []ReportsAgree`. `MessageInv` says where the message is at each step
  of both: the queue pair's state is the program's (`QpOnWay`), a delivered message
  found the server's receive request, and the server does not end before the client is told.
* `EarlySendsWait`: `Spec => []EarlySendWaits`. `SmoothInv`: while nothing has failed, the two
  programs keep step through the exchange, so that the server will post its
  receive request, and no send gives up.

## 8. Only model-checked

Every invariant and every action property of the passing runs is a theorem of section 7. What
is left to TLC is liveness, which is out of the prover's reach: `WritesReturn`, `AnnouncedIsFetched`,
`DisconnectEnds`, `CollectedIsSent`, `BothEnd`; and that the modelled system does not deadlock.
Four theorems of cdc-wdm are under assumptions about the environment that their statements name
(`BytesInOrder`, `FilesHear`, `OneSubmitter`, `NobodyForgotten`); each is there because the code needs it.
What a recursive definition computes is proved only for the turns of the reader's loop, as said above.

## 9. Mutants

Every property of a passing run has an operator, marked VARIANT or defined before
the definition it replaces, that puts a plausible mistake in that
definition and breaks the property: `PROJECT.json` lists them under "mutants".

## 10. Not modelled

* cdc-wdm: `probe`, `create` and the descriptors. `Init` is the state they leave; a
  probe that fails leaves no device.
* virtual_pcie: `vpci_rx_thread` never fills the header of a packet, so
  `vpci_packet_process` rejects every one, and no handler, register access or completion is
  reached; when the connection is lost the thread stops itself
  (`virtual_pcie_net.c:201`, 105) and waits for ever.
* soft-dma: no descriptor has a `tx_submit`, which dmaengine calls through: the
  first transfer ends in a null call, and the list from which the copy thread takes its
  work is never filled.
* sketh: `sketh_configure` does not set up the rings it fills and the DOWN bit is
  never cleared, so that no state exists in which the ring indices move.
* fake_autosuspend: its debugfs file has no `open`, so that reads and writes use
  a null pointer, and the PM callbacks are not attached.
* dummy_usb: the URBs of the host controller, because `uoe_hcd_urb_enqueue` links an
  URB by the node that the USB core has just put into another list (219, 223), after
  which nothing is defined; the ends of its threads, which are stopped twice (480-485,
  194-201) or are an error pointer (452-465); sending, because the addresses to send to are
  never set. Module load and unload: `err_add` leaves the driver registered.
* soft-rdma-ok: the same exchange by `rdma_cm`, with error paths that release
  twice or jump over initialisations.
* kprobe_carrier_on, libusb-test, dbus/network-manager, debug tools: sequential
  programs without a state that outlives a call; gadget_win_driver has no program.
* Statistics, ethtool, sysfs shows, poll and ioctl only read.

A model of a component in the second to fifth item would be one of the program
it was meant to be, not of the code that is there.

## 11. Plan

What is left are the hazards without a property: the port's lock order (1267), the interrupt URB
of a port that slept (1338), a notification during a suspend (354), ENOMEM before
`rxwork` (364). Each needs a statement of what is promised, which the source does not
make.
