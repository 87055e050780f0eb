# Verification of mt6572-connsys-modules

TLA+ models, TLC model checking and TLAPS proofs for the CONSYS driver stack in
this repository.  Paths below are relative to `src/`.

## 1. The system

The MT6572 has a connectivity subsystem (CONSYS) with its own MCU.  The host
talks to it over a serial FIFO (BTIF); STP multiplexes Bluetooth, GPS, FM and
WMT (control) over it; WMT starts and stops the functions, puts the chip to
sleep and restarts it; the Wi-Fi driver has a FIFO of its own and uses WMT only
for power.

| Component | State | Operations | Shares with |
|---|---|---|---|
| PSM (`conn_soc/core/psm_core.c`) | work state ACT / ACT_INACT / INACT / INACT_ACT, flag word, hold FIFO, op queues, idle timer, thread psmd | data in and out, SLEEP, WAKEUP, HOST_AWAKE, enable, disable, reset | STP data path, wmtd, BGF interrupt |
| Power-save policy (`wmt_lib.c`) | `gPsEnable`, `gPsHold`, `gPsOpBusy`, `gPsPolicyLock`, `psm_lock` | op bracket, hold, release, ps_ctrl, ps_enable, ps_disable | every op caller, Wi-Fi, GPS, wmtd, PSM |
| WMT ops and reset (`wmt_lib.c`, `osal.c`, `btm_core.c`) | 16 ops, free and active queue, current op, per-op completion, RST_ON | get, put and wait, wmtd, whole-chip reset | all callers, wmtd, BTM, PSM |
| WMT functions (`wmt_core.c`, `wmt_func.c`, `wmt_ic_soc.c`) | status per function, shared LDOs, desense bits | on, off, power, hardware and software reset | wmtd, STP |
| STP link (`stp_core.c`) | sequence numbers, window, TX timer, parser, receive rings | send, receive, ack, retransmit, ready/enable | BTIF, PSM, drivers |
| BTIF (`btif/`) | enable, state, users, DMA virtual FIFOs with their wrap bits, receive ring, completion, receive callback | open, close, register callback, write, DMA interrupt, thread btif_rxd | STP's parser, wmtd |
| Nodes (`conn_soc/linux/pub`) | open and reset flags, wait queues | open, read, write, close, reset callback | WMT, STP |
| Wi-Fi station (`wlan/mgmt`) | AIS, scan, SAA and roaming FSMs, pending requests, message box, timers, station records, channel privilege | user requests, messages, firmware events, frames, timeouts | firmware, OS, P2P, each other |
| Wi-Fi data (`wlan/nic`) | reordering windows, transmit queues, resource counters, command queue | frames, block-ack set-up and end, TX done | firmware, network stack |
| Wi-Fi P2P/AP and glue (`wlan/mgmt/p2p_*`, `wlan/os`, `wlan/common`) | P2P FSM, netdevs, OIDs | cfg80211 calls, firmware events | AIS, scan FSM, WMT |
| FM (`fmradio/`) | power state, command flags, RDS buffers | power, tune, scan, RDS event | STP, WMT |
| Tools (`tools/`) | - | launcher, bridges, scripts | nodes |

What makes it hard is that almost everything is cross-thread: psmd, wmtd, the
BTM thread, the STP receive worker, interrupt handlers, the callers and the
Wi-Fi worker change the same few variables, some under a lock, some without;
waits have timeouts after which the waiter goes on and the late answer still
arrives; and a whole-chip reset can start at any point of all this.  The Wi-Fi
FSMs run on one thread, but everything they ask for is answered later, through a
message box or by the firmware: what was asked, cancelled, answered and timed
out crosses on the way, and a number or a flag decides what an answer is for.
What is correct for each part is said with its module in section 2, and the
places where it is hard are the hazards of `PROJECT.json`.

## 2. Modules

| Module | Models | Runs |
|---|---|---|
| `StpPsm` | the PSM with its data path, wmtd's sleep and wake exchanges, the chip's side of them, the wake interrupt, enable/disable, timeouts and the reset | `psm`, `psm_reset` |
| `StpPsmProofs` | theorems about it: blocking, wake commands, clean-up, order, the sleeping chip | |
| `WmtPs` | the power-save policy and the op bracket around it | `ps` |
| `WmtPsProofs` | theorems about it | |
| `WmtOp` | the op pool, the active queue, wmtd, waits that time out, and `wmt_lib_cmb_rst()` | `op`, `op_two_resets` |
| `WmtOpProofs` | theorems about it: the pool, whose answer it is, the reset | |
| `WmtCore` | function on and off, chip power, shared supplies, the reset's effect on them | `core` |
| `WmtCoreProofs` | theorems about it: types, chip power, supplies, what the functions share | |
| `LinkChannel` | what the STP link promises: two FIFOs with a bounded window | |
| `StpLink` | the STP window protocol of host and chip, its timer, parser and receive ring | `link` (through `MCStpLink`, which holds the bounds) |
| `RxPipe` | what BTIF promises STP of the bytes it receives | |
| `Btif` | the receive path of BTIF from the DMA engine to the parser, and open, close and write | `btif` |
| `BtifProofs` | theorems about it: life cycle, virtual FIFO, ring, the pipe | |
| `AisFsm` | the station state machine with roaming, its timers and what it asks of the scan FSM, the firmware and SAA | `ais` |
| `AisFsmProofs` | theorems about it: what the OS is told, the channel, joins | |
| `ScanService` | what the scan FSM promises its requesters | |
| `ScnFsm` | the scan FSM, its requesters and the firmware | `scn` |
| `SaaFsm` | authentication and association with a station record that comes and goes | `saa` |
| `ScanJoinProofs` | theorems about these two: no scan is lost, one at a time, in the order taken, whatever their numbers; a join is moved on, a connection has its record | |
| `RxReorder` | receive reordering under one block-ack agreement | `reorder` |
| `SnCircle` | the sequence numbers it uses and their comparisons | `reorder` |
| `SequenceProofs` | theorems about the two circles of numbers: the window and the channel of `StpLink`, the comparisons of `SnCircle`, the order `RxReorder` keeps | |

They are not composed into one state machine: each one replaces what it uses of the others by a
choice.  `StpPsm` has wmtd as a queue, `WmtPs` the PSM as the state its
callers wait for, `WmtOp` the ops as success or failure, `WmtCore` the commands
as success or failure and a reset as HW_RST and SW_RST with nothing in between
(which `WmtOp` shows), `StpLink` the time between two resets.  `Btif` ends where
`StpLink`'s parser begins.  `AisFsm` has scans, channel requests and joins as
requests that are answered or aborted; `ScnFsm` and `SaaFsm` are the insides of
the first and the last.

### StpPsm

Variables follow the C structures: `state` is `work_state`, `flag` the flag
word, `fifo` the hold FIFO, `opq` the active op queue of psmd, `wmtq` wmtd's
queue, `pcD`, `pcW` and `pcJ` where psmd, wmtd and the caller of enable/disable
are.  `wire` and `next` number the data packets, so that order and loss can be
stated.  `chip` is the firmware: asleep, awake, `woken` (it raised its wake
line and waits for the exchange) or dead.  One action is one stretch of code
under one lock, or between two points at which another thread can see a
difference.  psmd's handler is split at the points where it tests
`DISABLE_MONITOR`, sets the state, queues the op to wmtd and finds the answer.
The firmware's own behaviour (it answers a sleep or wake command, raises its
line, dies) is taken from how the driver uses it.

Simplified: deep-idle and the TX-timeout paths of STP that call psm_disable are
left out; the interrupt handler is one step.  `BackUp` says that psmd does not
stand between two of its own steps through the seconds of a chip start.  Without
it the clean-up loop can be given a queue it does not terminate on.

### WmtPs

Variables carry the names of the statics (`psEnable`, `hold`, `opBusy`), `policyLock` and
`psmLock` name the owner.  Each `mtk_wcn_stp_psm_enable/disable` is split in its
start and its end, because it may wait seconds for ACT with `gPsPolicyLock` held
while all other threads go on.  The PSM is reduced to the state its callers wait
for.  wmtd's own use of the policy is modelled inside the ops that make it:
Wi-Fi remove (`wlanStop`), chip init and deinit, STP ready.

### WmtOp

An op is in the free queue (`free` counts how often, so that a double return
shows), with the thread that took it (`has`), or on its way without a waiting caller.
`pc` follows callers and reset contexts, `wmtd` the thread: it takes an op, tests
`rstOn` (WMT_STAT_RST_ON), sets `cur` (pCurOP), executes and reports, in five steps
that everything else can fall between.  `res` and `sig` are the op's result and its
completion; a wait ends by the signal or by the timeout.  The reset reads
`cur` in one step (`RstPeek`) and answers it in the next (`RstRaise`), as the
code does without a lock; then it drains the queue, and puts GPIO_STATE, HW_RST
and SW_RST through the same pool and queue, with retries.  `chip`, `did` and
`before` are there only for the properties.  `ResetWakesAll` says of a thread that
waited when the reset began that it has its answer once that reset's HW_RST is done; the
thread that resets is told by `HwDone`, because a later reset of the same thread has a
HW_RST of its own (which a run with one reset cannot tell apart, and the proof could).

One assumption: a thread that still refers to an op it has lost does not see it
come out of the free ring again (`Usable`).  The code has the assumption too, as
the ring of 16 hands out the oldest op first, but nothing enforces it.

### WmtCore

wmtd runs one op at a time, so `pc` walks through one op; every command to the
chip may fail.  `sts` is `eDrvStatus`, `pwr` WMT_STAT_PWR, `vcn18`, `vcn28` and
`vcn33` the enable counts of the regulators, `gpsFm` and `radios` the static bit words of
`wmt_func.c`.  Both clock configurations and both LNA configurations are
initial states.  `why` records why an unused chip stayed powered. Five more history variables let
`SharedExact` hold through failures and resets instead of stopping at the first:
`railLeft` and `radioLeft` are the bits that a reset or a failed off left in the two
words, `cold` says that VCN28 was off when its user relied on such a bit, `forgot`
that a failed function on cleared the words without a message to the GPS daemon,
`gpsFailed` that the last command to GPS failed. Each is taken back by the operation
that repairs what it records (the next use of the bit, the last user's off, the next
message, the next command to GPS), so the property speaks again of the states after.  The chip start
(`wmt_core_stp_init()`, `wmt_ic_soc.c`) is one step that succeeds, fails before
STP is open or fails after it.  The type COREDUMP is turned on by a failing BT
command and off by a reset only.

### StpLink

Both ends run the same operators over per-side variables named as in
`stp_core_ctx.sequence`; the chip's end is external and taken to mirror the
host's.  An item on a wire is a packet, an ack or a resync pattern; `Lost` drops
the next one, `Damaged` is a checksum or CRC error, which purges what was read
and leaves the parser in RESYNC1 until the next pattern.  The timer only queues
an op for the BTM thread (`retryOp`), which runs later, when acks and sends may have
changed everything.  `txbuf` and `log` carry packet numbers so that order,
gaps and repetitions can be seen.  `Enqueue` has the three outcomes of a packet
in sequence: stored, refused by a full ring, dropped for an inactive function.
`LinkChannel` is the abstract specification; `IsChannel` is the refinement,
with `log` for what was taken and the packets before `rxack` for what is confirmed.

### Btif and RxPipe

An offset of the virtual FIFO is kept with its wrap bit as a number below twice
the size, so `Held` is the difference the hardware knows, while `RealLen` is
computed as the handler does, from the offsets and `last_wpt_wrap`.  The handler
is split where btif_rxd on another CPU can see a difference: `IrqTake` reads
WPT, `IrqWrite` copies a chunk and sets `wr_idx`, `IrqCheck` is the test at
`mtk_btif.c:2630` that resets the ring, `IrqEnd` completes `rx_comp`.  btif_rxd is
split into its look at `wr_idx` (`Look`), the calls of `rx_cb` (`Hand`, `Rest`)
and its write of `rd_idx` (`Advance`).  Bytes carry the number the chip sent
them under, which is how order, loss and repetition can be stated.

`RxPipe` says what STP may expect: the bytes in order, each once, dropped only
at the limit of the ring or while no callback is registered.  A reset of the
ring in the middle of a pass of btif_rxd makes the pipe `dirty` (`hurt` in
`Btif`): the code has no lock there, and until the ring is whole again STP gets
rubbish.  `IsPipe` shows that this is the only way, `RingInv` that no chunk is cut,
no length below zero is computed and no byte is left asleep.  Sizes are taken with
`%`, so they need not be powers of two as `BBS_MASK` asks.

wmtd's open and close, the registration of the callback and a writer are
actions; the state mutex is in their guards.  `revived` marks the one exception
of `LifeInv`: a writer that found its user before a close and sets BTIF up after it.

### AisFsm

A handler of `ais_fsm.c` is one action that sets `goto`; `Steps` is then one pass
of the loop in `aisFsmSteps()` per `Enter...` action, and nothing else runs until
`goto` is "none", as all of it is on the main thread.  The message box is a
sequence that is drained before anything else is looked at
(`mboxRcvAllMsg()`).  `timers` is the set of started timers, any of which may
fire.  A number that goes out with a request is reduced to whether an answer is for
the current request or an earlier one.  The scan FSM, the firmware's channel
requests (`chAsked`, `chHeld`, `grants`) and SAA are what AIS can see of them.
BSS selection is a choice; the station record is a target that can be the
current AP's, another one or freed under the pointer.

Properties relate AIS to what it asked for: no channel is asked or held that AIS does
not count on and has not given back (`ChannelReturned`); SAA works for no join
AIS has left, and a join or handshake window has its timer (`JoinSupervised`);
the OS is left with a lost connection only while the postponed indication is timed
(`HostTold`); AIS does not sit on a channel (`ChannelFreed`).

### ScnFsm and ScanService

AIS, P2P and the OBSS scan ask through the box with 8-bit numbers that AIS and P2P
count for themselves, both from 0 (`ais_fsm.c:1190`, `p2p_func.c:72`); OBSS always uses 0x33.
AIS cancels by a direct call, P2P by a message.  The firmware gets commands in order,
is told to cancel by number, and reports the end of a scan by its number alone, which is
all `scnEventScanDone()` compares (`scan_fsm.c:1104`).  So the end of one scan may be taken
for the end of another: a scan has an `id` in the model, which no step of the code
reads, and `mistaken` remembers the scans this happened to.

`ScanService` is what holds all the same, with nothing assumed of the numbers: a line of
scans, given to the chip one after the other in the order they were taken; the one under
way is reported done once, on an end the chip reported with its number, which is used
up; a cancelled scan is not reported done.  `IsScanService` maps `cur` and
`rPendingMsgList` to the line, the commands and the scans at the chip to `given`, and the
answers in the box that go to the requester of their scan to `answers`.
`OneScanAtChip` leaves out the scans of `mistaken`, and only those: their own end, or
the firmware's work on them, is still to come when the next one is sent.

AIS and P2P each start at 0 (boot), at 50, one before OBSS's number, or at 255, before the
wrap: in the run their numbers are equal, one apart through a cancel, equal to OBSS's
and over the wrap.

### SaaFsm

One station record with its authentication state, class, retry count and timer;
frames that wait for their TX done (`tx`), answers on the air (`air`), the message
box and the part of AIS that decides when a join is aborted or tried with the
other authentication type.  Allocations may fail and frames may be dropped
(`short`), which enters the same state again by recursion, as in
`nicTxEnqueueMsdu()`.  The record may be freed and taken again while reports and
answers of its earlier life are still to come.  `untold` keeps the joins that AIS gave up
without memory for the message to SAA, which goes on with them: the one exception of
`JoinMoves` (section 4).

### RxReorder

Frames are numbered without wrapping so that "in order" means something, and the
driver sees them modulo `SnCount`.  The three cases of
`qmProcessPktWithReordering()`, the loops that pop frames, the timeout of a
hole, BARs, ADDBA, DELBA and the loss of the station are translated with their own
comparisons (those of frames with the window are in `SnCircle`); the sender is the environment and sends what the standard lets it.
The loops over the held frames (`WithinLoop`, `AheadLoop`) are recursive functions, one value a turn.

## 3. Runs

| Run | Bounds | Shows |
|---|---|---|
| `psm` | 3 packets, FIFO of 2, 3 jobs, 2 chip wakes | order, clean-up, wake commands and all liveness of the PSM without resets |
| `psm_reset` | 2 packets, FIFO of 1, a reset and a chip death, PSM timeouts, full window | the safety that resets and late answers must keep |
| `ps` | 2 callers, 2 ops, 2 holders, 2 references, 1 policy change, 1 reset | policy, absence of the lock cycle, power saving comes back |
| `op` | 3 ops, a caller, psmd, one reset context, 2 calls, 2 tries | the pool, the answers and the reset's exclusion and end |
| `op_two_resets` | two reset contexts | finding 1 |
| `core` | 2 power-on retries, 2 tries per reset, 2 resets, at most 3 leaked enables of VCN28 | chip and supplies follow the functions |
| `link` | 3 sequence numbers, window of 2, 1 repetition, ring of 1, 1 error; 4 packets from the host and 1 back, or 1 and 3 | the link is two FIFOs, and outstanding packets settle |
| `btif` | 6 bytes, virtual FIFO of 2, ring of 5 with a limit of 3, 2 opens | `Btif` is the pipe, the ring is sound, no lost wake-up, BTIF can be opened again |
| `ais` | 2 events of ten kinds, every answer and timer in between | no channel or join is leaked, the OS is told |
| `scn` | 3 scans, numbers of AIS and P2P from 0, 50 or 255, 1 OS timeout | scans are given to the chip one by one and answered once at most, for their requester, whatever their numbers; none is lost |
| `saa` | both authentication types, 2 tries, 3 joins, 1 shortage, 1 departure, 1 answer on the air | a join always ends, a connection has a class 3 record |
| `reorder` | circle of 18, window of 3 + 1, frames 14 to 22, 2 agreements | each frame up once and in order, nothing the sender still sends is thrown away |

Three packets and a FIFO of two give every relation of sent, held and lost that
the properties speak of; three jobs put an enable and a disable on each side
of a command; two chip wakes meet a sleep and a wake-up.  For
`SentInOrder` the FIFO may hold at most twice what one release sends, for
`HeldDataSent` at most as much: with more the properties fail, because
`_stp_psm_release_data()` stops after 20 packets and what it leaves waits for the
next packet (`psm_core.c:639`).

Three ops let a reset, a late op and a caller meet; with two every second
reset would end for want of an op.  In `link` the window is one less than the
number of sequence numbers, as in the code (7 and 8), and the sender runs through
all of them and meets the initial `rxack` again; `MaxWire` and `MaxOps`
only say how early and how often a timer may fire before the BTM thread runs.
`Load(1, 3)` fills the host's ring, `Load(4, 1)` goes round.

In `btif` the bytes go round the virtual FIFO and its wrap bit and round the ring; a
limit of 3 and a chunk of 2 fill the ring of 5 to its last place, as 3/4 of the
ring and a FIFO of 1/4 of it do in the code.  In `ais` two events meet each other and
every answer, grant and timeout of one another; a join is authenticated, gives up or
times out within one event.  In `saa` the third join meets what the first, given up unheard,
and its second authentication type left behind; with two joins it cannot.  In `reorder` the frames cross the wrap at 18, half
way round is more than the window and the sender's window together
(`SnAssumption`), which 4096 and the code's windows satisfy.

Fairness: weak fairness for psmd, wmtd, the interrupt, the idle timer and the
caller's polls (kernel threads, timers and pollers that are scheduled when they
can run); none for the environment (data, wake line, death, resets, policy).  In
`WmtPs` strong fairness for the acquisition of a mutex: the kernel's
mutexes hand over to waiters.  In `WmtOp` weak fairness for wmtd, callers and
reset contexts: their waits have timeouts, and so have the commands wmtd
sends.  In `StpLink` weak fairness for the receive workers, timers and BTM
threads taken together, which is less than for each; senders and readers may stop.
In `AisFsm` for the main thread, the timers, the end of scans and the grants of
channels by the firmware; none for the user or the AP.  In `ScnFsm` for the main thread
and for the firmware, which takes commands and ends its scan.  In `SaaFsm` for the main
thread, which serves box and timers, and for the firmware's TX done; the AP need
never answer.  `Btif` and `RxReorder` state safety only and assume no fairness: that
btif_rxd does not sleep on data is stated as a state that cannot be reached.

## 4. Findings and known behaviours

A run of the project shows:

1. `op_two_resets`: a reset context that is turned away because another one is
   resetting clears WMT_STAT_RST_ON as it leaves (`wmt_lib.c:1853`); wmtd then
   executes ordinary ops between HW_RST and SW_RST.

The models also contain the following, which no run checks.  They are listed so that a
reader knows what the properties leave room for.

WMT, PSM and STP:

- psmd's test of `DISABLE_MONITOR` and its change of state (`psm_core.c:1045-1054`) are
  not atomic with the disable, so a command can meet a sleeping chip.
- With a full STP window the release loop drops a held packet (`psm_core.c:665`).
- An op whose caller stopped waiting runs with the monitor on (`wmt_lib.c:549`).
- A reset whose HW_RST worked and whose SW_RST failed to the last try leaves WMT in
  POWER_ON (`wmt_core.c:896`), and no function can be turned on.
- A packet the receive ring has no room for is acknowledged first (`stp_core.c:1034`,
  `:1116`).

BTIF:

- A reset of the ring under btif_rxd (`mtk_btif.c:2637`, a new open, a late write) can hand
  STP stale bytes; between the two calls of a pass the second length goes below
  zero (`:2146`), which the unsigned variable turns into nearly 4 GB.
- A writer that found its user before a close sets BTIF up again after it
  (`mtk_btif.c:2841`); the next `mtk_wcn_btif_open()` then fails in
  `request_irq()`, and so does every later one.
- Data that arrives between `btif_open()` and the registration of `rx_cb` waits for the
  next interrupt.
- `_btif_init()` releases the state mutex on failure, and so do its callers (`:1513`, `:1564`).
- `mtk_wcn_btif_close()` frees the user and returns 0 even if `btif_close()` fails.
- `btif_exp_srh_id()` walks the list of users without its mutex (`mtk_btif_exp.c:36`).

Wi-Fi station:

- `aisFsmReleaseCh()` knows only the current token: a late grant of an aborted request
  (`ais_fsm.c:4316`) takes back the request AIS is waiting for now, and it stays in
  REQ_CHANNEL_JOIN with no request and no timer.
- In IDLE a RECONNECT that nobody wants any more, and in NORMAL_TR the join timeout, look
  only for a queued scan: queued roaming and remain-on-channel requests wait
  (`ais_fsm.c:1809-1870`).
- A scan request still in the box cannot be cancelled; with the scan timeout in
  LOOKING_FOR the OS is answered while SCAN stays queued.
- An aborted re-association frees the record of the AP the station is connected to.
- `aisFsmUninit()` does not stop the deauthentication timer.
- AIS and P2P both count their scans from 0 (`ais_fsm.c:1190`, `p2p_func.c:72`, `:226`) and OBSS's number
  is always 0x33 (`rlm_obss.c:425`), while `scan_fsm.c:1104` compares the number alone: when a scan
  is cancelled and the firmware's end of it is on its way, that end is taken for the end of the
  next scan if that has the same number. Its requester is told it is done, the next one is given to the firmware
  while it works on the first, and a cancel of either takes away both. `rlm_obss.c:421-423` says "the scan module don't care
  seqNum of OBSS scanning". `ScnFsm` reaches all this; `OneScanAtChip` and `ScanService` say what is left. The
  answer of a scan goes to the handler of the scan under way (`scan_fsm.c:1148`).
- A remain-on-channel request or its cancellation that falls into a join takes the state
  from AIS with the join's channel or its window still open (`ais_fsm.c`,
  `aisFsmRunEventRemainOnChannel`, `aisFsmRunEventCancelRemainOnChannel`). The run and the theorems on channels
  have `RocAnytime` = FALSE: they come when no join is under way.
- The clean-up of redundant PSM ops can spin between a reset and the first op psmd takes
  (`psm_core.c:277`), as the reset forgets `last_active_opId` and leaves the queue.
- A failed allocation of the scan command leaves the FSM in SCANNING (`scan_fsm.c:497`).
- A P2P scan with number 0 is not cancelled (`p2p_func.c:211`).
- An authentication frame out of order ends the join (`auth.c:719` against
  `saa_fsm.c:928`); a failed allocation leaves the record in AA_STATE_RESOURCE, which
  only AIS's join timer ends.
- `aisFsmStateAbort_JOIN()` without memory for its message (`ais_fsm.c:1627`) leaves SAA at work and
  the channel not given back. The next join of the same AP finds the record in use (`bss.c:576`)
  and changes `ucAuthAlgNum` under it: the TX done of the frame on its way is then ignored
  (`auth.c:613`) and no timer runs, until the new start arrives.
- The wait for a hole is inherited by a later one (`que_mgt.c:3194`), and held frames
  wait for another packet, as no timer fires (`:3181`).

## 5. Proofs

All for every value of the constants, from the named assumptions of the modules and, where a
theorem says so, one more hypothesis.  Each rests on an inductive invariant that TLC checked
on a small instance first.  `TypeCorrect` of `StpPsm`, `WmtPs`, `WmtCore`, `ScnFsm` and
`AisFsm` are the type invariants, needed by everything else.

PSM (`StpPsmProofs`)

- `DataBlocked`: `BlockedUnlessActive` needs the position of psmd: the flag is
  set and the state changed at different points of its handler, and the inductive
  invariant says at which of them the two may differ.
- `HostAwakeAsked`: the action property `HostAwakeOnlyWhenAsked`, from an
  invariant that ties the HOST_AWAKE command at wmtd to the chip's wake line.
- `CleanUpEnds`: `CleanUpTerminates` until the first reset. `QueueInv`: with the queue's lock free
  it has at most two ops, and these alternate (a sleep, then a wake-up) while `last_active_opId` is known.
  `CleanUpEndsAgain` is what a reset leaves of it: once psmd has taken an op, no step leads
  into a queue the loop spins on.
- `OrderKept`: `SentInOrder`, with `FifoMax <= 2 * ReleaseMax`. What is on the wire, then held, then next to be
  written is one increasing line (`Line`), and `HoldInv` says when data may pass by the FIFO.
  TLC finds the order broken with a FIFO of 3 and releases of 1: the hypothesis is needed.
- `SleepUndisturbed`: `NoDataToSleepingChip`, through timeouts, lost answers and any number of
  resets: `WireInv` says where a sleep or wake exchange may be, `LeavingInv` and `BringUpInv` what psmd and the
  reset know meanwhile, and that the chip is up whenever the link may carry data.

Power-save policy (`WmtPsProofs`)

- `MonitorSafe`: `MonitorFollowsPolicy`; the invariant follows the owner of the
  policy lock through its PSM call, because what it tested must still hold when
  the call ends.
- `NoWaitForItself`: `NoWaitCycle`.
- `PowerSavingComesBack`: the action property `MonitorComesBack`, from the same invariant: whoever ends the last
  reason to stay awake finds the policy lock free and calls the PSM, or leaves another reason behind.

Ops and reset (`WmtOpProofs`)

- `PoolKept`: `PoolInv`. `PoolInd` gives every op exactly one place - free, with a thread, or on its
  way with nobody waiting - at every step of caller, wmtd, drain and raise.
- `AnswersAreOwn`: `AnswerIsOwn`, from `AnswerInd`: an op's result is rubbish until its present user's
  call set it, whoever raised the completion.
- `NobodyForgotten`: a waiting thread has its signal, or its op is queued or with wmtd.
- `ResetAlone`, `ResetIsReal`, `ResetWakes`: `OnlyResetOps`, `EndMeansReset`, `ResetWakesAll`, from `ResetInd`. They
  assume `OneResetter`, a single thread that resets: with two the first is false, which is
  finding 1.

Functions (`WmtCoreProofs`)

- `ChipUnderFunctions`: `FunctionsNeedChip`. The property speaks of the time
  between two ops; the invariant (`ChipUnder`, `InProgress`) says what holds at
  every step of one: WMT's own state is FUNC_ON during the command that turns a
  function on or off, POWER_ON during a chip start, and the function of the op
  has not changed yet. That every undo happens before the first function is
  on, and that the last function is gone when the chip goes down, follow from it.
- `PoweredForAReason`: `ChipOffWhenUnused`. It needs one case between ops: a
  power-on that finds the chip powered already must have found a reason.
- `SuppliesCounted`: `SuppliesMatch`, at every step, from the previous two.
- `SharedAlwaysExact`: `SharedExact`, the conjunction of `RailWhileUsed`,
  `LnaOnlyForGps` and `DesenseTold`, from a second invariant on top of the first,
  which says that each bit word of `wmt_func.c` names exactly the functions that are
  on and the ones whose bit a reset or a failed off left, in the middle of operations
  too. Nothing is assumed of what failed or was reset. The bound `MaxRail` is not needed by any of
  these proofs.

BTIF (`BtifProofs`)

- `LifeAlways`: `LifeInv`, from where wmtd stands between open and close.
- `RingAlwaysSound`: `RingSound`, the first part of `RingInv`. It rests on two invariants. `VffInd`:
  what the handler has taken and not yet written back is at most what the DMA engine
  holds, and `last_wpt_wrap` is the wrap bit of RPT between two turns, so that
  `RealLen` is `Held`. `RingInd`: below the limit but for the chunk just written, and
  the part a pass of btif_rxd takes is part of what the ring holds. That a chunk
  fits follows from `MaxPending + VffSize <= Size`, the one relation of the sizes that is needed.
- `RingAlways`: all of `RingInv`. `Awake`: whenever the ring has bytes and a callback, the completion is set, or the
  handler is still to set it, or btif_rxd is at work.
- `BtifIsPipe`: the refinement of `RxPipe`, `IsPipe`. `ContentInd` says byte for byte what the virtual FIFO and
  the ring hold - a place of the ring is what was written there last, also while the handler writes and btif_rxd
  reads - so that each step hands over the next bytes of the pipe or stutters.

Wi-Fi station (`AisFsmProofs`, `ScanJoinProofs`)

- `HostAlwaysTold`: `HostTold` of `AisFsm`. The invariant adds that the OS is told "connected" only with
  `eConnectionStateIndicated`. Nearly every handler of AIS goes through `aisFsmStateAbort()` and the indication to the OS, so the lemmas say
  once what these two do to it.
- `ChannelGivenBack`, `JoinAlwaysSupervised`: `ChannelInv` and `JoinSupervised`, if `RocAnytime` is FALSE. `RocInd` and `ControlInd` say which
  state may have which request; `AsksInd` and `JoinsInd` follow requests, aborts and grants through the box: what is
  asked of the firmware or SAA is what the last message about it in the box says it is (`AsksEnd`, `JoinsEnd`).
- `ScanNeverLost`: `ChipWorksForIt` of `ScnFsm`: SCANNING always has its scan, the command or its
  end at the firmware. The invariant has to know the order of commands: no cancel of the
  scan under way is behind its request.
- `OneAtATime`: `OneScanAtChip`, whatever numbers the scans have. `PlaceInv` says where a scan is, by the
  ids that no code reads: scans are asked for, queued, started and given to the firmware in the order of their ids, and one
  that was started is in a command, at the firmware or ended, never in two of these. `Order` says which commands to cancel stand before
  which requests. When an end is read for the scan under way, either it is that scan's own, and then
  it is nowhere else (`OnePlace`), or the scan is now one of `mistaken`.
- `ScansServed`: the refinement of `ScanService`, `IsScanService`. A scan that is taken is new to the chip and the line,
  and the chip gives up none that is under way, which `NeverLost` knows. The rest are lemmas about lists: removing a
  waiting scan removes it from the line (`RemoveBehind`), and the answers in a box grow and shrink with it
  (`OwnAppend`, `OwnTail`), which goes from turn to turn of a recursive function with `LeastOf`. Nothing waits in
  IDLE (`IdleEmpty`), so a scan that starts at once overtakes none.
- `JoinTypeCorrect`, `JoinSafe`: `SaaTypeOK` and `JoinInv` of `SaaFsm`. The parts of the invariant `SaaInv` are about
  a record and a box that need not be those of the state, because one call of SAA may send, fail, tell AIS and be
  asked for the next join before it returns: `EnterSendSound` carries them through it. What makes them inductive is
  whose join it is (`Wanted`, `StartsWanted`): a join at work, or in the box, is the one AIS waits for, or its
  abort is in the box behind it, or AIS gave it up unheard. TLC refuted it without the last case.

Sequence numbers (`SequenceProofs`)

- `LinkSound`: `LinkInv` of `StpLink`, for every window smaller than the number of sequence numbers, any
  number of packets and retries, and whatever is lost, damaged, late or sent again. `LinkInv` reads the window off a few
  sequence numbers, which is not inductive: the invariant `LinkInd` says for the true numbers of the packets what each
  end knows. `Knows(s, c)`: the first c packets of s are known to have arrived, `txbuf` holds those after c, and the
  acks on their way to s are for packets from c to the last one taken, in order (`AckLine`). `Hears(s)`: the peer
  expects the next packet after the last one it took, and the data on its way is never so old that its
  sequence number could pass for a newer one (`DataLine`): every item on the wire is less than a window behind
  those before it. That these survive a repetition is the
  core of the proof: it starts at the first packet not known to have arrived, which is less than a window behind
  anything still on the wire.
- `LinkIsChannel`: the refinement of `LinkChannel`, `IsChannel`: each step of the link sends a packet, hears
  of one or of an ack, gives up, or is not seen at all.
- `WithinIsDistance`, `AheadIsDistance`, `LessIsDistance`, `AheadSkipsNothing`: the
  comparisons of `que_mgt.c` are distances on the circle for every size of it, and a
  frame that falls ahead never moves the window past one the sender may still send.

- `ReorderingKeepsOrder`, `NothingElseIsDropped`: `OrderInv` and `DroppedWasGivenUp` of `RxReorder`. The window of
  the code is two sequence numbers; the invariant `RxInd` says that there is a true frame number w it starts at
  (`At(w)`): what went up is below w, what is held above it and within reach, the newest frame seen at most a window
  beyond, and, once the first frame of the agreement has come, what the sender has in the air below w went up or is below a hole given up. The
  comparisons on the circle then are those of true numbers, since nothing meant is half a circle away. `Turned` is the
  invariant of the two loops over the held frames, from turn to turn (`WithinLoopSound`, `AheadLoopSound`); that
  such a loop has a value for every queue, and that a turn's invariant reaches its last turn, is argued with the least turn that
  would be without (`LeastOf`, `UpTo`), because a set of numbers can be cited where an operator cannot.

Model-checked only: all liveness. `AllScansEnd` and the others rest on fairness, so on ENABLED, which the
prover does not reason about. Every safety invariant, action property and refinement that a passing run checks
is stated by a theorem, some under the hypotheses named above.

## 6. Plan

1. Done: PSM, policy, ops, functions, link, BTIF; the station's AIS, scan and SAA FSMs;
   receive reordering.
2. Done: proofs of the safety properties and refinements of all of these (section 5).
3. Then: ownership of the PSM's 16 ops across resets; the BTM thread with core dump
   and reset requests; the device nodes; the transmit resource counters and firmware
   ownership of `wlan/nic`; the P2P FSM on top of `ScanService` and channel requests;
   the FM command link.

Not modelled, and why, is listed per component in `PROJECT.json`. Register sequences,
configuration parsing, frame and element construction (`rlm.c`, `rsn.c`, `scan.c`),
OIDs and cfg80211 glue hold little state of their own; most of the driver's lines are
of this kind, so the share of lines the models stand for is small even where the
state machines behind them are complete.
