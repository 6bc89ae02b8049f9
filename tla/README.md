# TLA+ model of the carl9170 firmware

carl9170fw is the firmware of the Atheros AR9170 USB wireless chip. It runs
on the chip's small processor, without an operating system and without
preemption: one endless loop (`main_loop()`, `src/carlfw/src/main.c`) polls the
hardware and calls the handlers. Around the loop run, truly concurrently, the MAC,
two DMA engines (PTA down and PTA up), the USB endpoints and the host's driver.
They meet the loop in shared memory (descriptor rings) and in registers
(triggers, interrupt flags, masks). Few of these meetings can be reproduced by a
test; this directory models them.

## 1. Inventory

| component | state | operations | meets |
|---|---|---|---|
| **Descriptor rings** `src/dma.c`, `include/dma.h` | `head`/`terminator` of each `dma_queue`; descriptors with owner, ctrl, lastAddr, nextAddr, dataAddr | `dma_init_descriptors`, `dma_put`, `dma_reclaim`, `dma_unlink_head`, `dma_rearm`, the iterators | both engines read and write the same descriptors |
| **Transmit path** `src/wlantx.c`, `src/hostif.c`, `src/wlan.c` | `tx_queue[]`, `tx_retry`, `cab_queue[]`, `ampdu_prev[]`, `cab_queue_len[]`, `cab_flush_trigger[]`, `cab_flush_time`, `queued_bar`, `fw_desc*`, per frame `rix`, `cnt` | `wlan_tx`, `wlan_tx_fw`, `handle_wlan_tx_completion`, `wlan_tx_status`, `wlan_send_buffered_cab`, `wlan_send_buffered_ba`, `wlan_modify_beacon`, `handle_download` | MAC (sends, stops at failures, raises TXC), host (frames, beacon commands), clock |
| **TX status cache** `wlantx.c:97-166` | `tx_status_cache` and three indices | `wlan_tx_complete`, `wlan_send_buffered_tx_status` | filled by the transmit path, drained by `wlan_janitor` into the response ring |
| **Responses and commands** `usb/main.c` | `int_buf`, `int_head_index`, `int_tail_index`, `int_pending`, `int_desc`, masks of EP3 and EP4 | `get_int_buf`, `dequeue_int_buf`, `usb_reg_out`, `usb_status_in`, `send_cmd_to_host`, `handle_upload` | up-DMA engine, endpoints, host |
| **Receive path** `src/wlanrx.c` | `rx_queue`, `up_queue`, `ba_cache` ring, `rx_filter` | `handle_wlan_rx`, `wlan_rx_filter`, `handle_bar` | MAC, up-DMA engine; reads `queued_bar` |
| **Hang check and MAC reset** `src/wlan.c:185-419` | `last_super[]`, `last_super_num[]`, `mac_reset`, `soft_int` | `wlan_check_hang`, `wlan_check_rx_overrun`, `wlan_mac_reset`, `wlan_timer` | rewrites frames and engine positions under the transmit path |
| **Host commands** `hostif.c:171-298` | — | `handle_cmd` | every component below and the transmit path |
| **Key memory** `src/cam.c` | the rows of the MAC's key memory, the roll call | `set_key`, `disable_key` | the MAC looks up every frame while it is written |
| **Suspend, watchdog, reboot** `usb/main.c`, `src/main.c` | `suspend_mode`, `reboot`, the watchdog, the magic register | `usb_handler`, `disable_watchdog`, `reboot`, `start` | boot code, host |
| **Wake on WLAN** `src/wol.c` | `wol.*` | `wol_cmd`, `wol_prepare`, `wol_rx`, `wol_janitor` | receive filter, host |
| **Power save** `src/rf.c` | `phy.psm.state`, `phy.state` | `rf_psm` | PRETBTT interrupt, host commands |
| **USB control endpoint** `usb/usb.c` | `ep0_action`, configuration, address, features, stalls | `usb_ep0setup/tx/rx` | host |
| **Clock and statistics** `include/timer.h`, `main.c:84-106` | the free-running clock, `tally` | `is_after_msecs`, `delay`, `tally_update` | all timeouts |
| **Firmware image tools** `tools/lib/carlfw.c`, `tools/src` | the file, the descriptor list of `struct carlfw` | `carlfw_load`, `carlfw_store`, `checksum`, `miniboot`, `fwinfo` | each other, through the file |
| **Build configuration** `config/` | symbols with cached values, menu tree, `.config`, the generated files | the input modes of `conf`, the macro language | user, make |
| debug output, assembly helpers, FIFO map, minifw | — | — | — |

What makes each correct:

* *rings*: no buffer is lost, doubled or cut off from its packet; packets keep
  their order; an engine never follows a half-written descriptor; an engine with
  work is running.
* *transmit path*: each accepted frame is tried as often as its rates say and reported
  once with the right outcome; order inside a queue; counters agree with the
  frames; multicast frames only leave behind a DTIM beacon, and a beacon is used once;
  the MAC never stays stopped.
* *TX status cache*: a FIFO that loses nothing when it is full.
* *responses and commands*: one holder of `int_desc`; commands never stay masked;
  a response for everything, in order.
* *receive path*: BlockAckReqs are answered oldest first; BlockAcks pass
  while the host waits for one.
* *hang check*: only a frame at which a silent queue stands is killed, it stays dead, and every
  queue the MAC stands in moves again.
* *wake on WLAN*: the host is woken by what it asked for and by nothing else; the code
  does less than that, see the findings.
* *power*: the radio sleeps as long as it was told; the watchdog guards the loop.
* *key memory*: no entry is in use half written.
* *control endpoint*: every request has one answer.
* *image tools*: what passes for a checksummed firmware is one.
* *configuration*: what the user sees and the files written agree, also after a kill.

The hard behaviours, each with its line and the property aimed at it, are the
`hazards` of `PROJECT.json`.

## 2. Modules

| module | models | lines of code |
|---|---|---|
| `TxStatusRing` | the TX status cache, one action per loop turn | `wlantx.c:97-166` |
| `StatusFifo` | what the cache promises (abstract) | |
| `IntRing` | responses and commands, main loop against DMA, endpoints and host | `usb/main.c:63-211, 417-428`, `hostif.c:89-111` |
| `DmaRing` | descriptor rings with the copies of `dma_put` split where an engine can look | `dma.c`, `dma.h` |
| `PacketPipe` | what the rings promise: sequences of packets (abstract) | |
| `WlanTx` | the life of a frame, main loop against MAC, host and clock | `wlantx.c`, `hostif.c:35-87, 247-260`, `wlan.c:98-183` |
| `TxService` | what the transmit path promises the host (abstract) | |
| `MCWlanTx` | the superframes of the instances TLC checks | |
| `WlanHang` | hang check and MAC reset over the transmit queues | `wlan.c:185-419`, `wlantx.c:321-483` |
| `RxPath` | receive path and BlockAckReq ring | `wlanrx.c`, `wlantx.c:509-583` |
| `WakeOnWlan` (extends `RxPath`) | triggers and their signal | `wol.c` |
| `UsbControl` | the control endpoint | `usb.c`, `usb/main.c:330-372` |
| `Radio` | power save, channel changes | `rf.c` |
| `KeyCam` | the key memory | `cam.c` |
| `Device`, `MCDevice` | the main loop over the last five, with commands, suspend, watchdog, reboot, GPIO | `main.c`, `hostif.c`, `usb/main.c`, `wlan.c:98-173` |
| `FwImage` | the image library and its programs | `tools/lib/carlfw.c`, `tools/src/*.c`, `fw.c`, `fwdesc.h` |
| `KExpr` | expressions: building, comparing, rewriting, values | `config/expr.c` |
| `KMenu` (extends `KExpr`) | statements to symbols with dependencies | `config/lexer.l`, `parser.y`, `menu.c`, `symbol.c` (dependency check) |
| `KSymbol` (extends `KMenu`) | values of symbols and their caches | `config/symbol.c` |
| `KMacro` | the macro language and `auto.conf.cmd` | `config/preprocess.c` |
| `KConf` (extends `KSymbol`), `MCConf` | the program `conf` and its files | `config/conf.c`, `config/confdata.c` |
| `MCHostTools` | the instances of all host programs | |
| `RingArithmetic` | lemmas: indices modulo the size of a ring, induction over the naturals | |
| `TxStatusRing_proofs`, `IntRing_proofs`, `DmaRing_proofs`, `WlanTx_proofs`, `WlanHang_proofs`, `FwImage_proofs` | the proofs about the module of that name | |
| `Device_proofs` | lemmas on what each operator of `RxPath` and `KeyCam` keeps, and the proofs about `Device` | |

The modules are layers of one system. `DmaRing` implements `PacketPipe`: a ring of
descriptors behaves like a sequence of packets, and no trigger is lost. That is
what allows `WlanTx` to hold each queue as a sequence and to leave triggers
out. `TxStatusRing` implements `StatusFifo`: a report handed to `wlan_tx_complete()`
reaches the response ring. That is what allows `WlanTx` to report in one step.
`IntRing` carries the messages to the host. `WlanHang` takes the same queues down to
descriptors with payloads again, because the reset works on those. `Device` composes the
parts of the loop that meet in registers and flags rather than in transmit queues; of the
transmit path it keeps what the receive path depends on (`queuedBar`, `fwDesc`). The
programs that run on the host share nothing with the firmware but the image format.

### TxStatusRing

`pc` says which function runs: `flush` and `drain` are the two callers of
`wlan_send_buffered_tx_status()`, `fill` the rest of `wlan_tx_complete()` once the
slot is free. `SendMessage` is one turn of the splicing loop. The contents of a
report are a member of `Statuses`.

### IntRing

`pc` is the part of the main loop that runs, as far as it matters here. `pack` is the
loop inside `usb_status_in()`. `SampleLevel1` reads the interrupt group once, so
the DMA engine and the host may act between the sample and the handlers.
`inOff` and `outOff` are the masks of EP3 (written by `usb_trigger_in`,
`usb_reset_in`) and EP4 (`usb_trigger_out`, `usb_reset_out`). A message has a number
(history only), `hdr.seq` and `hdr.len`; `len + 8 > rem` and the step of `len + 4`
are the code's. `seq` is `int_tail_index` when the message was made; a
command's handler copies the sequence bits of the command into the response, and
they are zero. `Init` is the state behind `start()`: RSP_BOOT is queued and EP4 may be
masked or not, as the boot code or the watchdog path left it. The branch of
`send_cmd_to_host()` for `resp == NULL` is never taken (`get_int_buf()` always
returns a slot) and has no action.

The interrupt level of EP3 is "the FIFO is empty and not masked", that of EP4 "a
command waits and not masked". The EP3 FIFO holds one transfer.

### DmaRing

Memory is one array of descriptors: NB blocks, one terminator each for the down,
tx and retry queues and `fw_desc`. `mem[d].next`, `.last`, `.data` are the
pointers. `Begin` does what `dma_put`/`dma_reclaim` do to descriptors no engine
reaches (prepare the chain, save the first descriptor in `tdesc`, clear it);
`CopyStatus`, `CopyBody` and `Publish` are the stores into the old terminator,
which an engine may be polling. `Unlink` is `dma_unlink_head()`. `TakeDown`,
`TxDone`, `TxRearm`, `TxRetryLater`, `TakeRetry`, `SendReserved` are the
callers in `hostif.c` and `wlantx.c`. The engines (`Fill`, `Send`, `GoIdle`)
are external: the code only shows that an engine starts at the ring's head,
works through descriptors it owns, goes idle at one it does not own, stops at a
failed frame and restarts on a trigger.

### WlanTx

`pc` and `ix` are the place in the main loop. `txc`, `reset`, `retry` are the three
parts of the body of `handle_wlan_tx_completion()`, `cab` and `ba` are
`wlan_janitor()`, `host` is `handle_download()`, `usb` is where a command may be
handled and `flush` is `wlan_cab_flush_queue()` on command. Each call of
`wlan_tx_status()` is one of `TxRearm`, `TxRetryLater`, `TxDone`. MAC, host and
clock may act between any two steps.

A superframe keeps what control depends on: queue, interface, the class of
`same_aggr()` (tid and header), CAB, BlockAckReq, whether the DMA clipped it, the
rates with their tries and A-MPDU flag, and `last`, which encodes which
`rr[]` are set. `clock` has three values because only two thresholds matter:
`CARL9170_TBTT_DELTA` has passed or not, and the next PRETBTT comes at least
one loop turn after that. A recycled packet gets canonical contents: nothing reads it
before the host overwrites it. `announced` is history: a DTIM beacon announced what is in the CAB queue, and no flush
has used that up.

Left out of `WlanTx`, because no decision modelled here depends on it: sequence
numbers, MOREDATA, the inserted TSF, the A-MPDU density and factor registers,
`hide_super`/`unhide_super`. `DmaRing` covers triggers,
`TxStatusRing` the reports, `WlanHang` the hang check. `handle_upload` and the receive
handler touch none of this state.

### WlanHang

A ring is a sequence of descriptors with its terminator last; `data`, `own` and `ctrl` are the
words of a descriptor the check and the reset look at, so a buffer wanders through descriptors
as it does in memory. `cur` and `halt` are the MAC's position and whether it stopped. `Timer` is
one tick of timer 0: `wlan_check_hang()`, the overrun check and the settling of `mac_reset`; if
that asks for it, `MacReset` follows with the MAC disabled. Between the ticks the completion
handler (`TxRearm`, `TxRetryLater`, `TxDone`, `Requeue`), the download and the MAC run.
Only the retries a frame has left are kept of its rates (`Tries`). A packet is one descriptor,
`dma_put()` one step. History: `still`, the ticks since a queue moved, counted while it has frames
and the MAC stands in it (`Inside`); `quiet`, the ticks with frames since the queue last reported
one; `killed`. The MAC may stand outside: a descriptor it has passed leaves the ring with its
packet, and the MAC follows the ring it is then in.

### Device and its parts

`Device` has the order of `main_loop()` in `pc`: `fw`, `wlan` (`rx`, `txc`, `janitor`), `host`, `cmd`
(`cam` while `set_key()` runs), `ep0`, `usb`, `timer`. The parts give one operator per handler
or call, without `pc`, and `Device` schedules them. Hardware, host and clock act between any two
steps. When the firmware gives control to the boot ROM (`pc = "rom"`) the behaviour
rests: what comes then is a new start, which `Init` is.

* `RxPath`: a frame is its type, its sender and receiver, the address a wake-up pattern repeats, the
  errors of the MAC status and whether it answers a BlockAckReq of the host. `owed` is history: the
  requests not answered yet.
* `WakeOnWlan`: time is the age of an event, 0, 1 or `Lost` (ten seconds). `macReg` and `bssidReg` are
  the address registers of the MAC, loaded by `wol_prepare()` from the command: `macReg` is what
  the scan for a magic frame compares with, and by which the MAC marks a frame as another
  receiver's (`Device!Marks`, external); `bssidReg` is what the beacons are compared with. The
  scan is the comparison of two addresses, byte by byte it is not modelled. History: `heard`,
  `sleeping` (since the host fell asleep), `before` (frames received before that and not yet looked
  at) and `trigger` (a frame was handled that can wake the host, told by `Summons` from the
  frame alone).
* `UsbControl`: a request is its decoded fields; each is accepted (and has an effect) or
  refused. `answer` is what is written when the handlers have run.
* `Radio`: the synthesizer runs or not, transmission is held back or not, and the count of
  PRETBTTs. History: `wakeIn`, how long the host lets it sleep, and `wasOn`.
* `KeyCam`: the memory at the granularity of the read-modify-writes; two users may share a
  row but no place.

### FwImage

A file is a sequence of cells, code or descriptors; a checksum is the pair of what it
covers and its seed, so that it is free of collisions. A store empties the file and writes it
piece by piece; the process may stop at any piece. That covers a write which `stdio` keeps until
`fclose()` and which then fails; neither `carlfw_store()` (`carlfw.c:579`) nor `miniboot` (`miniboot.c:101`,
143) looks at the result, so the user is told of success. `vouched` is history: what checksums
were ever computed for. Its `ImageInit`, `ImageNext` and `imageVars` are prefixed because
`MCHostTools` extends it beside `KConf`; `fwrite` is one write of `carlfw_store()`.

### KExpr, KMenu, KSymbol, KMacro, KConf

The functions of `config/` as operators under their own names. `KMenu!conf_parse` makes the
tables of a Kconfig tree once. `KSymbol` threads one record through the
evaluation, with the caches the code has (`SYMBOL_VALID`, `val_is_valid` of an expression,
`modules_val`), since whether they are stale is the question. `KConf` is the process: a
session is a walk with explicit calls still to make (`todo`) that stops where the user
is asked; the files are written in the code's order, one action each, with `Stop` between any two.
Strings and numbers are numbers. The user edits `.config` and the Kconfig files between runs.
`touched` is the set of dependency files touched since `auto.conf` was last replaced. `torn` is history: a
run was cut short after the header was written and before `config.cmake` was, and none has ended
well since. The build is not an action: `CMakeLists.txt` includes `config.cmake`, the sources
include the header, and the properties compare these two.

## 3. Runs

| run | bounds | shows |
|---|---|---|
| `tx_status` | 4 slots, 3 reports per message, 3 different reports | every fill level and position; 4 and 3 so that a message is limited by the fill level, by Splice and by the edge in turn |
| `int_ring` | 3 slots, lengths 0 and 60, a buffer for one long or several short messages, 6 messages | two turns round the ring, overruns, messages that do not fit, commands at every point |
| `int_ring_overrun` | the same | violated: see findings |
| `dma_ring` | 2 blocks, packets of 1 or 2 descriptors, all outcomes | every interleaving of the stores of `dma_put` with both engines, for split and whole packets |
| `dma_ring_reserved` | 2 blocks, packets of 1, no failures, firmware frames | the descriptor exchange with `fw_desc` among the others |
| `wlan_tx` | 2 packets and a BlockAck, 2 queues, 5 kinds of superframes, all outcomes | retries over rates, aggregates, BlockAcks, clipped packets |
| `wlan_tx_cab` | 2 packets, 1 queue, 2 interfaces, multicast frames and a BlockAckReq, beacons | counters, DTIM gating, liveness |
| `wlan_tx_order` | as `wlan_tx` without BlockAcks | violated: see findings |
| `wlan_hang` | 2 blocks, 1 queue, hung after 2 ticks (7 in the code), 2 tries, overruns and resets by the host | resets before, between and after completions; buffers that come back at the position they had |
| `device` | 2 slots of BlockAckReqs, 2 receive blocks, 2 stations, 7 frames at night (to all, to this and to another station; patterns of this station and of the address zero), 3 WoL commands, 18 requests, counts up to 2, 2 users and 2 keys in rows they share | each part against the loop and the bus; one part of the surroundings (`part`) acts in a behaviour |
| `device_beacon` | as `device`, sleep only | violated: see findings |
| `host_tools` | 5 Kconfig trees, four cut from `carlfw/Kconfig` and one with tristates, 2 runs (3 on the smallest tree), 16 modes on each but that one, edits that set both members of a choice or unknown symbols; 2 builds of an image, 3 programs, 1 damaged cell; 15 leaves in pairs and triples of expressions; 3 macro statements out of 11, 25 environments | all sessions, kills, edits, cut stores |

Two packets are enough for order, overtaking, aggregates with a predecessor and a
queue that stops at its first of two frames; three would add only longer
tails. Packets of one and of two descriptors differ in every branch of `dma_put`
(`lastAddr == desc` or not); a middle descriptor only adds a turn to a loop. Three
slots of the response ring are the fewest where head, tail and a slot between differ.

`Stuck = 2` keeps the only thing the counter is for, that a queue must be found at the same
payload more than once; the bound of `Recovers` is stated in it. Two blocks are few for `wlan_hang`: with
two queues and four blocks the MAC gets into `down_queue` while another queue has frames. That
instance is too large to search; it was simulated, and searched along the behaviours of that kind;
the proof covers it. Two slots of `ba_cache` are the fewest with a head that is not the tail. What `device` leaves out by a bound: frames that arrive
after the BlockAckReq ring has overrun (nothing is claimed of it any more), time that passes
outside `wlan` and `janitor` and frames that arrive outside the handlers that look at them
(the same as just after), and two parts of the surroundings at once: the parts share only
`pc`, the bus and the watchdog. Two runs of `conf` are what `KilledSafely` needs: one that is
killed and one after it. A third is needed after two runs have left `.config` and `auto.conf` at odds over
a choice; the smallest tree has it, in the two modes that it takes. A tree has at most seven symbols.

The full bounds of the code are 30 reports, 16 responses, 32+ blocks, 5 queues and 2
interfaces. What is proved below holds for all sizes.

**Safety, with what would break it.** `NoOverwrite`, `RingConsistent`,
`FifoSpec`: a report overwritten while unsent. `DescInOnePlace`, `RspStable`: the
RSP buffer rewritten under the DMA engine. `CommandsMetered`: EP4 masked with
nothing under way that would unmask it. `NoEmptyResponse`: the one branch of
`usb_status_in()` that would lose the unmasking is dead. `RingHoldsOwed`: the
ring holds exactly what is owed, in order, until it overruns. `Inv` (of `DmaRing`),
`NoTornDescriptor`, `NoLostWakeup`, `PipeSpec`, `ReservedHome`: the rings.
`FrameInOnePlace`, `ServiceSpec`, `CountersAgree`, `AmpduPrevLive`,
`NoForgottenCompletion`, `HaltedAtFailure`, `OrderKept`, `RetriesClosed`,
`LaterCabWaits` (multicast frames queued after a flush leave before they are announced): the
transmit path. `Inv` (of `WlanHang`), `KillsOnlyStuck`: a healthy frame killed,
or a killed one sent again. `Recovers`: a queue that no reset ever restarts; it is a bound on
ticks and so a safety property that needs no fairness of the MAC. It is about queues the MAC
stands in, see findings. `Consistent`: what each part of
`Device` promises of its own state, `BarsInOrder` (each BlockAckReq is answered from its own
fields), `WakeupAgrees` (feature bit and register), `SleepEnds`, `KeysWhole`, `RequestsAnswered`,
`Guarded` (the watchdog counts where the firmware can hang). `BaBeforeBar`: the order of two handlers. `WakeJustified`: a host that did not allow it, or without a
cause in the air; causes are told from the frame, its receiver and its pattern, and from how long the
host has slept, not from what the firmware recorded. `SessionSound`: a prompt shows a
stale value, or comes again without end. `FilesAgree`: the generated files say the same, and `.config` and the minimal configuration say it
too; with two members of a choice set to y the members of that choice, and nothing else, may differ (see
findings). `KilledSafely`: after a kill `auto.conf` speaks for other contents than the header
and `rustc_cfg` have, although it is newer than `.config`; `config.cmake` differs from the header although no
run was cut short between them; a symbol changes without its dependency file touched, however many runs were
killed in between.
`LanguageSound`: rewriting changes a dependency; make takes `auto.conf` for current when it
is not. `ImageSound`: a broken file passes.

A conjunction has a mutant for several of its conjuncts.

**Liveness**: `Reported`, `CommandsResume`, `EveryMessagePacked`,
`BuffersReturn`, `EveryFrameReported`, `HostWoken`.

Fairness is always that of the main loop (it never stops, so weak fairness of its
steps) and of the hardware that serves a queue it was given. Stronger
assumptions and their reasons:

* `TxStatusRing`: strong fairness of `Drain`, since other handlers may disable it for a
  while at every turn and the main loop always comes back to the janitor.
* `DmaRing`: strong fairness of taking a packet from each queue (the loop visits
  all of them) and of `TxDone` for every buffer, since the number of tries of a
  frame is limited (`wlan_tx_consume_retry()`, checked in `WlanTx`).
* `WlanTx`: strong fairness of a DTIM beacon update per interface; an access
  point's driver updates the beacon at every interval, and frames wait for it by design. The
  liveness run has no clipped packets: a host that sends nothing else
  keeps the loop of `handle_download()` busy for ever.
* `Device`: the watchdog counts, and `handle_host_interface()` is left; strong fairness of
  `RxDone` and of the receive step that empties `rx_queue`: frames do not come faster than
  the loop takes them for ever. Nothing is asked of the host or the air.
* The host programs have none: that sessions end is the safety property `AsksForNews`.
* The host owes nothing in `IntRing` but to poll its IN endpoint.

## 4. Findings

* **A full response ring does not give up its oldest message.** The comment in
  `get_int_buf()` says "fetch the _oldest_ buffer from the ring". The code reuses that
  slot but leaves `int_head_index` there, so the newest message is packed first,
  then the others; head and tail stay out of step (`int_ring_overrun`). `ba_cache` in
  `wlanrx.c` has the same pattern.
* **Retried aggregates are reordered.** The comment in `wlan_tx_status()` says "We must not
  mess up the original frame order". Frames a block ack missed go through
  `tx_retry` to the end of their queue (`wlan_tx_order`). `OrderKept` states what does
  hold: nothing else is ever overtaken. The receiver's reorder buffer hides
  this within an aggregation session.

* **A sleeping host is woken although beacons arrive.** `wol_janitor()` says "connection lost after
  10sec without receiving a beacon". `wol_cmd()` copies `sizeof(cmd)` bytes, the size of a pointer;
  only the flags arrive, the BSSID stays zero, and no beacon is recognised as the access
  point's (`device_beacon`). For the same reason `null_interval` stays 0 and the connection monitor
  never runs.

* The same four bytes cost **the other triggers** their address. `wol_prepare()` copies `fw.wol.cmd.mac`, which
  is zero, over the MAC's address register (`wol.c:41`). `wlan_rx_wol_magic_packet()` compares with that register
  (lines 67 and 97), against its comment (lines 74-88: "16 duplications of the IEEEaddress of the target"):
  a magic frame for this station never wakes the host, six FFh and 96 zeros do. A deauthentication for
  this station that arrives during the night is one for another receiver, and is ignored; one to
  everyone is not. `WakeJustified` and `HostWoken` state what does hold: `Summons` names the frames that can wake
  a host, and for `HostWoken` only a farewell to everyone, or ten seconds of sleep, is sure to. One cause with the
  finding above, so it has no violated run of its own.

Met while modelling, without a run of their own (a model describes what the code does):

* `carlfw_mod_headroom()` with a negative length copies from before the buffer
  (`tools/lib/carlfw.c:612`): after `miniboot a` and `miniboot d` the start of the image is
  undefined, and the checksum is computed for that. `FwImage!Cut` says so.
* A file whose CHK descriptor is hidden by a damaged length or magic before it is
  taken without any check (`carlfw.c:336`); `OnlyVouched` is therefore about files that have one.
* `conf_write_autoconf()` says that `auto.conf` "must be the last step" as it "marks the successful
  completion of the previous steps" (`confdata.c:1151-1155`); `config.cmake` is written after it (line 1162),
  and that is the file the build includes (`src/CMakeLists.txt:8`, `src/carlfw/CMakeLists.txt:6`). A run killed
  in between, or aborted in `print_symbol_for_cmake()` at a symbol that is m, leaves a new header and an
  old `config.cmake`, and nothing tells the next build that it mixes two configurations.
  `AutoConfLast` is therefore about the header and `rustc_cfg`; for `config.cmake` `WholeUnlessTorn` says what
  holds: it differs only after such a run, and until one ends well.
* "If conflicting CONFIG options are given from an input file, the last one wins" (`confdata.c:472-476`), but
  `conf_touch_deps()` reads `auto.conf` in the same way, after `.config` has been written, and so moves
  the member of the previous configuration to the front. With two members set to y, by lines that
  conflict or by `randconfig`, the new `.config` has one member and the generated files have the other; the next
  run takes the one in `.config`. `Settled` says that nothing but the members of such a choice (`Contested`)
  differs. A later run that is killed then leaves an `auto.conf` newer than `.config` beside another header,
  which is the exception in `AutoConfLast`.
* An unset environment variable is not recorded in `auto.conf.cmd` (`preprocess.c:79-81`), so that
  setting it later is not noticed: `InputsRecorded` excludes it. `X := $(X) ...` expands from a value
  that was freed (`preprocess.c:295-312`); no instance has it.
* `A!=y` of a bool is read as an expression where it is a relation (`expr.c:649`); left out.
* `conf_choice()` does not end if no member is visible (`conf.c:498`); no tree of the instance has it.
* A SETUP packet together with END or FAIL gets the handshake and the stall (`usb/main.c:347`);
  `RequestsAnswered` excludes it.
* `rf_psm()` with SLEEP and a count of zero sleeps until the host's next command (`endless`).

Met while proving; both were stated otherwise at first, held on the instance TLC searches, and were
false for more blocks:

* The hang check counts payloads, not frames (`wlan.c:202-207`). After a reset or a retry the MAC
  may stand at a descriptor it has sent and that has left the queue. What it counted there counts
  for the frame that comes to that payload next: a frame that waited for one tick and was never
  tried can be killed. That a killed frame *itself* stood for as long as the check waits is therefore false;
  `KillsOnlyStuck` says what holds, that the *queue* reported nothing for as long.
* A MAC that is left at a descriptor which goes to `down_queue` with its packet follows that ring, and
  shows another payload at each tick as long as other queues have traffic. The hang check then never counts
  up, and a frame that waits in its own queue stands still without a bound. It takes a frame that
  failed just before a reset the host ordered, so that the reset passes it and the completion handler
  hands it back. Hence `Inside` in `still`: while the MAC stands in its queue, `Recovers` holds.

## 5. Proofs

`TxStatusRing_proofs` proves, for every N > 0, every Splice > 0 and every set of
reports, from `RingAssumption` alone:

* `TypeCorrect` and `RingConsistency` by the inductive invariant `TypeOK /\ RingConsistent`.
  Neither half is inductive alone: the fill level stays below N
  only because the flush empties the cache before `Fill` counts, which is what
  the `pc` clauses of `RingConsistent` say.
* `UnsentSafe`, the action property, from that invariant: the slot written is
  `(head + pending) % N`, and no pending slot has that number.
* `ImplementsFifo`: the unsent stretch as a sequence changes only as the abstract
  FIFO allows. `SendMessage` is the step that takes a prefix; the modular lemmas
  `EndStays` and `StepFromHead` say that the rest keeps its place.

`IntRing_proofs` proves, for every ring of N > 1 slots, every set of message lengths
`Lens` and every buffer of `Room` bytes they fit into (`IntAssumption`), under any
interleaving of main loop, DMA, endpoints and host:

* `TypeCorrect`, `DescHeldOnce`, `CommandsNeverForgotten`, `NeverEmpty` from the inductive
  invariant `IInv`, their conjunction with `MaskInv`. `MaskInv` is needed because
  `NoEmptyResponse` speaks of the end of a loop that started two interrupts
  earlier: EP3 is unmasked only while a message waits, also in the copy of the
  level-1 status that is still to be looked at; EP3 is masked while messages
  are packed; an empty buffer has all its room and a message to come. The
  messages waited for are at least the `pending` ones also after an overrun.
* `BufferStable` (`RspStable`), the action property, from `DescInOnePlace`.
* `RingIsQueue` (`RingHoldsOwed`): with `TailInv`, which ties head and tail together, while
  nothing was overrun the ring is the queue `owed`. A second invariant, because it needs
  `IInv` but the others do not need it.

`WlanTx_proofs` proves, for every set of packets, any number of queues, interfaces and
rates, and every superframe the host may send, from the assumptions of
`WlanTx` alone, `Invariance`: the invariant `IInv` holds. TLC checked it on the instances
of `wlan_tx` and `wlan_tx_cab` before it was proved. Its parts:

* `Located`, `Distinct`: every queue holds only frames of its own, none twice, so that
  unlinking one frame or appending one changes one place (`NothingLost`).
* `Contents`: the rate and tries of a frame under way are those of its superframe. The
  guard of `wlan_tx_consume_retry()` keeps the index in range only with it.
* `DonePrefix`, `DoneInTx`, `Stopped`: what the MAC has finished is a prefix of a transmit queue,
  and nothing behind a failed frame is done. So the completion handler, which
  looks at heads, misses nothing (`CompletionsSeen`), and a queue that stands
  still stands at its head (`StopsAtFailure`).
* `AheadQueued`, and everything in `retryq` is in `missed`: the frames an earlier frame
  may be overtaken by are behind it or went through a block ack (`KeepsOrder`).
* `PrevLast`: `ampdu_prev` is the last aggregate moved back in this turn of the loop
  (`PrevNeverDangles`, and with it the action property `AggregatesClosed`).
* `Loop`: what `ix` and `retryq` are at each place in the loop.
* `CountersAgree`: the counters are cardinalities of sets of frames; each action moves
  at most one frame in or out.

`CabWaits` is an action property of that invariant and of `Announced`, kept by every step (`AnnouncedKeeps`): an
interface whose trigger is armed has an announcement that is not used up, because whatever uses it up takes the
trigger away with it. For the flush of the janitor that is `wlantx.c:699`.

`Device_proofs` proves, for rings of any size, every set of stations, frames, filters,
requests, commands, users and keys, from `RxAssumption`, `WolAssumption`, `SetupAssumption`,
`RadioAssumption`, `CamAssumption` and `DeviceAssumption` (the last says of the inputs only that
they have their fields): `PartsConsistent`, `BaFilteredFirst`, `WokenAsAsked`. Each
part has an invariant over its own variables, kept by its own operators
(the first half of `Device_proofs`); `IInv` adds what the parts share
with the loop, and `InvInductive` has one lemma per conjunct. What `Consistent` needs and does not say:

* `psm = wakeIn`: the count of PRETBTTs left is always the host's, so that sleep ends (`SleepEnds`).
* The roll call of `KeyCam` and the job under way: a user out of the roll is the one whose key is being
  written, and a store changes no place of another user although rows are shared (`UsersApart`).
* `HangsInCam`: the loop can only hang in the key memory, where the watchdog counts (`Guarded`).
* `RxBeforeTxc`: outside the receive handler a waiting frame has left its interrupt bit, and what
  waits during the completion handler arrived after the bit was sampled (`BaBeforeBar`).
* `BusInv`: while the firmware takes the host for asleep, the bus sleeps or RESUME or RESET is on
  its way; that is why the clock never stays off on a bus that is awake. While the host may be woken, `macReg` is zero.
* `WolInv`: the fields of the command that never arrive are zero, `last_beacon` is no older than the sleep, and
  `wakeUp` implies that a frame was handled which can wake the host (`WakeJustified`).
* `Unmarked`: the frames in `rx_queue` that the MAC did not mark as another receiver's were for everyone
  or for the address it had when they came: those behind the first `before` for the address zero.

`DmaRing_proofs` proves, for any number of blocks, from the assumptions of `DmaRing` alone:
`RingsInStep` (`Inv`), `NeverTorn`, `WakeupsKept`, `ReservedStaysHome`, and that the rings implement
`PacketPipe` (`RingsArePipe`). The state does not say which descriptors form a packet; the walks
along `next` and `last` do. So `IInv` asks that there *is* a partition of the descriptors into
packets, in order for each queue, which the links agree with, and each step is shown to lead from a
partition to another: `Begin` takes a head packet out, the stores into the old terminator turn it into
the first descriptor of the packet that is put, its own first descriptor into the new terminator.
That the walks of the model, recursive functions over the number of steps, find the packets of
the partition is proved by induction over that number (`Induct` of `RingArithmetic`). The pipe is then the
data of the packets in the partition's order, and a step is a step of the pipe or a stutter: a packet is
taken, published, filled, sent or sent again; the copies and the triggers stutter.

`WlanTx_proofs` also proves that `WlanTx` implements `TxService` (`ImplementsService`): a frame is tried
until it succeeds or its budget is used up, and reported once, with the outcome of its last
attempt. `TriesMade` is the invariant it needs: the attempts a frame has had are the sum of the
tries of the rates before `rix`, and `cnt` of those of `rix`. The sum is a recursive function; that it exists, grows
and is the budget at the last rate is proved by induction (`BeforeSteps`, `BeforeGrows`).

`WlanHang_proofs` proves, for any number of blocks, queues, tries and ticks, from `HangAssumption` alone:

* `KilledStayDead` (`Inv`) and `OnlyStuckAreKilled` from the invariant `IInv`: no descriptor is in two
  places and no frame in two descriptors (`Shape`); the frames of a queue were sent through it (`QueueOf`),
  so that the completion handler clears the counter of the queue it works on; what the check has counted, it
  counted while the queue was silent (`Counts`, `EmptyFresh`); a killed frame waits in a queue,
  processed and without tries (`KilledWaits`); the reset finds what the check saw (`Seen`).
* `QueuesRecover` (`Recovers`) from `IInv` and a bound that falls with every tick, `AllBounded`:
  the ticks until the hang check resets the MAC if it stays at its payload (`TicksLeft`, from
  `last_super_num` and `mac_reset`), plus as many again for each place it may still come to (`PlacesLeft`): the
  terminator, where a put puts a frame under it; a frame behind others; the head. A reset kills the head or puts
  the MAC at it. A head that is processed waits for the completion handler instead, which comes before the
  next tick (`Due`).

`FwImage_proofs` proves `ImageIsSound` (`ImageSound`), for any firmware and miniboot files, limits of size, tools, runs
and faults, from `ImageAssumption`: the files are sequences of code, a firmware has some, and the smallest size
is not zero. The proof is about checksums without collisions, as modelled; a CRC has some.
The invariant `ImageInv` says what no single action shows:

* `Layout`: before the head of the descriptors and behind LAST there is nothing but code, and there is at most one
  checksum. Every file that comes about has it: linked, cut short, stored or damaged. The last OTAR of a file is
  therefore its only one, which `carlfw_load()` takes for granted.
* `ChecksGenuine`: a checksum descriptor with both of its halves undamaged holds what some store computed. So a
  file that passes is one that was vouched for (`OnlyVouched`), whatever else in it was damaged.
* `ProcOK`: the lists of a program are well formed and counted (`Firmware`), a store holds its checksum at the end
  of the list (`Checksummed`), and the file is the first n pieces while the rest is still to do (`InFile`). A file of n
  pieces has no LAST descriptor (`CutShortRefused`); with all of them, the head is found where the image ends, the list is
  read up to LAST, the checksum covers the list without itself, and computing it again gives the same (`RoundTrip`).

What the recursive functions return (`Unchecked`, `WithDescs`, `TotalLength`) is proved by induction over the
list, since Append, RemoveAt and the change of an entry are all that is ever done to one.

Each of these invariants was checked with TLC before it was proved, on the instances of the runs or smaller ones and, for `AllBounded`,
by simulation of a larger one too.

Model-checked only: all liveness (`Reported`, `CommandsResume`, `EveryMessagePacked`, `BuffersReturn`,
`EveryFrameReported`, `HostWoken`), as the prover knows neither ENABLED nor fairness; the program `conf`
(`SessionSound`, `FilesAgree`, `KilledSafely`, `LanguageSound`), whose operators are recursive;
what the three violated runs refute. Induction is available for properties given as sets of naturals, which
is enough for walks and sums; over expressions and symbols it is not.

## 6. Plan

1. Sequence numbers, fragments, MOREDATA and the TIM bit as an extension of `WlanTx`.
2. `WlanHang` over `WlanTx`: the promise `TxService` with resets.
3. `TxStatusRing` over `IntRing`: an overrun seen from the transmit path.
4. The clock with w-bit arithmetic: `is_after_msecs()` is right up to about 97 seconds only.

## 7. Not modelled

* Register programs without state: the tables of `rf.c`, `clock_set`, `turn_power_off`, the baseband.
* `fifo.c` and `usb_fifo.h`, compiled only into an image that switches its mode; debug output
  (`printf.c`, `uart.c`), the assembly helpers, minifw.
* `handle_download_exception()`: depends on the position register after an undocumented fault
  (the code calls it "guesswork and MAGIC"); it is listed as a hazard.
* `tally_update()`: counters nothing depends on.
* The packet `tools/src/wol.c` sends; what `fwinfo` prints beyond the kind of a descriptor.
* The texts of the configuration program: messages, help, search, the spelling of `.config`.
  `ifdef`s that choose between hosts.
* The headers `ieee80211.h`, `ch9.h`, `hw.h`, `phy.h`: constants and layouts. They are more than a quarter of
  the source lines; what a handler takes from them is mapped to the handler.

Assumed of the build: security engine, radio functions, GPIO, MAC reset, WoL with the nl80211
triggers and the standard USB commands on; debugging, mode switch and the queue bump off. Of the
environment of `conf`: `KCONFIG_WERROR`, `KCONFIG_OVERWRITECONFIG` and `KCONFIG_DEFCONFIG_LIST` are not set.
`conf_touch_deps()` is one step. Output of `$(shell,...)` is a constant of the instance, 1000 nested
expansions are 2.
