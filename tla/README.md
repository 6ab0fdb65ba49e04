# CherryUSB: verification development

TLA+ modules, TLC configurations and TLAPS proofs kept beside the CherryUSB
source tree (`src/`).  CherryUSB is a USB device and host stack for small
real-time systems.  Its difficulty is not in its computations but in who runs
when: interrupt handlers, the hub thread, optional MSC threads, application
threads and timers share unsynchronised structures, and a cable may be pulled
between any two statements.

## 1. Inventory

| Component | Source | State it keeps | Operations | Hard behaviour | What makes it correct |
|---|---|---|---|---|---|
| Byte ring | `common/usb_ringbuffer.h` | free-running counters `in`, `out`, pool | write, overwrite, peek, read, drop, linear setup/done, reset | one writer and one reader without lock; 32-bit wrap | a bounded FIFO |
| Block pool | `common/usb_mempool.h` | ring of free blocks, ring of sent blocks, counting semaphore | create, alloc, free, send, recv, reset | threads and callbacks on the two rings; reset while the semaphore counts | a block is in one place; recv succeeds when a block was sent |
| Device core: control pipe | `core/usbd_core.c` | setup packet, buffer pointer, residue, ZLP flag, next state | setup / IN / OUT completion, bus reset | a new SETUP in any stage; completions of driver-chosen size; reset in any stage | every transfer has the stages USB 2.0 ch. 8.5.3 prescribes and moves the right bytes |
| Device core: requests | `core/usbd_core.c` | address, configuration, alternates, open endpoints, suspend / wakeup flags | standard requests, bus events, registration | resets, suspends, configurations in any order; an endpoint that fails to open | the endpoints of the selected alternates are open; class drivers know the state |
| URB layer (DWC2) | `port/dwc2/usb_hc_dwc2.c`, `common/usb_hc.h` | pool of host channels with a binary semaphore each; URB errorcode, timeout, hcpriv | submit, channel interrupt, kill | timeout racing the interrupt; kill from another thread; split transactions in every stage | a channel belongs to one URB; a waiter gets its own completion |
| URB layer (EHCI, OHCI, XHCI, MUSB, ...) | `port/*/usb_hc_*.c` | QH/TD pools | as above | as above | as above |
| Hub thread and enumeration | `class/hub/usbh_hub.c`, `core/usbh_core.c` | port tables, address bitmap, hub slots, message queue, interrupt URB, timer | connect / disconnect, interrupt callback, timer, events, enumerate, release, deinitialise | unplugging between any two transfers; failure of any step; a hub that goes with its ports | addresses are unique, nothing outlives its hub, the tables follow the wire |
| Control transfers of the host | `core/usbh_core.c` | one URB and mutex per port | control transfer with three tries | release deletes the mutex others wait for | one transfer at a time per port |
| OTG | `core/usbotg_core.c` | requested mode, role flags | request mode, thread, init / deinit of each role | mode changes while a change is in progress | device and host stacks are never up together |
| MSC device | `class/msc/usbd_msc.c` | BOT stage, CBW, CSW residue, sense, sector cursor, one block buffer, an event or a queue of one message | bulk callbacks, reset and configuration, the worker thread or `usbd_msc_polling` | worker and callbacks share the buffer and the cursor; block I/O fails midway; a host that gives up | every CBW gets one CSW and the device is ready for the next; the blocks hold what was written |
| MSC host | `class/msc/usbh_msc.c` | CBW/CSW buffer, geometry | connect, scsi_init, read, write | an error in any of three stages; no recovery after one | a call that returns 0 did what it says |
| Serial host | `class/serial/usbh_serial.c` | two rx buffers, ring, pending flag, error code, semaphore | open, close, read, write, set attributes, rx callback | callback against reader; flow control by not resubmitting | bytes in order; reception never stops for good |
| Other classes | `class/{hid,cdc,audio,video,wireless,dfu,adb,...}` | per class | descriptor parsing, class requests, pipes | mostly sequential | request decoding |
| OSAL, platforms, demos, tests, vendored code | `osal`, `platform`, `demo`, `tests`, `third_party` | | wrappers, samples | | external |

**How they interact.**  A device controller driver calls the device core from
its interrupt: a SETUP packet, the end of an IN or OUT transfer, a bus event.
The core arms the next transfer with `usbd_ep_start_read/write` and calls the
class driver's handlers.  On the host side the root port's interrupt and the
interrupt pipes of external hubs put messages into the hub thread's queue; the
thread resets, enumerates and releases ports by synchronous control transfers
on the URB layer, whose channel interrupt wakes the waiting thread by the
channel's semaphore or calls the URB's completion callback.  Class drivers,
timers and applications submit and kill URBs from their own threads.  Serial
and audio classes pass bytes between callbacks and threads through the ring.

## 2. Modules and their order

| Module | Models | Composition |
|---|---|---|
| `ByteFifo` | what a ring promises | |
| `UsbRingbuffer`, `MCUsbRingbuffer`, `UsbRingbufferProofs` | `usb_ringbuffer.h`; theorems | implements `ByteFifo` |
| `ControlTransfer` | what a control pipe promises | |
| `UsbdEp0`, `MCUsbdEp0`, `UsbdEp0Proofs` | EP0 of `usbd_core.c` with driver and host; theorems, with the refinement | implements `ControlTransfer` |
| `UsbdDevice`, `MCUsbdDevice`, `UsbdDeviceProofs` | requests and bus events of `usbd_core.c`; theorems | takes EP0's accepted requests as its inputs |
| `Dwc2Urb`, `MCDwc2Urb`, `Dwc2UrbProofs` | URBs on DWC2 host channels; theorems | |
| `UsbhHub`, `MCUsbhHub`, `UsbhHubProofs` | hub thread, enumeration, address bitmap; theorems | abstracts `Dwc2Urb`'s synchronous transfers to success or failure |
| `BlockDevice` | what the callers of the MSC host are promised | |
| `UsbdMsc` | the MSC device in its three builds | |
| `MscLink`, `MCMscLink`, `MscLinkProofs` | the MSC host; theorems | composes host and `UsbdMsc` over the wire; implements `BlockDevice` |
| `UsbhSerial`, `UsbhSerialProofs`, `UsbhSerialOrderProofs` | reception of the serial host; theorems | its ring is `ByteFifo`'s queue |

The order is that of the plan: the control pipe and the URB layer carry
everything else, then the hub thread, then the two classes with the most
concurrency of their own.  Left of the plan: the block pool with its semaphore
(`usb_mempool.h`), the role changes of `usbotg_core.c`, and the queue-head life
cycle of EHCI as a second implementation of what `Dwc2Urb` promises.

## 3. What is modelled, and how it corresponds to the code

**`UsbRingbuffer`.**  `in` and `out` are the free-running counters (modulo
`Modulus`, the code's 2^32), `buf` the pool.  Every byte a `memcpy` moves is a
step, and the counters are read, used and published in separate steps, so one
writer and one reader interleave in every way two threads, or a thread and an
interrupt, can.  `ByteFifo` is the abstract queue.  A call hands its bytes in
before it begins (`handed`), and a put appends the first of them, as many as fit:
the refinement says that nothing is invented on either side, and that each
operation takes effect at the step that publishes its counter.  Resets and
overwriting need both sides, and run only while the other side is idle, as their
callers must see to.

**`UsbdEp0`.**  `setup`, `next`, `ptr`, `residue`, `zlp` are the fields of
`g_usbd_core`; `SetupHandler`-style actions are the three completion handlers,
whole.  External are the driver (which may complete an OUT transfer packet by
packet and reports the bytes) and the host, which may abandon a transfer with a
new SETUP or a reset at any moment, even between the end of a transfer on the
wire and its handling.  `ControlTransfer` is the host's view of chapter 8.5.3.

**`UsbdDevice`.**  One action per standard request that changes state and per
bus event: address, configuration, alternates, the set of open endpoints and
what the class drivers were told last.  Descriptors are a constant, and so are
the outcomes of an open (`Outcomes`).  `chosen`, `refused` and `zeroed` are
history: what the host selected, the endpoints the driver would not open, and the
interfaces whose alternate 0 a SET_INTERFACE selected.

**`Dwc2Urb`.**  `hc.ch` is `chan_pool`, `hc.urb` the fields of `struct
usbh_urb`, `hc.hw` the channel registers.  Each critical section, and each
unprotected access between two, is a step of a thread; the channel interrupt is
one step.  `Split` selects split transactions, `Impatient` requests whose
timeout may run out, `Killable` those another thread (or, with `OwnerKills`, the
owner between its own calls) may kill, `OneCore` whether a pending interrupt
always precedes the next thread step.  In both passing configurations a timed
wait may run out and owners kill their requests.  `past` is history: a completion
came after its wait had run out (`stale`), a kill met a transfer that had just
ended (`raced`).  After the first the semaphore lies, and nothing more is promised
(`dwc2_late` shows why): every property is stated until then, and the constraint
`NotStale` ends the exploration there.

**`UsbhHub`.**  `h.port` is `struct usbh_hubport` (connected, dev_addr, a class
instance), `h.used`/`h.last` the address map, `h.slot` the one entry of
`g_hub_class` with its timer and URB, `h.mq` the queue.  A step of the thread is
one control transfer or register access and the code up to the next one, so a
plug may move between any two.  `wire` is what is really there: plugs, change
bits, and the address every device answers to; a transfer succeeds when the
device it addresses answers.  `usbh_hubport_release` with a hub's disconnect is
one operator (`Released`), as in the code.  `deinit` is where
`usbh_hub_deinitialize` is: its NULL goes into the queue ("sent"), waits for room
("full") or is dropped ("lost"), for `usb_osal_mq_send` waits on some systems and
not on RT-Thread and ThreadX (`Sends`), and its result is not looked at; then the
thread gives the semaphore ("given"), and the queue is deleted a second time
("done", or "fault" where the allocator looks).

**`UsbdMsc` and `MscLink`.**  `d` is `struct usbd_msc_priv` with its two
endpoints, `disk` the medium, `worker` what the thread, or `usbd_msc_polling`,
has read before it calls `usbd_msc_sector_read` or `_write`.  An access of the
worker is two steps, so a callback can fall into it.  `mode` is chosen at the
start and stands for the three builds (`CONFIG_USBDEV_MSC_THREAD`,
`CONFIG_USBDEV_MSC_POLLING`, neither), so one run checks all of them.  Lengths
are in units of a wrapper (`CbwLen`, `CswLen` are 1) and a block is `BlkSize` of
them: a CBW is then shorter than a block, as 31 bytes are, and can still land in
the block buffer.  A command's decoding is told apart by what its handler does
(no data, an answer from memory, read, write, refused).  A step on the wire
moves one device transfer and runs the device's callback, since nothing of the
device can happen between them; the host's URB may take several such steps.
`h` is the host's thread: `usbh_msc_scsi_init`, then the calls of the user, each
the three URBs of `usbh_bulk_cbw_csw_xfer`.  The user's calls also ask for what a
well-behaved driver would not, past the end and zero blocks, since the host code
does not look.  A CBW carries the low 16 bits of a call's number of blocks
(`Cbw`, modulo `U16`); the URB of the data has that length too, and `asked` keeps
what the user wanted, which is what `BlockDevice` is shown.  `Faults` names what
may go wrong; "recover" lets another host
perform the reset recovery that `usbh_msc.c` lacks, so that the device's side of
it is checked too.

`BlockDevice` promises that a call which returns 0 has read what the blocks
hold, or left its data in them, and that no other block changes.  A write whose
call has failed may still go on (`late`), and no call returns 0 before that is
over.

**`UsbhSerial`.**  `s` is `struct usbh_serial`, `rb` its ring, `urb` the bulk IN
URB, `iob` the two halves of `iobuffer`.  The callback runs in an interrupt of
the core the thread runs on, so the thread stands still while it copies
(`cb.busy`), but not the hardware: the callback submits the URB again before it
copies, and the device fills the other buffer meanwhile.  `usbh_serial_read` is a
step per access to shared state, and its restart of the reception five: the test of
`rx_pending` behind the look at the room, its clearing, the clearing of the error
code, the filling of the URB from `rx_buf_index`, and the submission.  The callback
falls between any two steps.  Bytes are numbered, so `InOrder` tells any loss of
order and any repetition, and `seen.lost` counts every byte thrown away, those of
a packet whose URB is refused included.  `seen` is history that only the
properties read.

Named bounds: `MaxLen`, `BufLen`, `MPS` (control pipe), `Size`, `Modulus`
(ring), `MaxAddress` (device), `Packets`, `NChan`, `Events` (URBs), `MaxMoves`
(moves of plugs), `MaxReads`, `Stable`, `QLen`, `Max`, `NChild` (hub), `Blocks`,
`BufSize`, `U32`, `U16`, `MaxChecks` (MSC), `MaxBytes`, `MaxZlps`, `MaxSets`, `RxSize`
(serial).

## 4. Runs

| Run | Shows | Why the bounds are enough |
|---|---|---|
| `ringbuffer` | types, clamps, no slot written while unread, refinement of `ByteFifo` | four slots and counters modulo 8 wrap in every phase; two distinct bytes, and every call that hands in up to as many as there are slots, tell any misplacement |
| `ep0` | types, residue accounting, buffer bounds, complete OUT data, order of IN data, agreement of `usbd_get_ep0_next_state`, refinement of `ControlTransfer`, every transfer ends | two-byte packets, a four-byte buffer and requests to six bytes give one, two and three packets, exact multiples, and requests beyond the buffer |
| `ep0_zero_reply` | **fails**: a handler that accepts an IN request with no bytes leaves the status stage unanswered | |
| `device_requests` | endpoints of selected alternates open, class drivers informed | two interfaces, one with an empty alternate, and an endpoint that two alternates have; any endpoint may fail to open |
| `dwc2_transfers` | success means all stages in order; a woken waiter's transfer is over and its channel still its own; no handler follows a NULL URB | three URBs compete for one channel, one of them with a wait that may run out, one killed by its owner in any stage; two split packets per data stage; every handshake |
| `dwc2_cancel` | URBs and channels point at each other; no channel leaks | two channels, three URBs: a kill of either asynchronous one and an expired wait of the synchronous one between any two critical sections |
| `dwc2_late` | **fails**: a completion between a wait that has run out and `urb->timeout = 0` leaves the semaphore signalled | one channel; the request waits again |
| `msc_link` | types, one place at a time, host and device in step, nothing fails unless something goes wrong, refinement of `BlockDevice`, the medium is mounted | a buffer of two blocks and calls of one, two and three give one chunk, a full and a short last one; three blocks and overlapping writes show data in the wrong place; calls past the end, of no blocks and not served; counts modulo 16, a CBW's number of blocks modulo 4 |
| `hub_tables` | types, unique addresses, nothing outlives its hub, deinitialisation returns, though any transfer may fail | three ports, six moves; four addresses for three ports, so that the search wraps; a queue of three, which the six moves fill |
| `hub_follows` | answers on the wire unique, polling never dies, the tables follow the wire | six moves reach a swap in every phase of an enumeration of a hub and of a device behind it; the queue has its real length |
| `hub_stuck` | **fails**: a hub pulled before its port's change bit is cleared holds the hub thread for ever | |
| `serial_reception` | types, order, no loss, a URB that is not submitted is marked, reception goes on, a reader hears of failures | five bytes through a ring of four in packets of up to two, read two at a time: the ring fills and wraps, the URB is parked in either buffer; one packet without data; the line is set again in any state, so that `rx_pending` is stale; every fault |

**Fairness.**  `UsbdEp0!FairSpec`: pending completions are handled (interrupts
are taken) and the host repeats the tokens of its transfer (it does, until it
abandons it, which is an unfair action of its own).  `UsbhHub!FairSpec`: the hub
thread runs, one-shot timers run out, a submitted interrupt transfer completes
with data, NAK or error, and the thread in `usbh_hub_deinitialize` runs when it
can.  The queue of `hub_tables` has three places because a hub's own messages take
two at most once the plugs rest: in a queue of two they could take every place
that falls free, and that a waiting sender is not passed over for ever is the
scheduler's promise, not this code's.  `MscLink!Fairness`: the wire moves what both sides are
ready for, the worker is scheduled, timeouts run out, a configuration and a
begun recovery come, and the mounting thread makes its next call; the user's
calls, resets and failures of the medium are never fair.  `UsbhSerial!Fairness`:
callbacks run, a device whose IN pipe is polled sends what it has, and a user
who has opened the adapter goes on reading.  Plugs, kills, resets and new
requests are never fair.

**Deadlock** is not checked for the runs of `Dwc2Urb` (the model stops at a fault,
and a thread may wait for hardware that never ends), nor for those of `UsbhHub`
(deinitialisation ends the system, and a thread in the loop of `hub_stuck` takes
no step), nor for `serial_reception` (the device has a bounded number of bytes,
after which a reader rightly waits for ever).

**Some properties hold up to a known fault**, and say so:

- `Follows` and `DeinitReturns`: unless the thread is stuck, the state `hub_stuck`
  exhibits.  `DeinitReturns` begins when the NULL is in the queue or waits for
  room: one that is dropped is never answered.
- `TransferEnds`: but for the empty reply that `ep0_zero_reply` exhibits.
- Every property of `Dwc2Urb`: until a completion comes after its wait has run
  out, which `dwc2_late` exhibits; `NoFault` also until a kill meets a transfer
  that has just ended.
- `SelectedAreOpen`: but for endpoints the driver refused to open (only the last
  result is seen, `usbd_core.c:374`) and for an alternate 0 that a SET_INTERFACE
  selected (`:441` closes its endpoints and opens none).
- `NothingLost`: unless a callback came between a read's look at the room
  (`usbh_serial.c:499`) and its submission, or the URB of a callback was refused
  (`:125`).  `InOrder`: unless a callback came between the filling of the URB and
  its submission.
- `Storage`: for calls of fewer than 2^16 blocks (`CallsFit`).

What happens without these exceptions is in section 7.

## 5. Proofs

`tlapm` checks every theorem below to its last leaf, from the assumptions named
and nothing else.

| Theorem | Establishes | Assumes |
|---|---|---|
| `RingTypes`, `RingUsedFits`, `RingClamps`, `RingNoOverlap` (`UsbRingbufferProofs`) | the ring's types; the fill level never exceeds the pool; the length either side has clamped stays valid while the other one moves; no slot is written while it is unread | `SizeAssumption` (a pool of at least two, smaller than the range of the counters, which it divides), `DataAssumption` |
| `RingRefines` | whatever the order of the two sides' byte copies, the ring is the bounded queue of `ByteFifo`: what is read are the bytes the write calls were handed, in their order | as above |
| `Ep0Types`, `Ep0BufferBounds`, `Ep0ResidueAccounts`, `Ep0HandlerSeesAll`, `Ep0InOrder`, `Ep0NextStateAgrees` (`UsbdEp0Proofs`) | the safety properties of the control pipe; the residue never underflows | `Ep0Assumption` |
| `Ep0Refines` | the three handlers implement `ControlTransfer` | as above |
| `DeviceTypes`, `DeviceClassInformed` (`UsbdDeviceProofs`) | the core's fields keep their types; the class drivers of a configured device know it | `DeviceAssumption` |
| `DeviceSelectedAreOpen` | the endpoints of the selected alternates are open, but for refused ones and a selected alternate 0 | also `OwnEndpoints`: no two interfaces share an endpoint (USB 2.0, 9.6.5) |
| `MscTypes`, `MscOneToken` (`MscLinkProofs`) | every length handed to an endpoint fits the block buffer and every count 32 bits; the device is at one place of a command at a time | `MscAssumption`, `LinkAssumption`, no reset while the medium is accessed |
| `MscInStep`, `MscNothingFails` | the device never sends more than the host's URB takes nor takes data for a command; no call fails and no timeout expires before something goes wrong | also `Patient`: no timeout before the device is at rest, and no command longer than 32 bits |
| `MscStorage` | host and device implement `BlockDevice`: a call that returns 0 has read what the blocks hold or left its data in them, and no other block changes | also `NoAddressWraps`: no command ends beyond block 2^32; and `CallsFit`: no call is of 2^16 blocks or more |
| `UrbAttachment`, `UrbPoolAccounts`, `UrbFreedWhenDone`, `UrbFreesOwnChannel` (`Dwc2UrbProofs`) | a URB and a channel point at each other or not at all; the pool loses no channel and lends none twice; a woken thread finds its own request over and frees its own channel; each until a completion comes after its wait has run out | `UrbAssumption`, `Disciplined`: on one core a URB is killed, if at all, by its owner between its calls (waits may run out at any moment); on several nobody kills and no wait runs out |
| `UrbSuccessIsComplete` | a URB that ends with errorcode 0 has gone through all of its own stages, in order | as above |
| `UrbNoFault` | no handler meets a channel without a URB, until a kill meets a transfer that has just ended | as above |
| `HubTypes` (`UsbhHubProofs`) | the host's tables keep their types, the message queue its length | `HubAssumption` (an address for each port and one more, a queue, a debounce of at least one read) |
| `HubAddressesUnique` | two connected ports never share an address, and an address in use is marked | `HubAssumption` |
| `HubNoOrphans` | ports, pipe and timer of a hub go with it; a class instance goes with its port | `HubAssumption` |
| `HubAnswersWithRoom`, `HubAnswersUnique` | no two devices on the wire answer to one address | also `Sound`: only the interrupt pipe fails without cause; and the addresses never run out, or there is one for every port, every move of the plugs and four more |
| `HubPollingWithRoom` | the polling of a registered hub that answers never dies while `hub_mq` has room for one more message | also no errors of the interrupt pipe, a hub with ports |
| `SerialTypes`, `SerialNothingLost`, `SerialParked` (`UsbhSerialProofs`) | every value in its range; no byte is lost but after a callback between a read's look at the room and its submission, or with a refused URB; a URB that is not submitted is marked, or a read is submitting it | `SerialAssumption` |
| `SerialInOrder` (`UsbhSerialOrderProofs`) | bytes reach the user in the order they were sent, none twice, unless a callback came between the filling of the URB and its submission | `SerialAssumption` |

**Ring.**  `UsedFits` is not inductive: the step that publishes the write counter
adds a size that was clamped several steps earlier.  `RingInv` adds the types and
`ClampStaysValid`, which says that what was clamped still fits; the other side
can only make more room.  The unsigned arithmetic is four lemmas about one wrap;
`RingNoOverlap` then follows from where two intervals of the free-running
counters fall in the pool.  The refinement carries `Data` besides: every unread
slot holds a written byte, behind them lie the first of the bytes the call was
handed, each at the place its offset in the caller's data gives it, and the bytes
a reader has copied are the oldest of them.  A copied byte changes
nothing the queue can see, and each published counter is one step of the queue.
It is what allows `UsbhSerial` to take its ring as a queue.

**Control pipe.**  What the host has moved and what the core believes meet only
through the armed transfer, or the completion between the two; no property of
the pipe is inductive without saying so.  `Ep0Inv` states, for either direction,
what both sides know while there is such work (`InWork`, `OutWork`: pointer plus
residue is the total, the host's count is the pointer plus what is in flight),
that there is at most one such piece of work (`Exclusive`), what a finished or
abandoned transfer may leave behind (`LeftOver`, `Resting`), and that while the
host is in a data stage somebody answers (`Listening`, `Answering`) or the stall
is deserved (`SaysNo`).  The refinement is one lemma per action: each maps to a
step of `ControlTransfer` or to a stutter.  `ControlTransfer` states no fairness,
so this is the whole of `RefinesControlTransfer`.

**Device requests.**  `SelectedAreOpen` is inductive with the types, since the
history says what the code forgets: which endpoints were refused, and which
interfaces had their alternate 0 selected on its own.  `OwnEndpoints` is needed:
without it, closing an alternate of one interface would close an endpoint of
another.

**MSC.**  `OneToken` is why one block buffer is enough: whatever the host gives
up and starts anew, an endpoint, the pending event and the worker never have it
together.  `MscInv` adds that an unconfigured device has nothing under way, that
what goes out was put in the buffer (`WholeBlocks`) and that no URB has more left
than its call (`LeftOfCall`).  A reset during an access breaks `OneToken`: the
worker ends after the endpoint was armed again.  `PaceInv` says where the host is
while the device is at each of its places.  While nothing is halted
(`Together`) a data phase is at one of six places, each with the same number of
blocks left on both sides: the answer is armed (`Informs`), a chunk is read from
the medium (`Reads`) or on its way (`Sends`), asked for (`Asks`) or waiting for
the medium (`Stores`), or the medium has failed and the host does not know yet
(`Fails`).  While an endpoint is halted (`Apart`) it is the IN endpoint at least,
and the OUT endpoint too wherever the host still has data for a device that
listens.  A step from place to place is a lemma of its own, used by the irq build
and by the worker alike.  Without `Patient` the two lose each other: a timeout
during an access leaves the device at `Stores` while the host is at the next CBW,
and a command whose length wraps asks for less than it announces.
For `Storage`, `StoreInv` follows the blocks: `Writing` says that the blocks of a
write before the chunk under way hold its data and that the chunk is the data
that comes next, wherever it waits; `Reading` that what a read has got and what
is on its way are the first blocks of the call; `Done` that a call whose good
status is on its way has done all of it.  A write goes on after a call that
failed only as the last chunk of that call, so its blocks are still the ones
`BlockDevice` calls late, and the next command is not taken before it is over.
`NoAddressWraps` is needed because `SCSI_read10` and `SCSI_write10` check a sum
of 32 bits (`usbd_msc.c:521`): a range that ends beyond it passes for one at the
beginning of the medium.  `CallsFit` is needed because `usbh_msc.c:406`, `:411`,
`:425` and `:431` keep 16 bits of the number of blocks and say nothing: with it
the device is asked for what the user asked for (`AskedFits`).

**URBs.**  `Good` relates the tables to the threads: which channels are lent
(`Pointing`, `Reserved`, `Lent`), what a thread at each place of
`usbh_submit_urb` knows of its URB (`Knows`), whose completion a signalled
semaphore reports (`Signals`), and that a channel which runs or has ended belongs
to a URB still under way, but for one that ended inside `usbh_kill_urb`
(`Running`).  Its parts are operators of a state, so there is one lemma per
function of the driver (`dwc2_chan_free`, `dwc2_urb_waitup`, ...) and a handler is
their composition; a callback that submits again is dealt with as the three steps
of a thread.  A thread whose wait has run out gives its channel back by a kill of its
own, which is dealt with as any other.  `Good` holds until `past.stale`: from the
completion that signals a semaphore nobody waits for, `Signals` is false.
`Disciplined` is not a convenience: with a kill from another thread a channel is
freed twice (section 7).  One core matters because on it an interrupt
that a kill has held back precedes the next thread.  For `SuccessIsComplete`,
`Trail` relates what a URB has seen to the stage its channel runs and to the
packets left (`Fits`), and to one stage more when the transfer has ended well but
its interrupt is still to come (`EndedWell`).

**Hub.**  `AddressesUnique` and `NoOrphans` are not inductive, because an
enumeration is a dozen steps between which anything may happen.  `HubInv` adds
four facts about the thread: the hub it works for is registered and its port
belongs to that hub (`ThreadOwns`); the port it fills is connected without a
class, and has no address before SET_ADDRESS (`Filling`); the address it has
allocated but not set is marked, and in no table (`Held`); a slot not in use is
empty (`SlotWhole`).  `Held` is what makes SET_ADDRESS safe, and `ThreadOwns` why
a port behind a hub is only ever connected while that hub is registered: nothing
but the thread itself can take the hub away.  Two lemmas carry the argument,
`AllocatedFree` (the search for an address returns a free one or none) and
`ReleasedFacts` (what a release leaves of the tables, hub or not); then there is
one lemma per action.  The theorems hold for every set `Faults`, that is for
every pattern of failing transfers, any number of ports and any number of moves
of the plugs.  On the wire more is needed: `Agrees` says that a device which
answers to an address is the one the tables have there, that only the thread's own
device may still answer to 0, and that nothing behind a silent hub answers at all.
Every step is of one of a dozen kinds (`Kind`), named for what happens to the
devices, and each kind keeps the agreement.  A transfer that fails without cause
breaks it, as SET_ADDRESS may then have reached the device after all; so does a
device for which no address is left.  `Paid` counts the addresses that nobody has
and nobody gives back: one is lost when a device is pulled between its descriptor
and SET_ADDRESS, so there are no more of them than moves.  `PollingAlive` holds
because whatever ends one round of the polling starts the next: the timer, the
interrupt URB, a message or the thread itself (`Alive`).  The one thing that can
be lost is a message to a full `hub_mq`, which is what the theorem's premise
excludes and the queue of seven in `hub_follows` never meets.

**Serial.**  `SerialInv` says that the URB and the callback are in different
buffers (`Buffers`), how much room each place of the reception keeps until a
callback comes late (`RoomKept`), and that a URB not submitted is marked even while
the callback copies (`Marked`).  For the order, what the user has, what the ring
holds, what the callback still copies and what has arrived behind it form a chain
(`Chained`); every step moves one end of a link into the next, and a byte that is
thrown away only shortens it.

## 6. Only model-checked

Every liveness property: `Mounts`, `TransferEnds`, `Follows`,
`DeinitReturns`, `Flows`, `ErrorTold`, and those two of the violation runs refute.
Liveness, `ENABLED` and what recursive definitions compute are beyond the prover.

## 7. What the checks found

Exhibited by a run: the empty reply (`ep0_zero_reply`), the completion after a wait
that has run out (`dwc2_late`; the comment at `usb_hc_dwc2.c:1086` says "we can
free chan when waitsem is done", and a stale signal of the pooled semaphore frees
a channel the hardware runs) and the stuck hub thread (`hub_stuck`).

Shown by TLC when a constant or an exception of a passing run is changed, and
listed as hazards:

- without the exception of `past.raced` `NoFault` fails: `dwc2_halt` leaves a
  channel alone that has just ended, and its interrupt then follows a NULL URB;
  and where another thread kills a request that is waited for (`OwnerKills` FALSE),
  `FreesOwnChannel` fails;
- with a call of 2^16 blocks or more `Storage` fails: the CBW asks for what the low
  16 bits leave, and the call returns 0;
- with "slow" in `Faults`, `Storage` fails: the host gives up a write of several
  chunks, its next CBW arrives as data of the first, and that call returns 0 with
  the first one's status;
- with a read of blocks that end beyond 2^32, `Storage` fails: the sum at
  `usbd_msc.c:521` wraps, the range passes and the medium is read where it has
  nothing;
- with "busy" in `Faults`, `Storage` fails: a reset while the worker accesses the
  medium, after which the access ends inside the next command;
- without its exceptions `NothingLost` fails, though no transfer fails: a stale
  `rx_pending` lets a read submit a URB that the callback has just parked;
  `InOrder` fails without its own, as the buffer was chosen before the callback
  switched it;
- without its exceptions, or with an endpoint that two interfaces share,
  `SelectedAreOpen` fails;
- from "lost" `DeinitReturns` fails: where a send does not wait, a full queue drops
  the NULL of `usbh_hub_deinitialize` (`usbh_hub.c:759`), which then waits for ever.

Read in the code and in no property:

- `usbh_serial_cdc_write_async` returns -USB_ERR_INVAL once the line is set: a
  `!` is missing at `usbh_serial.c:527`;
- SET_INTERFACE records the alternate before it searches the descriptors, and
  ignores the result (`usbd_core.c:655`); a bus reset keeps the alternates, the
  remote wakeup and the suspend flag of the session before (`:990`);
- two threads may both pass the -BUSY check of `usbh_submit_urb`
  (`usb_hc_dwc2.c:995`), and a thread that waits for ever is only woken by a kill
  (`:1116`);
- without a free address `usbh_enumerate` returns the result of the parse, so
  the port keeps a device that has none (`usbh_core.c:395`); a release deletes
  the port's mutex while others may wait for it (`:629`); an address is lost
  whenever SET_ADDRESS fails, and address 127 always (`:417`, `:74`);
- `hub_mq` is deleted twice (`usbh_hub.c:707`, `:762`), which the model keeps as
  "done" or "fault" without a property about it; a refused hub with too
  many ports is released with its own port count (`:463`);
- `usb_mempool_reset` empties the ring of sent blocks and not the semaphore that
  counts them (`usb_mempool.h:131`).

## 8. Not modelled

The EP0 thread variant (`CONFIG_USBDEV_EP0_THREAD`), which does not compile at
this commit (`usbd_core.c:1361` uses a parameter the function lacks); descriptor
parsing and lookup, string formatting, logging, `lsusb`; the registers and DMA of
every controller but the DWC2 host channels, which is most of `src/port` by size
and has no behaviour without a model of each controller; isochronous transfers
(empty in the DWC2 host driver); more than one root port, external hubs behind
external hubs, Super-Speed hubs; on the MSC side sense data, the contents of the
answers from memory, several LUNs and GET_MAX_LUN; on the serial side the bulk
OUT pipe, the modem lines and the removal of the instance; the block pool, OTG
and EHCI, which the plan has not reached; the other classes, whose work is the
decoding of requests and formats; `osal`, `platform`, `demo`, `tests` and
`third_party`.
