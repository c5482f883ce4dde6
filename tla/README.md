# wifi_expander in TLA+

The firmware of this repository runs on a Silicon Labs EFR32BG13 and bridges a
serial line (the *host*, a Wi-Fi extender) and Bluetooth LE (the *phone*). Its own
code is `main.c`, `app/*.c` and `portable/mble_api.c`, about 3200 lines; the
rest is vendor code (Micrium OS, emlib/emdrv, the Bluetooth stack). This
directory models the firmware's own concurrent logic in TLA+, checks it with
TLC on small instances and proves its central invariants with TLAPS for every
instance.

## 1. The system

Task priorities (smaller is more urgent): link layer 3, Bluetooth stack 4,
ApplicationTask 5, App_Main 6, Ble_Event 7, App_Ble_Parse 8, Ble_Notify 9,
App_Uart_Poll 10, App_Uart_Parse 11, App_Uart_Send 12.

| component | source | state | operations |
|---|---|---|---|
| buffer pool | `app/buf_factory.c`, `app/list.c` | FIFO of free buffers | produce, recycle |
| serial transmit | `app/uart_communicate.c`, `app/uart_ptl.c` 206-275, `app/uart.c` 213 | `g_uart_send_list`, `poll` in every buffer, the static `disSendpdata`, `app_uart_send_msg` | uart_protocol_dispose and the replies, Poll (5 ms), Send, DMA interrupt |
| serial receive | `app/uart.c`, `app/uart_communicate.c` 84-173, `app/uart_ptl.c` 108-202 | DMA transfer, ring `UartRecvBuf`, parser state | idle-line interrupt, uart_recv, uart_get_data, procotol_check |
| firmware upgrade | `app/uart_ptl.c` 510-701, `main.c` 467-475 | `iap_str`, flash slot, flash record 1 | upg_request_rsp, upg_data_rsp, boot check |
| other commands | `app/uart_ptl.c` 328-506 | advertising data in the stack | handshake, advertising control and data |
| bridge to the phone | `app/uart_ptl.c` 840-868, `app/ble.c` 209-228, 391-571 | `notify_array`, `ble_recv_array`, `ble_mtu`, the static state of ble_get_data | Ble_Notify, App_Ble_Parse, attribute write |
| connection events | `app/ble.c` 119-248, 573-601 | `ble_conn_state`, `ble_conn_handle`, `ble_event_msg` | BluetoothEventHandler, Ble_Event |
| stack tasks | `rtos_bluetooth.c`, `app/ble.c` 264-279 | event flags, one command slot, one response buffer | BluetoothTask, LinklayerTask, command delegate, ApplicationTask |

They interact through shared memory and kernel objects. Producers (App_Main at
boot, Ble_Event, App_Ble_Parse, App_Uart_Parse) take pool buffers and list
them under `uart_poll_mutex`; Poll posts listed buffers to Send; Send recycles
replies, Poll recycles requests. App_Uart_Parse is fed by the receive interrupt,
runs the command handlers, marks answered requests, and forwards every other
frame to `notify_array`, from where Ble_Notify sends it to the phone. What the
phone writes goes through `ble_recv_array` to App_Ble_Parse. The stack tells of
connections one event at a time; every task that issues a stack command goes
through the one command slot. The upgrade is a conversation of requests and
answers on top of both serial paths, with the flash and the bootloader behind.

What makes it hard: preemption by priority with mutex inheritance, interrupts at
any time, buffers that travel between five tasks, queues without messages,
retries that race answers, resets in the middle of an upgrade, rings without a
test for room, connections that close and open between two steps of a task, a
command slot shared by four tasks. PROJECT.json lists each such hazard at its
line with the properties that cover it, or the reason why none does.

What makes each part correct: the pool and the list never share or lose a
buffer; replies leave once and in order, requests are retried a bounded number
of times; received bytes reach the parser once and in order; the flash slot
holds a prefix of one image, only a complete one is installed, and nothing else
is reported as installed; frames pass between host and phone whole and in order and never
reach the phone of a later connection; the device's state follows the stack's
and the host learns it; a command returns with its own response.

## 2. The modules

| module | what it is |
|---|---|
| `UartTx` | the serial transmit path with its scheduler |
| `Outbox` | what that path promises, without tasks, lists or interrupts |
| `UartTxOutbox` | the refinement mapping from `UartTx` to `Outbox` |
| `UartRx` | the serial receive path, from the line to the parser |
| `Upgrade` | the firmware upgrade; its requests are the requests of `Outbox` |
| `PhoneRx` | from the phone's writes to the frames App_Ble_Parse lists |
| `BleLink` | the connection, what the host is told of it, and `notify_array`; composes `PhoneRx` with the connection |
| `BgApi` | the event flags and the command slot of the Bluetooth stack, and the tasks that use them |
| `BgCommands` | what a caller of the stack is promised; `BgApi` with its mutex implements it |
| `Lists` | the entries of a list that are of one kind (`Pick`), used by the refinement mapping and its proof |
| `ListLemmas` | lemmas on lists, streams of bytes and rings, proved |
| `UartTxProofs` | type correctness of `UartTx`, proved |
| `UartTxOwnership` | ownership of buffers, posts, leaks, and the refinement of `Outbox` by `UartTx`, proved |
| `UartRxProofs` | types of `UartRx`, the bound on its parser, the order of the bytes and the receiver, proved |
| `UpgradeProofs` | types of `Upgrade`, what is stored, installed and reported, proved |
| `PhoneRxProofs` | the steps of `PhoneRx`: bounds of ble_recv_buf and the frames on their way, proved |
| `BleLinkProofs` | types, state, notifications and both directions of frames of `BleLink`, proved |
| `BgApiProofs` | types, events and commands of `BgApi`, and its refinement of `BgCommands`, proved |
| `MCUartTx`, `MCUartTxOutbox`, `MCUartRx`, `MCUpgrade`, `MCBleLink`, `MCBgApi` | small instances for TLC |

Definitions marked `Mutant` are not part of the system: each is the form a plausible
bug would give to the definition next to it, and shows that some property would
notice.

### UartTx

`free` is the pool, `sendList` the list, `poll[b]` the `uart_poll_t` of a
buffer. `delay` counts Poll passes, `RetryPasses` of them making the 500 ms. The
intrusive lists are sequences. A producer's send is the sequence Produce (or ProduceNull),
Point, Fill, Add with a preemption point before each; `disBuf` is the static
pointer of `uart_protocol_dispose`, set by Point, which notifications and requests write
through, while replies and forwarded frames use a pointer of their own
(`hand`) and have no Point. A request of `upg_data_rsp` is followed by the search for the request that was answered
(`Ack`): it marks any listed frame with the answer's number and cmd_id, whatever its `poll.type`. `upgFrames` are the buffers
whose frame carries cmd_id 0xD2 (REQ_UPG_DATA): requests, and, if `PhoneUpg`, also frames of the phone, which App_Ble_Parse forwards
with the header the phone gave them. Poll's pass is one step per entry, with post and `list_del` of a reply as
two steps, because Send could run between them if it were more urgent. Send
checks and clears `poll` and recycles in two steps.

`CanRun` is the scheduler: a task takes a step only if no ready task outranks it;
`Priorities` are a task's own and those it inherits, as owner of `uart_poll_mutex`, from the tasks it
blocks (os_mutex.c). Poll holds the mutex from `walk` to the end of its pass; producers hold it only
inside one step. The pool's own mutex protects one-step operations and is left out.
`OSQPost` (`Post`) hands the buffer to a pending Send or needs a kernel
message (`MsgPoolSize`) and room in the queue, else the buffer is dropped
silently.

`Timely` is the one assumption on timing: when TRUE, the transmission of a request ends before
its answer arrives and before its retry is due (500 ms against at most 35 ms on
the wire). With `Timely` FALSE answers and retries come at any moment, those for a
frame still queued or on the wire included. Properties that need it say so by
the run that checks them. A frame of the phone may be marked at any time in either case.

### UartRx

The host's frames, byte by byte: the UART appends to the DMA transfer;
the idle timer makes the interrupt run, in three steps (status, copy into the ring,
abort and restart), above all tasks; the parser takes one byte
per step as `uart_get_data` does. A byte is a digit in base `Radix`; `length_msb` and
`length_lsb` are two such digits and the checksum is modulo `Radix`. The two
early returns of `uart_get_data` lead back to its loop because
App_Uart_Parse_Task calls it again within 5 ms. Its test `data_len == 0` can never
hold after the `+ 1` and is left out. `outstanding` is a history
variable: the frames sent and not parsed yet. The host sends at most `Window` frames
ahead, which stands for the request and answer rhythm of the protocol.

`Gaps` TRUE: no byte arrives while the interrupt runs. With `Gaps` FALSE bytes
received between status and abort are lost, as in the code; the proofs cover both.

### Upgrade

One variable per field of `iap_str` that is read, the flash slot as the
sequence of units written, the record as a Boolean, and the requests by
sequence number (`asked`, `tries`, `answered`) as in `Outbox`. App_Uart_Parse
is interruptible between its calls: between the erase and the answer (`pc`
"init", "erased"), after the write of a piece ("next"), before the answered
request is marked ("mark"), and in the second before the restart ("delay"). A piece
is a range of units of one image; `bootloader_verifyImage` accepts exactly a
complete image. Everything that may go wrong is a *fault*, allowed by `Faults` and counted:
frames lost or damaged, an answer later than 500 ms, no free buffer (`Gets`: a handler
gets fewer buffers than it wants, so an acknowledgement may leave without the request
that should follow it), a failed flash write or erase, a record that is not written ("mark")
or not cleared ("clear"), a reset. `Reset` clears RAM and cuts what is on the line.

Poll runs every 5 ms and a frame of 128 bytes takes 12 ms, so requests already
answered are reaped before the next frame is complete; `Arrived` states it.
(Without it an answer could find an older request with the same number still listed.)

### BgApi

A caller's command is the sequence of memory accesses of a `gecko_cmd_*` function and of
`sli_bt_cmd_handler_rtos_delegate`: payload, header, `command_header`, `command_handler_func`, post of
CMD_WAITING, pend for RSP_WAITING, read of the response, with a preemption point before each. A command
is named by its caller and a serial number modulo 2; its payload, header and handler are three copies of
that name, so that a mixture shows. `BtCommand` executes what it finds (`rsp`) and counts in `ran` how often
the command of each caller was executed. BluetoothTask keeps the local `flags` of the code (`btFlags`).

The flag group is that of `os_flag.c`: a post readies every waiter at once, and a waiter clears its
flags when it runs again, so a flag posted in between may be cleared with it, and two waiters for one flag
both go on. (`OSFlagPost` tests all flags of a waiter, `Post` only the new one: a task blocks only when none of its
flags is set, so the others never are.) The scheduler is the one of `UartTx`; BluetoothMutex has owner
and inheritance, and is used or not by the constant choice `locked`. `BluetoothUpdate`, an interrupt, and the
timeout of BluetoothTask come at any time.

The stack is a number of events still to be delivered; `gecko_wait_event` returns one or none, and
`gecko_can_sleep_ticks` is 0 exactly while it holds some. BluetoothApplicationTask is `appLoop`; the
commands it issues from the event handler are those of the caller `app`, none or several per event.

`BgCommands` sees of a command how far it is (`CallOf`): issued, executed, answered with its own response. What it has no
state for, an execution too many or the response to another command, is "confused" and refutes the refinement.

### PhoneRx and BleLink

`BleLink` has the stack's view (`conn`, `att`, `subscribed`, `advertising`) beside the program's
(`connState`, `connHandle`, `mtu`), connected by the queue `events` that ApplicationTask takes one event from
at a time. `evTask` is Ble_Event_Task: `PostEvent` loses an event unless it pends, since `ble_event_msg`
has no kernel message either. `owed` is what was written into `notify_array` and has not reached the phone; units carry the
connection they were written for. Ble_Notify holds the mutex over its command (`RingFree`), so the
writer waits, but connections come and go. A notification fails unless a phone is connected at the handle,
has subscribed, and the length fits its MTU. Advertising that fails, because a phone is connected or the stack is
busy, signals `retry`. CMD_ADV_CTRL is two steps, test of `ble_conn_handle` and start, with connection events possibly between.

`PhoneRx` is the other direction: a frame of the phone is cut into writes at any places, each write is stored
as one event, `ble_get_data` takes one unit per step with its static state. A unit is its place in its frame; where the
parser takes a unit for a header or a length that is none, its value is any. A disconnection cuts what the phone has not
written yet (`cut`), and the next phone's frames follow.

A stack command is one step in these two modules; `BgApi` shows when that is right.

## 3. The runs

| run | instance | properties | what it shows |
|---|---|---|---|
| `tx_late` | 3 buffers, no kernel message, untimely; App_Main (boot), App_Ble_Parse, App_Uart_Parse | TypeOK, ExclusiveOwnership | without Ble_Event and without phone frames that carry the cmd_id of a request, no buffer is freed, listed or recycled twice, though answers and retries come while the frame is still on its way |
| `tx_promise` | 2 buffers, 2 messages, timely, phone frames with any cmd_id, fair; the same tasks | ExclusiveOwnership, NoLeak, FrameIntegrity, NoPostLost, KeepsPromise, PoolReplenished | with a message per buffer the path implements `Outbox`, loses nothing, overwrites nothing, and every buffer comes back, unanswered requests included |
| `tx_lost` | no kernel message | PostDuringSend **fails** | see findings |
| `tx_race` | Ble_Event and App_Uart_Parse together | RequestIsListed **fails** | see findings |
| `upg_transfer` | three images (one too long), 2 sessions, 3 faults of any kind but a reset in the last second and a record that is not cleared | TypeOK, SlotIsPrefix, RunsWholeImage, ReportsInstallation | duplicates, losses, late answers, failing flash, a restarted session and resets never mix or skip pieces (with three sessions they may, see below); only complete images are installed; success is reported only for an installation and at most once (a report may be lost) |
| `upg_live` | one image, 2 faults, fair | UpgradeCompletes, UsesOutbox | fewer faults than transmissions: every upgrade ends in an installation and its report |
| `upg_delay` | a reset in the last second | ReportsInstallation **fails** | see findings |
| `rx_line` | 3 frames of length 1 and 2, DMA of 13, ring of 14, one damaged byte, fair | TypeOK, FitsBuffer, Lossless, AllParsed, ReceiverRearmed | bytes reach the parser once and in order, the receiver stays on, all frames are parsed; no damage makes the parser write past its buffer |
| `rx_burst` | bursts that fill the DMA transfer | ReceiverRearmed **fails** | see findings |
| `bg_calls` | ApplicationTask and Ble_Notify as callers, with and without the mutex, 3 events, any number of commands, fair | TypeOK, LockedResponse, AppResponse, ServesCommands, EventStays, CommandsReturn, EventsHandled | with the mutex callers are served as by `BgCommands`; ApplicationTask's commands are right even without, no event is replaced before it was handled, and each one is picked up and handled |
| `bg_shared` | three callers, no mutex | OwnResponse **fails** | see findings |
| `link` | 2 connections, 2 frames, rings of 5, one refused start, one CMD_ADV_CTRL, fair | TypeOK, StateFollowsStack, HostInformed, RingLossless, PhoneFrameFits, NoStaleFrames, AdvertisingResumes, FramesLeave, PhoneFramesIntact, PhoneFramesArrive | state, notifications, advertising and the frames of both directions across connections that close and reopen at any time |

Findings:

- `tx_lost`: `App_Uart_Poll_Task` says that one post per pass suffices (comment
  at `app/uart_communicate.c:212`); with `MsgPoolSize = 0u` (`main.c:157`,
  `main.c:167`) a post succeeds only while Send is pending, and a frame of more
  than 57 bytes takes longer than a pass. In the trace Send waits for the end of a
  transmission when the next frame is posted, and lost. (A post before Send has
  pended for the first time is lost as well; PostDuringSend leaves that one out.)
- `tx_race`: `disSendpdata` is static; a connection event that preempts
  App_Uart_Parse in `uart_protocol_dispose` lists one buffer twice and loses the
  other.
- `upg_delay`: the record that means "restarted by an upgrade" is written a
  second before the restart; another reset in that second is reported as a
  successful upgrade.
- `rx_burst`: 1024 bytes without an idle gap complete the DMA transfer; the
  driver turns the receiver off and the interrupt never turns it on again.
- `bg_shared`: `rtos_bluetooth.h:60` offers BluetoothPend and BluetoothPost for several tasks, and four
  tasks issue commands, but nothing calls them. In the trace a task that has got RSP_WAITING for its own command is preempted before
  it reads `gecko_rsp_msg_buf`; the preempting task's command overwrites the response. A preemption between the writes of a command
  mixes the two commands.

What `tx_late` leaves out is not harmless. With Ble_Event the failure of `tx_race` appears. With late answers *and* a phone frame that carries
the cmd_id of a request, ExclusiveOwnership fails in the model as in the code: an answer to a request still on the wire lets Poll recycle its
buffer, App_Ble_Parse takes that buffer for such a frame (`app/ble.c:555`) and lists it, another answer marks it
(`app/uart_ptl.c:817-829` does not look at `poll.type`), and Send, at the end of the old transmission, recycles the listed buffer. It
takes an answer before the end of the transmission it answers, and no document of the repository speaks of the case, so it is a
hazard in PROJECT.json and no finding.

Bounds. Three buffers in `tx_late` are one per role that conflicts (being filled, listed, with
Send); two in `tx_promise` make the pool empty, the queue hold a message behind the frame on the
wire, and two frames contend; the code has six, and the proofs of section 4 hold for every number.
`RetryPasses` 2 (100 in the code) distinguishes a pass that advances the delay from
one that expires it. `MaxTimes` is the code's 3. `QSize` is the code's 7. Radix 3
gives a header, a value that is not a header and a wrap of the checksum; the
ring of 14 wraps within three frames and holds the window. Images of one page, one and a half and
two, a limit of 4, eight sequence numbers for two or three open requests. Two sessions are the least
that mix two images; three faults are more than one request survives. A third session can mix two: begun before
the first was accepted, with its request lost, it makes the host serve a third image to the second session, for a piece is accepted by its
offset alone. SlotIsPrefix therefore speaks of two sessions only; RunsWholeImage is proved for any number.
Two callers are enough to mix two commands; one is above and one below in priority; `bg_shared` adds a third. Three
events fill `bluetooth_evt`, the stack and what is still to come. Serial numbers and events modulo 2 tell one from its
neighbours. Two connections are the least that confuse two phones. The rings of 5 wrap within two frames of 3 or 4 units; a
unit is what fits the smallest notification, so a frame of 3 needs several notifications at either MTU. `OneWay`: in one
behaviour the frames go one way, the two directions sharing only the connection and the event queue.

Assumptions of the instances that the code does not enforce: `Timely` (see `UartTx`), `Gaps` and `Window`
(see `UartRx`), the pacing of both peers in `link` (they leave no more unread than a ring holds: the code tests for room
nowhere), and `SlowReopen`: no phone connects between a disconnection and the next flush of `notify_array`, some 5 ms. Without it NoStaleFrames
fails in the model as in the code; no document of the repository says what should happen, so it is a hazard and not a finding.
A frame of the phone that App_Ble_Parse drops because the pool is empty (`app/ble.c:544`) counts as listed in `link`: PhoneFramesIntact and
PhoneFramesArrive are about the way from the phone to that point.

`CHECK_DEADLOCK FALSE` is set where the environment stops: the host after its last frame or session, the phones after their last
connection. `UartTx` runs and `bg_calls` check deadlock.

Fairness. `UartTx`: strong fairness of each task, since a less urgent task is
enabled only between the bursts of others, which all sleep or pend; weak fairness
of the DMA. New sends are never obliged to happen. `UartRx`: the line delivers, the interrupt is
served, Parse is scheduled. `Upgrade`: Poll, Parse and the boot proceed, the host answers what it
receives; no fault is ever obliged. `BgApi`: weak fairness of BluetoothTask, the most urgent task modelled, strong fairness
of the tasks below it, which it lets run when it pends, so that the handler of an event, between two commands again and again, returns in the
end: each one issues a finite number. The stack's events and the timeouts are not obliged. `BleLink`:
each task is scheduled; writing the ring is strongly fair because the mutex is handed over in turn; a phone that stays
connected exchanges its MTU and subscribes, but may disconnect at any time; connections are not obliged.

## 4. The proofs

Every safety property and every action property of the passing runs is a theorem, with one exception (`UsesOutbox`,
below), so that it holds for every value of the constants that satisfies the assumptions of its module:
`ConstantsAssumption`, `RxAssumption`, `UpgradeAssumption`, `PhoneAssumption` and `LinkAssumption`, which TLC evaluates in every run. Where
a theorem needs more, it says so as a hypothesis, each one met by a run; where a run shows that it cannot be dropped, that is noted.

### UartTx

- `TypeCorrect` (`UartTxProofs`): `Spec => []TypeOK`, for every pool, set of
  producers, queue and message pool size, retry bound, timely or not. TypeOK is strengthened to `TypeInv`: a producer has a
  buffer exactly while filling and listing, Send exactly from OSQPend to the end of its
  loop, and the cursor points at an entry while one is unlinked.
- `Ownership` (`UartTxOwnership`): `OneDisposer /\ NoStrayFlag => (Spec => []ExclusiveOwnership)`.
  `OneDisposer` says that Ble_Event and App_Uart_Parse do not both use
  `uart_protocol_dispose`; `tx_race` shows that it cannot be dropped. `NoStrayFlag` is `Timely \/ ~PhoneUpg`: either answers are timely, or
  no frame of the phone carries the cmd_id of a request; section 3 tells what happens without it.
- `RequestsAreListed`: under the same conditions, `Spec => RequestIsListed`.
- `FramesStayIntact`: with `OneDisposer` and `Timely`, `Spec => []FrameIntegrity`, also when posts are lost.
- `PostsArrive`: with `OneDisposer`, `Timely` and `MessagePerBuffer`, `Spec => NoPostLost`; `tx_lost` shows that the
  last cannot be dropped. `MessagePerBuffer` asks for a kernel message and a place in the queue for every buffer.
- `NothingLeaks`: `Spec => []NoLeak`, if also the pool starts with every buffer (`PoolComplete`).
- `ImplementsOutbox`: with `OneDisposer`, `Timely` and `MessagePerBuffer`, `Spec => KeepsPromise`: the refinement of `Outbox`.

ExclusiveOwnership is not inductive: whether Send may recycle a buffer depends on
`poll.free_flag`, on `poll.type` and on whether Poll has unlinked it. `OwnInv` adds: the static
pointer is its user's buffer (`StaticInv`); nothing runs
before the boot notification (`BootInv`); the flag is clear in the pool and in
a producer's hands, and, if no frame of the phone carries the cmd_id of a request, a listed *reply* carries it only between Poll's post and
unlink (`FlagInv`, `UnlinkInv`), since only requests match an answer then (`ReqInv`). If one may, `Timely` keeps Send, at the end of a
transmission, from finding its buffer listed as a reply (`SentUnlisted`, from `FlightInv` below). The scheduler
enters through `SendWaitsForPoll`: Send never runs between Poll's post and
unlink, because its priority is lower and it owns no mutex that would raise it. Each action has a lemma of its own; `OwnNext` collects them.

`FlightInv` follows a buffer from the post to the end of its transmission: Send is never given a buffer it already has
(`OnceInv`), a posted buffer is a flagged reply that nobody else will touch or a listed request that has been counted and not
answered (`PostedInv`), and only what was sent is answered (`AnsweredInv`). `Timely` is what keeps it: without it an
answer releases a request that is still queued. From `OnceInv` the buffers in flight
are distinct, so a message per buffer is a message for every post. NoLeak needs that the reply about to be unlinked is in flight (`UnlinkPosted`).

For the refinement, `OrderInv` adds that Send pends only on an empty queue, that a pass of Poll leaves only requests behind its cursor, and that a
request is listed untransmitted. The replies of `Outbox` are a selection (`Pick`) from what Send has and what is listed; the
lemmas of `ListLemmas` say what Append, Tail, concatenation and the removal of an entry do to a selection, and each action is then a
step of `Outbox` or a stutter: the producers' Add lists, SendTransmit transmits, a matching answer closes, and the post of a reply
moves it within the selection without changing it.

### UartRx

- `TypeCorrect` and `ParserStaysInFrame`: `Spec => []TypeOK` and
  `Spec => []FitsBuffer`, for every ring, DMA transfer, frame and noise. `RxInv` adds what
  makes them inductive: a queued transfer has room and the interrupt copies no more than it holds (`DriverInv`); a frame
  has been started exactly while bytes are kept, and from the length on `data_len` counts the bytes
  missing (`ParserInv`).
- `ReceiverStaysOn`: `Paced => (Spec => ReceiverRearmed)`; `Paced` says that the frames fit uart_recv_buf and that what the host sends ahead is
  shorter than a DMA transfer. `rx_burst` shows that the latter cannot be dropped. Noise and a line without pauses are allowed.
- `BytesArriveInOrder`: `Paced /\ WellFormed /\ Gaps => (Spec => []Lossless)`; `WellFormed` frames are those procotol_check
  accepts. `rx_line` satisfies all three.

`CountInv` bounds the bytes in the parser, the ring, the transfer and on the line by those of the frames that are not parsed yet: damage, and bytes that come
while the interrupt runs, only make them fewer. Hence the transfer never fills, and the ring never does, since it is no smaller (`RxAssumption`). `StreamInv` says that without damage
these bytes *are* the frames, one after the other: each step moves a byte within the stream, and at the end of a frame the parser holds
exactly the first of them, because both have the length their header announces. The lemmas on
`FlattenSeq` (what appending or removing a frame does to the stream) and on rings (what writing, reading and wrapping do to
the bytes between the cursors) are in `ListLemmas`; `PhoneRxProofs` uses them too.

### Upgrade

- `InstallsWholeImages`: `Spec => []RunsWholeImage`, for all images, sessions
  and faults. `ImageInv` adds that in the second before the restart the slot still verifies: the parser
  waits there, and nothing else writes the slot.
- `ReportsOnlyInstallations`: `RecordHolds => (Spec => ReportsInstallation)`, `RecordHolds` saying that record 1 can
  be cleared and that no other reset hits that second; `upg_delay` shows that the second part cannot be dropped.
  `RecordInv` ties the record to the boot: once the device is up, it is set only in that second.
- `TypeCorrect`: `Spec => []TypeOK`. `TypeInv` adds the types of the frames on the line (a piece asked for is within the limit,
  so the offset passes it by less than a page) and that a host that does anything offers an image.
- `SlotHoldsOneImage`: `Spec => []SlotIsPrefix`, for all images, page lengths and faults. Its second part, that the offset is how much
  is stored, needs only that after the erase the slot is empty (`FillInv`). Its first part is about two sessions, which
  `SessionInv` follows: of the first, until the host hears of its acceptance, exactly one of its begin, the handler at work and its
  acceptance exists; from then on the line and the slot hold its image only. The second either has the slot and the line to itself
  (`SecondAlone`), or its begin is behind the last piece of the first, whose transfer still goes on (`SecondOvertakes`). A reset, lost frames and
  retransmissions move within these cases. With a third session the property is false (see the bounds in section 3).

`UpgradeAssumption` asks for at least one image: with none, not even an empty slot is the beginning of one.

### BgApi

- `TypeCorrect`, `EventIsKept`, `LockedCommandsAreOwn`, `RefinesCommands`, `AppCommandsAreOwn`: `Spec => []TypeOK`,
  `Spec => EventStays`, `Spec => []LockedResponse`, `Spec => ServesCommands` and `Spec => []AppResponse`, for every set of callers and number of
  events; the second and the last for callers without the mutex too.

None is inductive. `Waits` says which task may wait for, and
be readied by, which flags; without it a post could wake a task elsewhere. `Handshake` makes EVT_HANDLED and
EVT_WAITING one token: it is in exactly one place, the group, a readied task, or one of the two tasks. `LockInv` does the
same for a command of a caller inside the mutex: only the owner is inside (`MutexHeld`), the slot is its own from each write
on (`SlotOwned`), CMD_WAITING and RSP_WAITING are one token whose place follows from where the caller
is (`Tokens`), and the command has run exactly once when it is the response that is under way (`RanOnce`). These parts need no
priorities. `AppInv` does: without the mutex, the slot is ApplicationTask's while it writes because every other caller is less urgent
(`AppFirst`); when it posts CMD_WAITING, BluetoothTask is blocked with all its flags taken (`Blocks`, `BtBlocked`), becomes ready and
runs before ApplicationTask does, so that the response and RSP_WAITING are there before it pends, and it never waits while others run.

### BleLink and PhoneRx

- `FollowsStack`, `HostKnows`, `RingKeepsOrder`, `OwnFrames`, `RecvBufferHolds`: StateFollowsStack, HostInformed,
  RingLossless, NoStaleFrames and PhoneFrameFits, for every number of connections and frames and all lengths and sizes; the fourth for
  `SlowReopen`.
- `PhoneFramesWhole`: `Spec => PhoneFramesIntact`.
- `TypeCorrect`: `Spec => []TypeOK`.

`ConnInv` says of the queue of events, whatever is in it, that its last connection event agrees with the stack, and that while no
phone is connected every "opened" in it has a "closed" behind it. `RingInv` adds to RingLossless that a frame about to be written has room and that a notification
is what the phone is owed first, which makes a failed one repeatable; the arithmetic of ptr_plus and ptr_minus is in lemmas of its own
(`Arithmetic` to `Beside`). `OwnInv` adds that once the ring was flushed nothing enters it until a phone connects: a "closed" still under
way is excluded by the flush, an "opened" by `ConnInv`. `ParserInv` of `PhoneRxProofs` bounds what ble_get_data holds
and still expects together; `RecvInv` says that each write has its event, by counting both.

For the frames of the phone, `FlowInv` takes what ble_get_data holds, what is in ble_recv_array and what the unhandled writes
bring as one stream: it begins with the first unit of the frame to be listed next (`Begins`), goes on from unit to unit (`Chain`), and ends
where the phone goes on writing (`Ends`), up to the frame that a disconnection cut. `RoomInv` is the pacing of the phone, `RestInv` what a
phone still has to write, `UnitsInv` the type of the units. A frame is then listed whole because its last unit is the one that makes its
length full. `BleLinkProofs` adds the disconnection, which cuts the stream, and the events that bring the writes.

Pacing of both peers is the guard of ForwardFrame and PhoneWrites.

### Induction over lists

The library's induction theorems take an operator as parameter, which no installed prover can instantiate. `ListLemmas` goes round that where
it can: a property of the numbers up to a bound is a *set* of numbers, and a set that has 0 and the successor of each of its members has
them all (`InductionUpTo`, from `LeastElement`). So `PickIs` and `FlattenIs` show that the recursive functions behind `Pick` and `FlattenSeq` exist, and their laws follow.

### Only model-checked

- Liveness, out of the prover's reach with its fairness and ENABLED: PoolReplenished, AllParsed, UpgradeCompletes, CommandsReturn, EventsHandled, AdvertisingResumes, FramesLeave, PhoneFramesArrive.
- UsesOutbox, that the requests of `Upgrade` are those of `Outbox`. It does not hold for every value of the constants: an answer names its request only by the
  sequence number, so with enough resets and repetitions, which leave old answers on the line, or numbers that have come round, an
  answer closes a request that it does not belong to before that was sent. `upg_live` checks it within its faults.

## 5. Plan

Done, in this order: what moves buffers between tasks (`UartTx`, `Outbox`), `UartRx`, `Upgrade`; then what the phone
sees (`BleLink`, `PhoneRx`) and what its commands go through (`BgApi`); then the proofs of section 4. Left:

1. Proofs: UsesOutbox under a hypothesis that keeps old answers off the line; that the runs' hypotheses `Paced` and `Timely` follow from the
   protocol when both are put together; SlotIsPrefix for any number of sessions under a condition on when a host begins one.
2. `List`: list.c with its pointers, refined by the sequences of `UartTx`.
3. The contents of frames: the underflow of a short RSP_UPG_DATA, the limits of advertising data.

## 6. Not modelled

Vendor code other than what the firmware relies on: it is 98 % of the tree (emlib, emdrv, CMSIS headers, Micrium OS,
mbedtls, the headers of the closed Bluetooth stack), so the definitions cover most of the firmware's own state changes and still under one
percent of all lines. LinklayerTask, which only calls into the closed stack. SEGGER RTT logging; LEDs and the thermometer loop
(its command is the caller `main` of `BgApi`); the contents
of advertising data and of the handshake (MAC, versions); the CRC of a piece beyond "intact or not"; the response to a
write request of the phone, which the code never sends. UARTDRV is modelled as used: one queued receive
transfer, no flow control. The host, the phone and the serial line are the environment, modelled from the frames the code
sends and accepts.
