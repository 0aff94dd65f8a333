# TLA+ models of the RF/IO RS485 firmware

The firmware runs on an STM32H523 under FreeRTOS: one core, preemptive tasks of
fixed priorities, equal priorities time-sliced. It is a Modbus RTU slave on an
RS485 line, a USB device (network class, a shell port and a bridge port), a
USB<->RS485 bridge that borrows the RS485 UART from Modbus, and a driver for a
Zigbee module. These modules model the parts with logic of their own; paths
below are relative to `src/`.

## The system

Task priorities: shell 55; Modbus, application and lwIP threads 24; USB 10;
web and socket services 10; bridge 2.

| component | state | operations | hard behaviour | correct when |
|---|---|---|---|---|
| USB<->RS485 bridge `synaptix/app/user/usb_rs485` | `s_enabled`, its task's notification | enable, disable (DTR callback, shell), forward both ways | three tasks call enable/disable without a lock; notifications outlive their reason; lost callbacks | Modbus and the bridge exclude each other and neither is lost |
| Modbus service `synaptix/services/modbus/modbus_service.c` | none | poll, drain, sleep 20 ms | suspended anywhere by others | keeps polling |
| RTU stack and port `.../stack/modbus/{mb.c,rtu}`, `.../mbport` | receiver and transmitter state, frame buffer, one event slot, T35 timer | eMBPoll, receive/transmit FSM, timer interrupt | the interrupt between any two accesses of the task; one buffer for all frames | only checked frames are executed, none is lost silently |
| Function handlers `.../functions`, register map `synaptix/app/user/modbus` | coils, holding registers | FC01-06, 15-17, 23 | bit packing, off-by-one, partial failure | a master sees the map it was promised |
| Circular queue `synaptix/utils/cqueue` | buffer, head, tail, count | send, receive | wrap-around | a bounded FIFO |
| Zigbee driver `synaptix/services/zigbee` | event, queue, tick, watchdog, answer buffer | six requests, poll | late, lost, garbled answers; timeouts | each request ends, and truthfully |
| RF application `synaptix/app/user/rf`, indicator `.../indicator` | the NET LED's state and timer | three requests, their callbacks, poll | its start has no caller; timer across a change of state | the LED tells the truth and blinks |
| CLI shell `synaptix/services/shell`, `synaptix/app/user/shell` | line buffer | receive byte, process line | full buffer, backspace, CR/LF | one command per line |
| Socket server/client `synaptix/services/socket_*` | client table | accept, serve, disconnect | the server's table against its clients' tasks; nothing starts either | slots are reused |
| USB network `netif/usbif/usb_netif.c`, `libs/tinyusb/src/class/net/ncm_device.c` | one receive buffer, link flags, blink interval | bus callbacks, receive, output, task | `linkoutput_fn` handles events of the bus inside a receive callback, and in lwIP's thread above the USB task; no pbuf; an empty NTB | each datagram once and in order; the link as the bus is |
| Board `Board/board.c`, `synaptix/bsp` | UART queues, timers | callbacks, driver pin | interrupt against two readers, each counting once | each byte once, in order |
| Start-up `synaptix/app/app.c`, `Core/Src/app_freertos.c` | none | initialise, create tasks | five tasks run before it is done | nothing used before it exists; every task reaches its loop |
| Logger `libs/logger` | one shared buffer | log | called by every task, its lock compiled out | lines not mixed |

How they interact: USB events reach `tud_cdc_line_state_cb` in the USB task or,
through `linkoutput_fn`, in lwIP's thread; it calls `usb_rs485_enable/disable`,
as do the shell's `bridge_on/off`. These suspend and resume `modbusTask`, and
both Modbus and the bridge take bytes from the same UART queue. The Modbus
timer interrupt and `modbusTask` share the receiver's state and the event slot.
eMBPoll calls the function handlers, and these the register callbacks.
`zigbee_poll` shares its queue and buffers only with its own callers.

## Modules

| module | models | uses |
|---|---|---|
| `UsbRs485`, `MCUsbRs485`, `UsbRs485Proofs` | arbitration of the UART between bridge and Modbus | |
| `ModbusRtu`, `ModbusRtuProofs` | the RTU slave task against its timer interrupt | |
| `Registers`, `MCRegisters`, `RegistersProofs` | function handlers and register callbacks | `RegisterMap` |
| `RegisterMap` | what a master is promised | |
| `CQueue`, `CQueueProofs` | the circular queue | `BoundedFifo` |
| `BoundedFifo` | what a queue promises | |
| `CliShell`, `MCCliShell`, `CliShellProofs` | the command-line shell on USB | `CommandLines` |
| `CommandLines` | what the shell promises who types | |
| `Zigbee`, `ZigbeeProofs` | the Zigbee module's driver | `CQueue`'s operators |
| `RfApp`, `MCRfApp`; proved in `ZigbeeProofs` | the RF application and the NET LED, on the driver | `Zigbee` |
| `UsbNetif` | the USB task, its callbacks and the NCM class's reception | |
| `StartUp`, `StartUpProofs` | from StartDefaultTask to every task in its loop | `UsbNetif` |
| `UartPort`, `UartPortProofs` | the RS485 receive queue, its interrupt and its two readers | |

Definitions whose comment begins "Mutant:" are deliberate errors that are used
to show that a property can fail; no specification uses them.

### UsbRs485

A step of a task is possible only while all tasks of higher priority are
blocked or suspended (`ModbusReady`, `UsbMayRun`, `BridgeMayRun`). Variables
carry the code's names where it has them; `u_pc`, `m_pc` and `b_pc` are the
places of the tasks. The shell is preempted by interrupts alone, so a command
is one step (`ShellCommand`); enable and disable run by a USB task are cut at
each access to shared state (`UsbTest`, `UsbEnableSuspend`, `UsbEnableSet`,
`UsbEnableNotify`, `UsbDisableClear`, `UsbDisableResume`). `UsbTasks` holds the
USB task and, with `NetOutput`, lwIP's thread. Bytes are presence bits: whether
a FIFO holds any. `RxWired` says whether the UART's interrupt fills the receive
queue: nothing calls `bsp_uart_rx_cb` in this commit, and the properties
should survive the wiring, so the run has it TRUE. `leaks` and `history` are
history: `history` tells properties that hold of every execution from those
that hold until another task has called enable or disable, the bus has been
reset, or one call has preempted another.

### ModbusRtu

`modbusTask` is cut wherever the timer interrupt can change something it has
read. Critical sections are one step. Bytes are not told apart; whether a frame
passes the CRC check, and whom it addresses, is a choice. A failed assert ends
in `abort`'s endless loop, hence in a state without successor: the run says
`CHECK_DEADLOCK FALSE` because the program really stops there. Of the USB
bridge it has what disturbs the receiver: it empties the queue and its end cuts
a sleep short. The history variable `bridged` remembers that it has, and the
properties that hold only without it say so. The initial state is the one
`eMBInit` and `eMBEnable` leave; the service calls each once.

### Registers

A request arrives (`Arrive`), is executed by the handler of its function code,
and its reply is sent (`Reply`). Coils are bits addressed through the code's
16-bit windows, including the memory behind the buffer that the last window
reaches (`Behind`); that memory starts as all zeros or all ones. A register is
a 16-bit value that travels as two bytes. `RegisterMap` has neither windows nor
bytes of a value: it is a function from numbers to coils and registers, every
count outside its limits is refused, and what is refused changes nothing, except
that FC23 keeps its write when its read is refused. `IsRegisterMap` is refinement
with the obvious mapping. It holds for what `HoldingCounts` (the counts of FC03)
and `Padding` (the values of the bits above the last coil) offer in the run
`registers`; with more the code breaks its own comments (see below). A
broadcast's missing reply is `Reply` as well.

### CQueue and BoundedFifo

The operations are operators on a queue record, so that `Zigbee` applies them
to its own queue; the actions are one caller's sequence of calls. The mapping
to `BoundedFifo` reads `count` elements from `tail` on.

### CliShell and CommandLines

`Poll` is one turn of `shellTask`'s inner loop: it takes a character from the FIFO
and runs `cli_shell_receive_char` (`Receive`) with everything that follows from
it: `prv_process` (`Process`), the scan in place (`Scan`), the handler
(`Handle`). Nothing but interrupts preempts the task, so this is one step.
`set_do` writes `output`; `reboot` leaves the task asleep until `Restart`. An
answer is its kind. `CommandLines` has a line being edited and the words that
are left in it, defined without a scan; `IsCommandLine` is refinement with the
buffer as the line. `Atoi` is a constant: a table of what libc's atoi reads.

### Zigbee

Each action is one call of `zigbee_poll` (`PollIdle`, `PollBegin`, `PollWait`,
`PollAnswered`, `PollTimedOut`), one request, or a step of the module behind
the UART (`ModuleAnswers`, `ModuleSilent`, external). A frame is its header and
whether its checksum is right. `buff` keeps the header of the last frame, a garbled
one's too, and a timeout without a byte judges what is there, as `zigbee_poll`
does. `answered` is history.

### RfApp

`RfAppInit` makes the three requests of `rf_app_init`, one a step, before the
first poll; `RfAppPoll` is a poll of the driver with the callback it causes
(`Callback`) and then of the indicator (`IndicatorPoll`), as in `rf_app_poll`.
Requests of other callers, with callbacks of their own, are `Others`. The
indicator's default case is unreachable, as its state is always one of two.

### UsbNetif

Activations inside activations, in two tasks: `linkoutput_fn`, called by lwIP in
the middle of `tud_network_recv_cb`, calls `tud_task`; and so does lwIP's own
thread when it sends (`OutputWaits` to `OutputReturns`), above the USB task.
`stack` has one entry for each activation of `tud_network_recv_renew`, with its
task and its place, and its places are as fine as the class driver's tests and
assignments: `Again`, `Transfer`, the callback's `Cb...` steps, `LoopExit`,
`TakeBuffer`. `InTudTask` says where events of the bus may be handled and by
which task, and every event (`Configure`, `BusReset`, `NtbReceived`, ...) may be
handled there. `active` and `again` are the class driver's two flags against
re-entrance, which a reset clears under the activations' feet. `held` is the set
of the driver's four pointers that hold the only receive buffer: the code has
four variables, so that more or fewer than one is possible. Datagrams are
numbers; an NTB may have none. `handed`, `refused` and `cut` are history.

`cut` becomes true when one task goes on in the class driver while the other is
in the middle of it. There is no lock, so the code has no promise to keep from
then on: the properties end there, and `TransferHasBuffer` shows what happens.
With `Beyond` the steps are followed further, place by place; a cut inside one
of these steps is not in the model.

### StartUp

`Boot` lists what the default task uses, initialises and starts, in the order
of `StartDefaultTask` and `app_init`. Every other task runs from one delay to
the next in a step, when no task above it is ready (`MayRun`); tasks of equal
priority take turns anywhere. `early` collects what has been used before it was
initialised. The USB task and lwIP's thread are `UsbNetif`'s, joined by the
priorities: below lwIP's nothing runs while that thread has work (`Foremost`).

### UartPort

The queue's elements are the bytes' numbers on the line. Each reader counts
what waits, and then reads that often; the shell's commands, the interrupt and
the 10 ms of each read may fall anywhere between. `UsbRs485` has the same
readers with presence bits and all callers of enable and disable; here the
callers are the shell's two commands, and the bytes are told apart.

## Runs

| run | bounds | shows | size |
|---|---|---|---|
| `bridge` | both triggers, unplugging, network output, received bytes; `MaxCmds` 1 | type, `NoLostResume`, `ExclusiveAtRest`, `AtMostOneLeak`, `SuspendedAsleep`, `DriverFollowsSender`, `StrandedModbusResumes`, `ClosedResumesModbus`, `OpenForwards` | 667 000 states |
| `bad_two_triggers` | DTR and shell | violated: enable/disable are not idempotent under preemption | |
| `bad_unplug` | DTR, bus resets | violated: closing the port does not resume Modbus | |
| `rtu` | frames of 2 to 4 bytes, queue of 4 | `TimerGuardsFrame`, `ExecutesChecked`, `ReceiverReturns`, `AcceptedIsExecuted`, `FrameIsLookedAt` | 33 000 |
| `bad_timer` | same | violated: `mbrtu.c`'s assert that T35 never expires in idle fails | |
| `registers` | bytes of 2 bits, 4 coils, 2 registers, counts inside and outside the limits, addresses at both ends and at 2^16-1 | `BehindKept`, `IsRegisterMap` | 1.07 million |
| `queue_fifo` | 3 elements, 3 items | `IndicesAgree`, `IsFifo` | |
| `shell` | 2 letters, buffer of 10, 4 words, one output, FIFO of 1 | `AlwaysListens`, `IsCommandLine` | 827 000 |
| `zigbee` | `rf_app_init`'s 3 requests and 1 more of any kind, list of 4, queue length 5, 2 frames waiting, restart after 3 idle polls, LED periods 3 and 2 | `SuccessAnswered`, `ConnectedAnswered`, `RequestsServed`, `SilentModuleRestarted`, `NetLedBlinks` | 387 000 |
| `startup` | the whole start-up with the network interface: pool of 2 pbufs, 3 datagrams in NTBs of 0 to 2, 3 activations, followed to the first cut | `BufferInOnePlace`, `InOrderOnce`, `LinkAgrees`, `ReceptionGoesOn`, `NothingEarly`, `AllTasksStart` | 165 000 |
| `bad_two_tasks` | the interface alone, same bounds, followed beyond the cut | violated: a transfer without its buffer | |
| `uart` | queue of 2, 4 bytes | `UndefinedOnlyIfCut`, `EachByteOnce` | 46 000 |

Why the bounds are enough: a shell command has no effect but enable or disable,
so one waiting command at a time shows each interleaving, and an unbounded
number is handled in sequence. RTU frames have three sizes that the code
tells apart (too short, acceptable, full), and a queue as long as the frame
buffer, as in the code, where both are 256. Two-bit bytes exercise each offset
in a window, and counts with and without a rest. `rf_app_init` makes exactly
three requests; the fourth follows any of them with any kind, and the list holds
them all. Three activations are one more than it takes for a reset to leave two
of different sessions on the stack; two pbufs can run out, and three datagrams
fill more than one NTB; what start-up depends on is who runs when, which that
shows as well. Four bytes fill a queue of two twice. A buffer of 10 has room for one
word more than are told apart, so that `set_do` can have too few, enough and too
many arguments, and for a number out of range. The queue's run wraps around
several times. The theorems below remove most of these bounds.

The requests of `registers` come from masters that pad the last byte of coils
with zeros, as the protocol demands, and that ask FC03 for no more than a byte can
count. Without either restriction TLC refutes `IsRegisterMap`: give `Padding` or
`HoldingCounts` one value more.

## Fairness

`UsbRs485`: Modbus sleeps 20 ms in each loop and handling USB events is
bounded, so the tasks below get the processor again and again, but not
continuously: strong fairness for them, weak for the shell and Modbus. The host
owes nothing. `ModbusRtu`: weak fairness of the task and of the timer
interrupt; bytes need never arrive. `Zigbee`: `zigbee_poll` is called again and
again, as `rf_app_poll` would; the module owes nothing, except in the property
about a module that never answers. `RfApp`: weak fairness of `rf_app_init` and of
its poll, every millisecond. `UsbNetif`: both tasks go on in the receive logic;
lwIP returns from its input in the end, though events may be handled before, so
strong fairness; applications free pbufs. `StartUp`: FreeRTOS runs what is ready
and takes turns among equals: weak fairness of each task, strong of the bridge's
below them all and of the USB task's last step of start-up, since lwIP's thread
handles events above both; the host may never enumerate the device. `UartPort` has safety
properties only.

## What is proved

All for every value of the constants, where nothing else is said. Every safety
property that a passing run checks is stated by a theorem.

- `UsbRs485Proofs`: `TypeCorrect`; `ModbusNeverStranded` (`NoLostResume`): every
  write of a callback that separates the flags is followed by the one that
  joins them, and the invariant ties each callback's place to what it has
  already written; `LeakBounded`: a leaked iteration needs a notification or a
  bridge already past its test, and one enable gives only one;
  `HandoverExcludes` (`ExclusiveAtRest`): until one call has cut another, at most
  one call is in progress and its place fixes both flags;
  `DtrSuspendsAsleep`: by the priorities, Modbus can only be suspended asleep
  while the USB task is the only caller; `DriverFollows` (`DriverFollowsSender`),
  inductive together with the types.
- `ModbusRtuProofs`: `TypeCorrect`, in particular the receiver's index;
  `TimerGuards`; `CheckedExecution`, assuming that the queue is no longer than
  the frame buffer. Its invariant counts what one drain can bring between
  acceptance and execution: too little to end another frame unnoticed.
- `CQueueProofs`: `TypeCorrect`, `IndicesCorrect` and `QueueIsFifo`, the refinement, whose
  core is arithmetic modulo the length and a lemma on the contents after a
  send and a receive.
- `CliShellProofs`: `TypeCorrect`; `ShellAlwaysListens` (`AlwaysListens`): one
  received character keeps the buffer short of its end and free of line ends;
  `ShellIsCommandLine`, the refinement. Its core is `ScanIsWords`: the scan in
  place finds exactly the words of the line, although its last character is
  overwritten. The scan is shown to be a loop (`ScanIsLoop`), and `Known` says
  what the loop knows after i characters: which words have ended, as many as are
  told apart, and that what it holds is the word that grows at i.
- `RegistersProofs`: `TypeCorrect`; `MemoryBehindKept` (`BehindKept`), an action
  property; `RegistersAreMap`, the refinement. All three assume `ZeroPadding`, and
  the last `ByteCounts` as well (FC03's counts fit in a byte): without them TLC
  refutes what the theorems say.
  `WindowPatches` says what one 16-bit window does by its masks, `LoopPatches`
  what all of them do one after the other, `WritesExactly` and `ReadsExactly`
  that this is the coils asked for, the reply's last byte filled with zeros,
  and `AddressExact` that adding one to a 16-bit address and taking it off
  again loses nothing. Each handler then has a lemma of its own.
- `ZigbeeProofs`: about the driver, `SuccessWasAnswered`: every header in the line
  or in the buffer, whole or garbled, was sent by the module; `TypeCorrect`, which is not inductive:
  beside it, what waits in the queue are requests (`WaitingKnown`), by the
  queue's own lemmas, with `CQueueProofs` instantiated for the driver's queue.
  About the application, `RfAppUsesDriver`: it implements the driver's
  specification, so that `RfSuccessWasAnswered` is a corollary.
  `ConnectionWasAnswered` (`ConnectedAnswered`) rests on `OwnOrder`: the queue
  holds the application's requests before all others, so that while one of its
  callbacks is still to run the next request served is its own.
- `StartUpProofs`: about `UsbNetif` on its own, `NetifTypeCorrect`, which holds
  beyond a cut too, and until the first cut `BufferIsInOnePlace`,
  `DatagramsInOrder` and `LinkAgreesWithBus`, for any depth of callbacks in both
  tasks. `FirstOnly` says that until then only the innermost activation moves, and
  `Shape` that while the session's flag `active` is set this one is in the transfer
  and the buffer is with the callback, that between the tests for a new transfer
  and the transfer what was tested stays true, and that activations nest only in
  `linkoutput_fn` or in a return. `Order` adds that the datagrams of the buffer
  from the one in hand on are later than all that lwIP has been given.
  `SystemHasNetif` carries all of it to `StartUp`, whose priorities decide how the
  two tasks alternate; `NothingUsedEarly` ties the default task's line to the tasks
  that exist and to what has been made, and uses the priorities: while the default
  task is ready no task below it runs.
- `UartPortProofs`: `BytesReadOnce`: the bytes in the queue, in the readers' hands
  and already delivered are all different, and in the line's order until two
  have waited at once; `UndefinedMeansCut`: unless cut, Modbus has at most as
  many reads to come as bytes wait, because the bridge cannot run while it has;
  `UartTypeCorrect`.

The loops of `Registers` and `CliShell` are recursive functions over the naturals.
The library's induction theorem takes a predicate, which the provers cannot
instantiate; `NatSetInduction` says the same of a set, by the well-foundedness of
the naturals, and carries both that the function exists (`LoopExists`) and what it
computes.

The assumptions are those of the modules on their constants, which TLC evaluates
on every instance. Two say what the code's environment guarantees and the provers
could not find out: `FrameAssumption` in `Registers` (a frame's addresses, counts
and words fit into 16 bits, and two to the bits of a byte is a positive
number), and `AtoiAssumption` in `CliShell` (atoi of a word that fits into a line
is an int).

Only model-checked: everything about liveness (`StrandedModbusResumes`,
`ClosedResumesModbus`, `OpenForwards`, `ReceiverReturns`, `AcceptedIsExecuted`,
`FrameIsLookedAt`, `RequestsServed`, `SilentModuleRestarted`, `NetLedBlinks`,
`ReceptionGoesOn`, `AllTasksStart`), because the prover has neither fairness nor
ENABLED.

## What TLC refuted

The runs named `bad_*` keep the four that take the most steps of the most actors.
While modelling, TLC also refuted:

- "Block here when disabled" (`usb_rs485.c:42`): a notification left by an
  enable/disable pair starts an iteration with `s_enabled` false. What holds
  instead is `AtMostOneLeak`.
- "closing it auto-disables (and resumes Modbus)" (`usb_rs485.c:140`) with
  network output: lwIP's thread handles the closing inside the USB task's
  opening.
- That Modbus has the UART to itself while the bridge is disabled
  (`prompt.md:156`): `usb_rs485_disable` clears a flag that is read once an
  iteration.
- That a count of holding registers outside the limits is refused
  (`mbfuncholding.c:187`): line 185 overwrites the count's high byte by the low
  one, so a count above 255 is taken modulo 256, and served. `RegisterMap`
  refuses it; with such a count in `HoldingCounts`, `IsRegisterMap` is violated.
- That a write of n coils changes no other (`mbutils.h:58`): `xMBUtilSetBits` ors
  the whole value in (`mbutils.c:77`), so ones in the padding set more coils, and
  bits behind the buffer. With a one in `Padding`, `IsRegisterMap` and
  `BehindKept` are violated.
- The transmitter's assert, that it is idle for every byte received
  (`mbrtu.c:238`): the polling transmit never completes, so the first byte after
  the first reply fails it.
- That the requests waiting lie in `event_list`: `zigbee_init` gives its length in
  bytes (`zigbee.c:271`) where `cqueue.h:47` asks for elements, so the queue takes
  an eleventh, behind the list.
- `eMBRTUReceive`'s assert on the length (`mbrtu.c:162`): a frame of exactly
  `MB_SER_PDU_SIZE_MAX` bytes is stored and fails it.
- That a success of the Zigbee driver means an answer: a garbled answer leaves its
  header in `buff`, and a link or reset that then times out with no byte at all is
  judged on it, with a checksum read from `buff[-1]` (`zigbee.c:334-378`). What holds
  is `SuccessAnswered`, which asks for the header only.
- That a refused request changes nothing: FC23 writes before it reads
  (`mbfuncholding.c:268`).
- That reception always goes on: a datagram for which there is no pbuf
  (`usb_netif.c:229`) stays in the only receive buffer, and nothing asks for it
  again when pbufs are freed. An NTB without a datagram passes the validation, but
  is never given back (`ncm_device.c:685`). `ReceptionGoesOn` holds otherwise, a
  cut apart.
- That every task reaches its loop: a host that configures the device, selects
  its data interface and sends, all handled by one `tud_task` of the first loop
  (`usb_netif.c:289`), has `netif->input` called before `netif_add` has set it.
  `AllTasksStart` holds otherwise, a cut apart.
- That nothing at all is used early: the shell asks TinyUSB for a host before
  `tusb_init` (`shell_app.c:57`). It finds zeroed memory, and waits.
- That each reader of the UART has the line's order: the interrupt sends to the
  queue's front (`board.c:149`).

## Not modelled, and what the code shows anyway

Contents of bytes on USB and UART lines, formatting, logging; the STATUS and POW
LEDs; what the network interface transmits, its DHCP and DNS servers; the web and
TCP stubs; generated start-up code; FreeRTOS, lwIP, TinyUSB and the HAL except
for what is named above. Most of the repository's lines are these vendored trees
and headers, so that the share of all lines the models cover is small; of the
firmware's own logic what is left is this:

- The socket server and client: nothing starts either, `tcp_server_init` only
  fills in a structure. Who may touch the client table beside its own tasks is
  decided by callers that do not exist. (`socketserver.c:77` tests a
  handle that `xTaskCreate` leaves unset when it fails.)
- The logger: `FREE_RTOS` is defined nowhere, so its lock is compiled out and all
  tasks format into one buffer (`logger.c:59`). What is printed when two meet is
  undefined, and no other state depends on it.
- The initialisation and shutdown of the Modbus stack beyond the one call the
  service makes, and its ASCII and TCP modes, which are never selected.

In passing:

- `bsp_uart_init` is called for the RS485 and logger ports only, and
  `rf_app_init`/`rf_app_poll` have no caller: the Zigbee driver and the RF
  application are modelled as they would run.
- `indicator_init` clears the functions `rf_app_init` has just set, and
  `led_off(INDICATOR_NET)` turns the LED on; its only call is unreachable.
- `bsp_uart_rx_cb` and `bsp_uart_tx_done` have no caller.
- `xMBPortSerialPutBytes` transmits one byte of its own parameter's storage.
- `netif_add` runs in the USB task without lwIP's core lock (`usb_netif.c:199`).
- `xTaskCreate`'s result is not looked at, so that without memory
  `modbus_handle` is uninitialised (`modbus_service.c:89`).

`PROJECT.json` lists every hazard with its line and the properties for it.

## Plan

1. Done: the arbitration, the RTU slave, the queue, the Zigbee driver, the
   register map, the shell, the RF application, the USB network interface,
   start-up, the UART's readers, and their theorems.
2. Composition: the bridge's effect on the receiver (`ModbusRtu`'s
   `BridgeEmpties` and early `Wake`) justified by a refinement from `UsbRs485`;
   `UartPort`'s drain joined to `ModbusRtu`'s receiver.
3. Models: what the network interface transmits; the socket server, once
   something starts it.
