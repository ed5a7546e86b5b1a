# Verification of the RetroPC controller

The RetroPC controller is a USB device with an ATmega32U4 that watches a water
cooling loop, drives its fans and reads the front panel of a PC.  It is a
composite device: interface 0 is a keyboard (the panel's buttons and wheels),
interface 1 ("RPC") sends sensor readings and takes the fan speed.  On the host
a Linux kernel driver turns interface 1 into a device node that a small library
reads and writes.  This directory holds TLA+ models of its parts, the TLC runs
that check them, and TLAPS proofs about them.

## Inventory

| Component | Source | State it keeps | Operations | Modelled in |
|---|---|---|---|---|
| Kernel driver | `Driver/Linux/rpcdrv.c` | `struct usb_rpc`: kref, interface, open_count, errors, int_in_filled, ongoing_read, completion, limit_sem, io_mutex, err_lock; the urb | open, read, write, close, completion handler, probe, disconnect, pre/post_reset, suspend, resume | `RpcDriver`, `RpcLifetime` |
| Firmware main loop | `Firmware/rpc.c` | fan_flow_status, captured timers, rpc_values, fan_value, OCR4A | `main`, the workers, six interrupt handlers, the callbacks of the RPC class driver | `RpcFirmware`, `FanControl` |
| Sensor arithmetic | `Firmware/rpc.c` | rpc_values, adc_voltage | `Waterflow_Worker`, `Watertemp_Worker`, `Fans_Worker` | `SensorFilter` |
| Front panel and HID class driver | `Firmware/rpc.c`, `LUFA/.../HID.c` | btn_status, whl_status and their predecessors, previous report, idle time | `CheckButtonState`, `HID_Device_USBTask`, HID requests | `FrontPanel` (partly) |
| RPC class driver | `LUFA/.../RPC.c` | none | `RPC_Device_USBTask`, SetFanspeed | `RpcFirmware`, `UsbDevice` |
| USB device core | `LUFA/.../DeviceStandardReq.c`, `USBTask.c`, endpoint streams | USB_DeviceState, USB_ConfigurationNumber, USB_ControlRequest | standard requests, stages of a control transfer | `UsbDevice`, `ControlTransfer` (partly) |
| USB interrupt and controller | `LUFA/.../AVR8/*` | selected endpoint, endpoint banks, enabled interrupts | reset, suspend, wake-up, VBUS | `UsbDevice` (partly) |
| Descriptors | `Firmware/Descriptors.c` | constant tables | one lookup | no |
| User library and command | `Software/Linux` | none | read_data, write_fanspeed | no: its calls are the threads of `RpcDriver` |
| Rest of LUFA, build files, udev rule, schematics | | | | no: not part of the built program, or without behaviour |

How they interact: user threads call the driver; the driver submits one
interrupt-IN urb for reports and sends SetFanspeed as a control transfer; the USB
core calls the driver back on plugging, unplugging, reset and suspend, and the
host controller gives the urb back to its handler.  In the firmware everything
runs in one loop except the interrupts, which share plain variables with it.
The host sees only what is in an endpoint's bank when it polls.

What is hard, and what each part has to get right:

* *Driver.*  Two files, the handler and the USB core touch the same fields under
  three different locks or none.  The structure must live as long as anybody
  uses it and no longer; a sleeping reader keeps `io_mutex`, which disconnect and
  reset need; an error is to be reported once; the power reference is taken by
  the first opener and given back by the last.
* *Firmware loop.*  Four interrupts set bits of `fan_flow_status`, or zero 16-bit
  fields, while main reads, modifies and writes them with no masking.  A set
  speed must be applied, a sample used once, and a stopped rotor reported.
* *Arithmetic.*  16-bit sums close to overflow, a division by a captured value
  that may be 0, a characteristic in four pieces.
* *Panel.*  Debounced samples of a wheel, and a report sent only on change, over
  an endpoint with one bank, against polls, requests and resets.
* *USB.*  A control request is served in loops that wait for the host inside main;
  the host may break it off and ask anew at any point, and the interrupt changes
  the device state, the selected endpoint and the endpoints under those loops.  A
  request must be taken or refused once, the device must wake up and be
  enumerable again, and main has to come back to the fans.

PROJECT.json lists the hazards line by line with the properties that would
notice each, and says so where none does, or where a property notices a part only.

## Modules

### RpcDriver and RpcLifetime

One instance of `struct usb_rpc` from `rpc_probe` to `rpc_delete`; memory is freed
when `kref` drops to 0.  A thread's `pc` says where it is in `driver_open`
("o_"), `driver_read` ("r_"), `driver_write` ("w_") or `driver_close`; `core` says
which callback the USB core is in; `inflight` and `handler` are the urb and its
completion handler.  A step ends where another party could see or change a shared
field: what is done under `io_mutex` alone is one step, what also touches
`errors`, `int_in_filled`, `ongoing_read` or the completion is split.  Error codes
are ok, EPIPE and everything else (EIO), which is all that callers are told.
Early returns that change nothing (a read of fewer than 7 bytes, an open with no
device, probe refusing an interface or running out of memory) are left out.

`RpcLifetime` is the abstract specification: a structure that is bound, files that
are open, and the structure living exactly as long as one of these is the case.
`LifetimeSpec` maps it onto `RpcDriver`; there is no count in it, so that it says
what `kref` is for.

`NoDeadlock` is stated over who waits for what.  Each wait of the code is a set of
parties (`IoWaiters`, `ErrWaiters`, `PmWaiters`, `ReportWaiters`, `SlotWaiters`,
`UrbWaiters`, the core at "d_minor"), and `Stuck(S)` says that every party of S
waits for one of S: for the holder of a lock, for all the holders of a slot, for
any of the opens that `minor_rwsem` waits out.  This covers a circle of threads
while others go on, which TLC's own deadlock check would not see.  A completion
that nobody is going to signal counts as a wait without end.

Assumed of the kernel: `usb_open` holds `minor_rwsem` for reading through
`driver_open` and `usb_deregister_dev` takes it for writing; the device lock keeps
the core's callbacks apart; unbinding disables the endpoints and waits for the
urb to leave the queue, not for a handler that has started; an urb leaves the
queue before its handler runs, and submitting a queued one fails; `usb_kill_urb`
waits for both; handlers of one urb run one at a time; user threads are frozen
before system sleep suspends the driver; runtime suspend needs a usage count of
0; `post_reset` is called after a failed reset too.

### SensorFilter

Each worker from a captured value to the reading, with `(uint16_t)` casts and
16-bit sums as `% 65536`, signed division of the characteristic as the C code
does it, and division by 0 giving what avr-gcc's routine gives.

### RpcFirmware

`main` as steps between which an interrupt may fall: an access to a 16-bit field is
one step per byte, `fan_flow_status |= x` is a load and a store, and because the
variable is not volatile the load may be an earlier one of the same function that
the compiler kept in a register.  Interrupt handlers are one step, interrupts are
not nested.  A reading is abstracted to which of its bytes are not 0.  The build
matters here: ATmega32U4, -Os, `USB_DEVICE_ONLY` and no
`INTERRUPT_CONTROL_ENDPOINT`, so that control requests are served in `main`, one
per turn (`SpeedOncePerTurn` of `UsbDevice` is the reason why the call of USB_USBTask
inside a report adds none).  The device stays configured in this module.

`FanControl` is the abstract specification of the fan, from the host's side: a speed
is accepted only when the one before is put out, duty cycle, power and percentage
change together, and reports tell what was put out in that order.  `FanControlSpec`
maps it onto the loop.  It has no flag, no interrupt and no turn of main, and so
says what fan_flow_status is for.

### FrontPanel

`pc` is which of the HID task, the USB task and the button check is called next; the
other functions of the loop do not touch this state.  `Turn` and `Push` are the
fingers, `CheckButtonState` samples and decodes, `HID_Device_USBTask` fills the
bank, and SetIdle, SetConfiguration, ClearFeature and the reset interrupt are one
action each.  A report is a set of keys.

The contacts of all wheels are debounced in one comparison, as in the code, so that
moving one wheel delays the decoding of the other; each is then decoded by
itself.  A wheel is turned on only after its last quarter has been taken over, which
takes two equal samples of all contacts: the properties are about a wheel that is not
faster than the debouncing.  Two buttons and four wheel flags fill the six key codes
of a report, so with two wheels at most two buttons are in play (the run has one).

GetReport is in two steps, because the code uses up the clicks and remembers the
report (`HID.c` 60-66) before the stream that carries it (71), whose result it
ignores: "answer" is the stream, in which the host polls the other endpoint, the bus
is reset, fingers move; it ends with the report delivered or, broken off, shortened
or suspended, with nothing delivered.  The host releases every key when it resets or
configures the device.  `disturbed` records that a GetReport has taken a change away
from what the keyboard's endpoint will report, or a ClearFeature has dropped one; it
ends with the next report that is sent, or when such a GetReport is delivered with
no older report left to follow it.  In between the host may take a released key for
pressed, and the properties except that time.

### UsbDevice and ControlTransfer

`main` with the two class drivers' tasks and USB_USBTask, against USB_GEN_vect, the
host and the bus.  `pc` is where main is: in a task and its
`Endpoint_Write_Stream_LE` ("ready", "put", "sent", "fail"), between tasks, or in
one of the loops of a control request ("write" and "write_end", "read", "status",
"address", "config1", ...); "speed" is SetFanspeed between its
acknowledgement and its effect.  A loop that polls a flag is an action that is enabled
when the flag lets it go on; the tests inside a loop are made in one step with
what they guard.  `selected` is UENUM, which the interrupt overwrites under
whoever has selected something else; `prev` and `nested` are what USB_DeviceTask
saves and the call of USB_USBTask from within a stream.  `USB_GEN_vect` composes
the four parts of the handler in their order.  `setup`, `out`, `in`, `stall` are
the flags and the bank of endpoint 0, `bank` those of the two IN endpoints.

Requests are told apart by the way they are served: an answer of several packets
(GetDescriptor, and GetReport of the keyboard), an answer of one (GetStatus, and
GetConfiguration, GetIdle, GetProtocol), no data (ClearFeature, which also resets an endpoint, and
SetIdle and SetProtocol, which do not), SetAddress, SetConfiguration with 1 and with 0, data from the host
(SetFanspeed, and SetReport) and one nobody handles.  `request`, `stage`,
`expect`, `haddr` and `overtook` are the host's side.  `acked` is history: the
request whose status the host has got, until it asks anew or the bus is reset or
unplugged.  SetFanspeed is acknowledged (`RPC.c` 86) before the speed is taken (88),
and SetConfiguration after its number is set but before its state and endpoints
(`DeviceStandardReq.c` 191-196), so that the interrupts, the host and the bus come
between; `AcknowledgedIsDone` says by when the effect is there.

`ControlTransfer` is the abstract specification, from the host's side: a request is
asked, then taken or refused, then completed, stalled or given up.
`ControlTransferSpec` maps it onto the flags of endpoint 0.

Assumed of the controller (ATmega32U4 data sheet, by the use the code makes of it):
a SETUP packet is always taken and clears the endpoint's other flags and its bank;
`Endpoint_ClearIN` does nothing while a SETUP packet waits; a reset disables all
endpoints but endpoint 0, clears the address and may or may not empty endpoint 0's
bank; SUSPI follows 3 ms of silence, WAKEUPI any activity; a device whose clock is
frozen does not answer.  Reading a SETUP packet and clearing it is one step.
Assumed of the host: it resumes a port only after it has reset it once, configures a
device after it has given it an address, and leaves milliseconds between two events
on the bus (`Settled`: the interrupt has been served and the loops that look at the
device state have seen it, unless interrupts are off).

Two things the model shows and no comment denies: the interrupt may select
endpoint 0 in the middle of Endpoint_ConfigureEndpoint_Prv, which then turns it
into an interrupt endpoint until the next reset; and SetConfiguration may
overwrite the Unattached of a disconnect that ended its status stage.  Both are
listed as hazards that no property notices; the liveness properties are stated so
that they hold beside them.

## Runs

| Run | Bounds | What it shows |
|---|---|---|
| driver_safety | 2 threads that open, read, write and close; 1 write slot; writes of 1 and 2 bytes; at most 1 stale completion and 1 extra up | type, refinement of `RpcLifetime`, power references and slots balanced, no use after disconnect, no transfer during reset or suspend, no report twice, no deadlock |
| driver_liveness | 1 reader, 1 writer, no stale completion | every read returns if the device answers; a disconnect comes to its end whether it answers or not; a reset does so unless a read never returns |
| driver_urb_busy | 2 readers | *violated*: "we must not touch things" while the urb is queued |
| driver_error_twice | 1 reader, 1 writer | *violated*: "any error is reported once" |
| driver_reset_lost | 1 reader, 1 writer | *violated*: "preserve notifications about reset" |
| driver_write_slots | 2 writers | *violated*: "limiting the number of writes in progress" |
| sensor_filter | border values of the timers and of the folded quotients, all 1024 conversions | no sum wraps, readings go towards their samples and settle beside them, which samples are not speeds, the temperature falls with the voltage |
| fan_sample | the same | *violated*: the sample is the fan's speed (it is range-checked after the cast) |
| firmware_loop | speeds 0, 100 and 101; one rotor | refinement of `FanControl`; speeds applied and reported, samples used once, a stop reported |
| front_panel | 2 wheels, one from -2 to 1 quarters and the other from 0 to 1, 1 button; one user touches the wheels or a wheel and the button | clicks exact, the driver's idea of the host's keys right, and the host ends up with exactly the buttons held, unless a request took a change away |
| usb_device | all kinds of requests, 2 packets | refinement of `ControlTransfer`; a supported request is stalled only if it overtook another; awake on an active bus; no report in a control transfer; no speed nobody sent; what is acknowledged is done before main goes on to anything else; host and device agree on the address; one SetFanspeed in a turn of main; main hangs only in the waits that are named, prompt requests end, a reset revives |
| usb_state | the same | *violated*: "addressed by the USB Host, but is not yet configured" |

Why these bounds are enough.  Driver: every conflict in this code is between two
parties out of thread, handler and USB core, and two threads together with those
two give each pair; one slot makes the semaphore block with two writers.  Stale
completions and extra ups only grow by repeating a step that is in the model
once.  The liveness run gives each thread one role, because symmetric roles only
repeat it, and starts calls with no stale completion, because one makes a read
return at once.  Sensor filter: 0, 1, the least and greatest values around each
end of the accepted ranges, the fan values whose quotient is beyond 16 bits, and the two
(19 and 56) that the cast folds into the accepted range;
the proofs cover the rest.  Firmware: 0 and 100 are the special speeds of
`Fans_Worker`, 101 is the least refused; the proofs cover both rotors and all
speeds.  Panel: -2..1 holds one position of each of the four quarters and both turns across
three of the four borders, among them the one that makes a click; one step of the
second wheel is enough to spoil a sample of the first, and its way back is that of
the first wheel; a button beside a wheel gives reports that a click and a press
share, and what all three at once would add is one more independent key (`Together`
names the two sets).  The proofs cover any turns, wheels and buttons.  USB: with two
packets the data stage has a first and a last one, full or short, followed by a
zero length packet or not; more only repeat the first.  Nothing bounds how often the
host asks, gives up, resets, suspends or unplugs.

The counterexamples quoted as *violated* are disagreements of the code with its own
comments; PROJECT.json quotes them under "findings".  (A comment that needs no run:
`Fans_Init` says "Init PWM at 50%" and writes 35 to OCR4A, which is the value
`Fans_Worker` writes for 5.)

`MainComesBack` names where main can stay for ever, because the code has such
waits, and under what circumstances.  Always the host has left the transfer, or the
device does not hear it (`HostLeft`).  Then the loops of a data stage last until
suspend or disconnect (a host that gives up after the last packet keeps main, and so
the fan control, there), a status stage until the device takes itself for detached,
and SetAddress, with interrupts off, for as long as the host does not fetch its
status.  The wait for a bank counts frames and so lasts only where there are none
and the device has not noticed that.  The property shows that main hangs nowhere
else and with no other host; it does not deny the hangs, which stay listed as hazards
without a property.  `PromptRequestsEnd` excepts a request that came while main
served an earlier one, which may be stalled or be waited past, and an address the
host does not use.

`ResetEnds` names its exception in the same way: a silent device leaves a reader
asleep with `io_mutex`, and `rpc_pre_reset` takes the mutex before it would draw the
urb down, so it waits for as long as the read does.  Nothing else keeps it.

### Fairness

* Driver: kernel mutexes and semaphores queue their waiters, so a call that can
  take its lock again and again gets it (strong fairness per thread); the handler
  and the USB core run on; and an urb that is being unlinked is given back.  Nothing
  makes the device answer ("IO may take forever", `rpcdrv.c` 278, and the firmware's
  main can hang, see `MainComesBack`), a thread call the driver or a signal arrive.
  `ReadReturns` alone has an answering device as its hypothesis (`DeviceAnswers`): it
  answers polls, and without error again and again.  The latter is needed because a
  writer may take each error a reader's transfer ends with, and the reader would
  then start over for ever.
* Firmware: main goes on, the timer of a standing rotor overflows in the end
  (nothing restarts it), and the host polls.
* Panel: main goes on, because the host goes on with a GetReport or gives it up and
  asks for something else or suspends (what becomes of main otherwise is
  `MainComesBack`'s subject), and the host polls; strong fairness of
  `CheckButtonState` because the hardware keeps TOV0 set until the function clears it.
* USB: an enabled interrupt is served, the host sends the tokens of a transfer it
  has begun and not given up, and main goes on; strong fairness of main because
  interrupts, which disable its steps, never come without a pause.  No request,
  reset, suspend or unplugging is made to happen, and none is made to end.

## Proofs

Each proof module extends the module it is about.  Parameters are arbitrary within
the ASSUMEs of that module.

* `RpcDriverProofs`: for any finite set of threads and any `WRITES_IN_FLIGHT`.
  `Inductive` joins the types with what ties the counts to the threads: who holds
  which lock (`LocksExact`), the minor and the interface pointer to the core's
  progress, and the reference count, open count, power usage and slots each to
  the number of threads at certain points.  The count of references alone is not
  inductive: a close may drop it only because its thread is among the holders,
  and an open may take one only because `minor_rwsem` keeps the core away.
  Lemmas treat a thread that moves from one set of points to another, so that
  each action is a case of moving one thread.  From it follow the safety
  theorems and `LifetimeImplemented`, the refinement of `RpcLifetime`.  On top of
  it `UrbInv` is about the transfer: `ReadTracked` (while ongoing_read is set, the
  urb is queued, its handler runs or one thread is about to submit it) is why a
  sleeping reader is woken, `ReportTracked` why a report is handed out once, and
  `CoreQuiet` why reset and suspend find the urb quiet.  Both use that io_mutex
  lets one thread at a time into these regions.
* `RpcDriverMoreProofs`: `NeverDeadlocked` follows from these two invariants, along
  the order in which the waits can be granted.  Nobody waits while it holds
  err_lock, so the urb and its handler go on; hence a sleeping reader is woken and
  usb_kill_urb returns; hence io_mutex is given back; hence every open ends and the
  USB core goes on; hence whoever holds a slot gives it back, and somebody does
  hold one when limit_sem is 0 (`SlotsNotLost`).  Two theorems complete the findings
  about comments by naming their cause: if all writes are of one byte, limit_sem and
  the slots in use make up WRITES_IN_FLIGHT exactly and `WritesLimited` holds; if
  nobody writes, `ErrorReportedOnce` holds for any number of readers.
* `SensorFilterProofs`: `Bounded` (v_water at most 936, v_fan at most 1968, the
  fixed points of the filters with rounding) is inductive and keeps the 16-bit
  sums from wrapping; `FiltersConverge` and `TemperatureIsMonotone` are action
  properties that follow from it; the first also says where a filter stops, at most
  64 (flow) or 32 (fan) below the sample.  `SamplesAreTrueSpeeds` says, for every
  timer value, that the cast folds just two quotients of the fan, those of 19 and 56
  ticks, into the accepted range (`fan_sample` shows one of them).  The same bounds hold of readings torn by an
  interrupt, which only makes the old value smaller.
* `RpcFirmwareProofs`: `IInv`.  Its heart is `SpeedInv`: as long as a set speed is
  pending, its flag is in the variable and in every copy main could store back,
  and `fan_value` is still the accepted one, because SetFanspeed and `Fans_Worker`
  both run in main.  `SampleInv` says that whoever holds a rotor's flag has an
  edge that has not been used.  `BankInv` is what makes the bank hold one report.
  `FanControlImplemented`: a request finds the speed before it put out
  (`SpeedInv`, since no flag is pending where main serves requests), and every other
  step is Apply, Send, Deliver or none.
* `FrontPanelProofs`: for any buttons, wheels and turns.  `PanelInv`: `WheelInv` lets
  each wheel be at most one quarter ahead of what is decoded, however the others
  move; `SyncInv` has, beside the property itself, what a GetReport leaves behind: a
  report that is due after SetConfiguration is sent before the next request, and
  between the remembering and the stream either nothing changed or `disturbed` holds.
* `UsbDeviceProofs`: for any set of requests and any number of packets.  `UsbInv` is
  in six parts: types (a stream never counts below 0, because the host is in a
  data stage only while it expects something); `TransferInv`, that a SETUP packet
  waits alone and, if main is serving, has overtaken; `BusInv`, that the host is in
  a transfer only on an active bus with an awake device, and the device sleeps only
  with WAKEUPI enabled; `ServedInv`; and `AnswerInv`, the reason why a stray report
  does no harm: while the host is in a transfer and main outside its loops, the
  last answer still waits in endpoint 0 and keeps everything else out; and
  `StreamInv`, that a read stream ends without its byte only when the host has left
  the transfer, which `SpeedIsFromHost` needs since the byte is taken a step later.
  The chain
  of the interrupt's parts is handled by a lemma for each part.  From it follow
  five safety theorems and `TransfersImplemented`, the refinement of
  `ControlTransfer`.
* `UsbRequestsProofs`: what the requests do, with `RequestInv`, which adds four parts
  to `UsbInv`.  `AckInv` follows the request that the host waits for: which number is
  set, and in which of its places main is.  The status may be there for the host
  before the effect; `DoneInv` therefore says, for every such place of main, what is
  done of a request that is acknowledged and what main does next, and that only a
  request, a reset or a pulled cable can get between, which also end what the host
  takes for done.  Its hard case is SetConfiguration, between whose two endpoints the
  interrupt may select endpoint 0: only a reset does that, and after it the host takes
  nothing for done.
  `NestInv` is why the call of USB_USBTask inside a report serves no
  SetFanspeed: only a reset makes Endpoint_Write_Stream_LE call it, after a reset
  the host has to set an address first, and while main serves that, or anything
  else that comes before it, no later request can reach the nested call.
  `AddressInv` ties Configured to an address, which the device keeps when it gives
  up its configuration.

Model-checked only: the liveness properties (liveness under fairness is out of
TLAPS's reach).  Every invariant, action property and refinement that a passing run
checks is proved for all values of the constants.  Some theorems state invariants
that no run lists because one it does list says more or is made of them: `RefCountExact`
(behind `LifetimeSpec`), `WaiterNotStranded` (a stranded reader is a set of one in
`NoDeadlock`), `PwmInRange` (every output of `FanControl` is in range), and
`ConfiguredHasAddress`, which says how much of the refuted `ConfiguredIsConfigured`
is left.

## Not modelled

The contents of reports in the driver (whether one is there is enough for the
locks), so neither a copy that tears while the handler writes nor the sign of an
error code; a torn ADC conversion (any conversion is an input of the
characteristic); the six key codes of a report, a limit of memory that a set of
keys does not have (at most two buttons beside two wheels stay within it); a report
that the driver's next transfer overwrites before it is read, of which nothing in the
repository says that it must be read.

In the USB core: SetFeature(ENDPOINT_HALT), SetAddress(0), remote wake-up (never
called), and turning the PLL, the pad regulator and the clock on and off, which has
no effect on the state that is modelled beyond "a suspended device does not
answer".  Resets are in both `FrontPanel` and `UsbDevice`, because the first
follows the contents of reports and the second the endpoints; suspend and the
stages of control transfers are in `UsbDevice` alone.

Descriptors are constant tables.  The user library and command make one call after
the other; their calls are what the threads of `RpcDriver` do.  Most of the lines in
the repository are LUFA's: host mode, other architectures, class drivers and
peripherals that this firmware does not compile (`USB_DEVICE_ONLY`, AVR8, HID and
RPC only).  They are not part of the program, nothing in it fixes how they would be
called, and so they are left alone.

## How the project was ordered

`RpcDriver`/`RpcLifetime` first, as the part with the most concurrency; then the
firmware from its data outwards (`SensorFilter`, `RpcFirmware`, `FrontPanel`); then
`UsbDevice`/`ControlTransfer`, on which the other firmware modules rest: they
assume that the device stays configured and that a request is served within one
turn of main, and `UsbDevice` says when that is so.  Each proof module was written
once TLC had accepted its inductive invariant.

What could still be added: an end-to-end composition of `RpcDriver`'s write path with
`FanControl`, whose parts are each proved (`NoIoAfterDisconnect` and `SlotsNotLost` on
one side; `SpeedFromHost`, `AcknowledgedIsDone` and `FanControlSpec` on the other);
reports with contents in the driver; and an abstract specification of the reports
of the panel beside `HostInSync`.
