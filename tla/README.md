# SEMS Sensor Hub: TLA+ models, checks and proofs

The hub is firmware for an nRF52832 (Nordic SDK 12, SoftDevice S132). It reads sensors over
TWI and GPIO, publishes what it reads over BLE as protobuf messages, in a GATT value that a
client reads and in the scan response of its advertising, and executes actions that a client
writes: infrared signals. Paths below are relative to
`src/SEMS_Sensor_Hub/Application/`.

## 1. Inventory

| Part | Source | State | Operations |
|---|---|---|---|
| Sensor handler | `SEMS_Module/sensor_handler.c` | two lists of sensors; a queue of at most 16 "advertise once" reports with a heap block each; `last_index`; one static message | update the GATT value, update the scan response, advertise once, add and remove a sensor, the 2 s timeout |
| Protobuf encoding | `SEMS_Libs/nanobp/pb_encode.c`, `SEMS_ProtoBuf/` | a stream over a 128-byte buffer | encode a list entry in two passes: size, then bytes |
| Protobuf decoding | `SEMS_Libs/nanobp/pb_decode.c`, `pb_common.c` | a stream over what was written, the set of required fields seen | decode an action: fields in any order, repeated, unknown, malformed |
| Linked list | `SEMS_Utils/linkedlist.c` | nodes on the heap | insert at the end, find, remove |
| Sensor lifecycle | `SEMS_Module/SEMS_Sensor/sems_sensor.c` | state, handlers and timer of each sensor | init, uninit, poll, flush, set event handler |
| Sensor drivers | `HTU21D.c`, `TSL2561.c`, `GPIOSensor.c` | singletons on the heap, last reading, a static TWI buffer, the devices' registers | get, init, uninit, read, set event |
| IR actuator | `SEMS_Module/SEMS_Actuator/sems_actuator.c`, `sems_ir_actuator.c` | `m_busy`, position in the raw buffer, two compare registers, the carrier gate | get, init, execute, uninit, counter interrupt |
| IR encoders | `SEMS_IR_Encoder/` | none | raw and NEC data to durations |
| BLE services | `SEMS_BLE_Services/` | three copies of the connection handle, two characteristics, the negotiation of the connection's parameters | boot, dispatch of the SoftDevice's events, set the GATT value and the scan response, receive an action |
| Application | `main.c` | none | boot order, `sensor_event_handler`, `ble_action_handler` |
| Third party, unused or generated | nanopb's generator, battery service, templates, `test_sensor.c`, `sdk_config.h` | | |

### How they interact

`main` (main.c:208) initialises the timers, the BLE stack, the sensor handler, then the sensors
(main.c:122): HTU21D and TSL2561 are added to the GATT list and polled every second, and a change
of pin 20 calls `sems_ble_advertising_once`. Everything after that runs in interrupts, of three
priorities:

* the **main thread** may add and remove sensors (the public functions of `sensor_handler.h`);
* **app_timer** (RTC1, the lowest priority): the polls of `sems_sensor.c`, whose handler encodes
  and publishes one of the two lists, and the 2 s timer of `sensor_handler.c`; one after the other;
* **GPIOTE** (priority 6, sdk_config.h:407): `gpiote_evt_handler` → `sensor_event_handler` →
  `sems_ble_advertising_once`, which itself encodes and publishes the advertising list. It preempts
  both of the others at any instruction;
* the **TWI** interrupt (priority 6) moves the bytes that a reading in main or in app_timer waits for;
* **BLE events** come in an interrupt of app_timer's priority: a connection, a request, a write of an
  action, which is decoded, encoded and handed to the infrared actuator;
* TIMER2 (high priority) advances an infrared signal.

A preempted context goes on only when the one that preempted it is done. No lock is taken
anywhere: the lists, the queue, the message being encoded and the heap are shared as they are.

### What is hard here

Steps of the GPIOTE interrupt between two steps of a timer handler (nobody can write that test); tests
and indices that are stale when used; ownership of the queue's heap blocks and of the drivers'
singletons; requests to app_timer that are carried out after the call that made them returned; a device
whose register pointer and a buffer that two readings share; events about a link that is gone by then;
an encoder that retries when its buffer is full; a decoder of whatever a central writes; a 512-byte
heap; an infrared handler that must be on time. PROJECT.json lists each under `hazards`, with its line
and the properties about it.

### What makes each part correct

* Sensor handler: the queue stays in its array; each queued report owns an allocated block that is
  freed once; a report stays on the air until the second timeout after it and is then erased; an
  update publishes the listed sensors, in order, each with its own tag and reading; an update ends.
* Sensor lifecycle: no call uses a freed sensor, no sensor is lost; what a sensor says of its polling
  and its events is what app_timer and the pin do; a stopped sensor is not polled, another one is.
* Drivers: a word that is stored arrived as it was sent, and is of the quantity it is stored as.
* IR actuator: the carrier is on exactly in the marks of the signal; a signal ends and the actuator
  accepts the next; the handler stays in the buffer.
* Decoder and IR encoders: what a central wrote is what is decoded, whatever pieces it consists of; only
  that is sent, and it fits the buffer.
* BLE services: all holders of the connection handle agree; every request is answered; a hub that is not
  connected can be found; it disconnects and resets for a reason only; what is read is a message.

## 2. Plan

All done, in this order; what is left, and why, is section 6.

1. **SensorHandler**, with **OnceWindow** as its abstract specification; two proof modules.
2. **IrActuator** with the carrier, its counter and the interrupt, against **IrSignal** (edges on
   time and in order, carrier in the marks only); one proof module.
3. **SensorLifecycle**: sems_sensor.c, the drivers' singletons and app_timer's queue; one proof module.
4. **PbDecode** and **PbEncode**, the pure parts of nanopb, **ActionFormat**, the format of what a
   central writes, and **ActionPath**, which composes the decoder with the service, main and the
   infrared encoders; one proof module for the pure parts and one for ActionPath.
5. **TwiReading**: the readings on the bus, with HTU21D's check value; one proof module.
6. **BleServices**: boot, events and services around PbEncode; one proof module.

## 3. The modules

### SensorHandler

Variables carry the source's names. `sensor_list` is both lists, each a sequence of sensors;
`once_queue` is the used part of the array, so `once_queue_index` is its length; `heap` gives the
content of each block malloc may still hand out, `Unallocated` when it is on the free list;
`scan_response` and `gatt_value` are the entries a reader decodes. `pc` says where each interrupt is
in its handler and `job` holds the locals of `sems_ble_update_data` and `encode_sensordata`.
`corrupt` is set when a block is freed twice. `raced` (the last report preempted the timeout
handler), `repeated` (some queued tag was reported again) and `disturbed` (a report preempted this
update) are history: no guard reads them.

A step of an interrupt is what it does between two accesses to shared data. So:

| Code | Actions |
|---|---|
| `sems_ble_add_sensor`, `_remove_sensor`, `_remove_sensor_tag` | `AddSensor`, `RemoveSensor`, `RemoveSensorTag`: one step each, since a node is linked or unlinked by one store |
| `encode_sensordata`, one entry | `EntryHead` (field tag, type), `EntryLength` (size), `EntryCopy` (memcpy), `EntrySizing` (first pass and test for room), `EntryWrite` (second pass) |
| the end of its loops | `LoopEnd`, with `QueueFollows` for the test of line 59 |
| the tail of `sems_ble_update_data` | `Publish` |
| `ble_advertising_timeout_handler` | `ClearTimeout` (the test), `ClearResponse`, `LatchIndex`, `FreeEntry` (one turn of the loop), `ResetIndex` |
| a poll | `PollTimeout`, then an update |
| `gpiote_evt_handler` and `sems_ble_advertising_once` | `RepeatReport`, `NewReport` (then an update) or `ReportFaults` (malloc returned NULL) |

`Runs(c)` and `MainRuns` are the priorities: GPIOTE always runs, the timer when GPIOTE is idle, main
when both are.

What is abstracted: readings are model values, and an entry is the record of its tag and data
instead of bytes, but its **size** in bytes is computed as nanopb computes it, since full buffers
matter. An entry that was cut off is a `torn` item. Each of the two passes of `pb_encode_submessage`
is one step: a report that preempts the middle of a pass leaves a mixture, which no property tells
apart from a torn or a foreign entry. The heap holds the queue's blocks only, and after a double free
malloc may return a block in use. `list_insert_end` that finds no memory leaves the list as it is,
which is a stutter. What `ble_advdata_set` and `sd_ble_gatts_value_set` do with valid data is taken
from their use: they replace what is there.

### OnceWindow

What `sems_ble_advertising_once` promises, without contexts, queue or blocks: reports on the air have
an age, the number of timeouts they have lived through; the first timeout never takes them off, the
second does, an update of a used advertising list may replace them before. A report that comes while a
timeout is being served is `late`, and nothing is promised for it. `KeepsWindow` is the refinement:
`on_air` is whether the scan response holds a report, `age` is read off the queue and `last_index`.

### IrActuator and IrSignal

`IrActuator` is `sems_ir_actuator.c` with the hardware it sets up. The statics carry their names; the
pointer `m_current_data_ptr` is its index `next`, and the buffer is `signal`, given by the running sums
of its durations, which is all the code computes from them. `CC`, `EVENTS_COMPARE` and `counter` are
TIMER2's, `carrier` is the part of TIMER1's period, `group` the PPI group that lets the carrier through
to the `pin`.

| Code | Actions |
|---|---|
| `sems_actuator_init`, `sems_ir_init` | `ActuatorInit` |
| `sems_ir_execute` and `sems_ir_row_send` | `Execute`; `ExecuteFails` when the encoder fails or makes no duration |
| TIMER1 and the PPI channels A to E | `LowEnds` (channel B), `HighEnds` (A, C, D, E) |
| one turn of the loop of `SEMS_IR_CARRIER_COUNTER_IRQHandler` | `Load`, `LastEdgeToCome`, `Stop` by `m_bits_remaining` |

The handler is late by `late` half-cycles of the carrier at most `MaxLate`; an action needs the handler
to be through, since the BLE interrupt that brings it is preempted by TIMER2. When only the register
that the handler does not wait for has matched, its loop does nothing and the interrupt is entered
again. When both registers match at once, the channels that enable and disable the group fire together:
either may win.

`IrSignal` knows no registers: time goes by in periods, and an edge is made neither more than half a
period before its instant nor after. `FollowsSignal` is the refinement.

### SensorLifecycle

`heap` holds a sensor, a report of `sensor_handler.c` or nothing in each block, for the blocks are what
both take; `instance` are the drivers' statics (`p_singleton_sensor`, `p_sensor_0` to `2`,
`gpio_sensors`); `held` the pointers the application got; `op_queue` and `linked` are app_timer's, with
the timer's own memory, which is static for a TWI sensor and inside the block for a pin. `pc` and `call`
say where main and app_timer's interrupt are in a call of sems_sensor.c.

| Code | Actions |
|---|---|
| `get_*_sensor` | `GetAgain`, `GetNew`, `GetFails`; `GetFailsOther` for the two TSL2561 functions that clear `p_sensor_0` |
| `sems_sensor_init` | `InitOk`, `InitFails` (the TSL2561 frees the sensor) |
| `sems_sensor_polling` | `PollEnter` (to the queued stop), `PollClear`, `PollStart` (the queued start), `PollStore` |
| `sems_sensor_uninit` | `UninitFree` (the driver's part, `Release`), `UninitStore` (the store into the freed sensor) |
| `sems_sensor_set_event_handler` | `SetEvent` (the driver's part), `EventStore` |
| `timeout_handler` | `Expire`, `TimeoutCall`, `TimeoutReturns`, with the handler's own calls between the last two |
| app_timer | `CarryOut`, one request of its queue |
| `gpiote_evt_handler`, the 2 s timer | `PinEvent` and `ReportFreed`, as far as the heap goes |

`misnulled`, `failed` and `raced` are history. The store of `UninitStore` is made into whatever the block
is by then. The model assumes that main and a poll handler do not operate on the same sensor at once, as
the application's do not.

### PbDecode, PbEncode, ActionFormat and ActionPath

`PbDecode` and `PbEncode` have nanopb's functions as operators on sequences of bytes: what each returns
and what it leaves of the stream, with the widths of its integers (`WordBits`, `DoubleBits`) as
parameters. PbEncode also has a reference decoder written from the format, which ReadsDecode uses.

| Code | Definitions of ActionPath |
|---|---|
| `main`, up to the action handler | `Boot` |
| `on_write` | `OnWrite`; without a handler the write is dropped |
| the loop of `pb_decode_noinit` | `DecodeField`, `SkipUnknown`, `BadTag`, `DecodeEnds` (the required fields) |
| `ble_action_handler` | `HandleRaw`, `HandleNec`, `HandleOther` |
| the raw and the NEC encoder | `RawDurations`, `NecEncode`, with the test of its index (`RepeatFits`) |
| `sems_ir_execute` | `Execute`, which refuses while `busy`; `SendNec` has main's own NEC frames with any repeat count |

A write is a sequence of **pieces** with any number of bytes of its end cut off. A piece is its bytes,
how many of them are its tag, the field that it is and its value. ActionFormat says by the format of a
message, not by the decoder, which bytes are which piece (`IsPiece`): a field with its value, one that
the message does not have, an end (a zero tag), or malformed in one of the ways there are. Its only
words of PbDecode are those of the format: a varint's bytes and its value, and the widths.
`ActionAssumption` asks it of every piece, so that TLC checks it of those of `action` and the
theorems hold for all others of that format. `DecodesWhatArrived` compares what arrived with the
decoder's verdict (`WellFormed`) and with the message (`LastValues`); `HearsWhatWasWritten` does the
same with what a receiver makes of the durations.

### TwiReading

A job of main or of app_timer is an init, a reading or an uninit of one sensor, a sequence of register
accesses (`Registers`). `Perform` is `app_twi_perform`, which refuses a second transaction; `WriteDone`,
`FirstByteRead`, `HtuRead`, `TslRead` and `TransferFails` are the bus's interrupt, and `ConvertHtu`,
`CheckTsl` and `ConvertTsl` what the drivers do with what came. `buffer` is HTU21D.c's static one,
`pointer` and `power` are in the TSL2561, `measured` is what the HTU21D was last told to measure. A word
is the set of its bits, so that `checkCRC` is a division of sets (`CheckCRC`).

### BleServices

| Code | Actions |
|---|---|
| `main` up to the loop | `AdvertisingInit`, `ServicesInit`, `SensorInit`, `Start`; `Reset` for APP_ERROR_CHECK |
| `ble_evt_dispatch` | `Dispatch`, by the event: `OnConnected`, `OnDisconnected`, `OnTimeout`, `OnRequest`, `OnParamUpdate`, each the order in which ble_conn_params, the services, ble_advertising and `on_ble_evt` handle it |
| `on_conn_params_evt`, ble_conn_params | `Negotiation`, `ParamsTimeout` |
| `sems_update_gatt_data` after a poll | `Publish` |
| the central and the link | `Connect`, `LinkEnds`, `Request`, `ParamUpdate` (an answer), `OwnUpdate` (unasked), `WriteValue`, `ReadPiece` |

The SoftDevice (external) is its attribute table, one link and a queue of events: the link goes on while
its events wait, so an event may be about a link that is gone. A handle is the number of its connection,
which is what lets the model tell a stale one from a good one.

A central may change the parameters when it is asked to and at any other time; the event of a change
holds what they were then, which the hub may handle after they changed again. `Negotiation` and
`ParamsTimeout` are SDK 12's ble_conn_params, which is not in the repository and is modelled as
`conn_params_init` sets it up: it starts its timer when it hears of parameters that are not acceptable,
does not stop it when it hears of better ones, and asks, or gives up, when it expires, whatever they are
by then. That timer is 30 s long, as long as the SoftDevice waits for an answer, so a request is
answered or given up before the timer expires again: hence the guard `~params.asked`. `params.own` is
history: an update that was not asked for came since the last request, or one was in the queue then.

### The MC modules

MCIrActuator gives the signals. MCSensorHandler gives the drivers' tags (0x1010, 0x1030, and 0x2000
shared by both pins) and sizes (8, 4 and 1 bytes). MCActionPath gives the pieces, MCTwiReading the words
of the HTU21D's datasheet, MCBleServices the listed sensors and their readings. MCSensorLifecycle names
the drivers. MCIrActuator
and MCTwiReading also have TLC evaluate the hypotheses that theorems put on signals and words. The proof
modules are section 5.

## 4. The runs

| Run | Question | Bounds |
|---|---|---|
| `once` | `QueueFits`, `OnceOnAirTracked`, `QueueOwnsBlocks`, `NoLeak`, `ReportsAreReadings`, `KeepsWindow` with reports only | two tags, one of them shared by two sensors, two readings, queue of 2, three blocks: a repeated tag, a full queue, a double free and an empty heap all happen |
| `gatt` | `TypeOK`, `EncodedInOrder` of GATT updates beside reports | two listed sensors and two readings; a 24-byte buffer, which two entries fit only if one of them is a pin's: both orders, a neighbour's tag or reading left in the message, and an entry that does not fit all happen |
| `advertising` | `OneEntryPerListed` with two listed sensors | a 24-byte buffer: the second entry may not fit |
| `live` | `EventuallyErased`, `UpdateEnds` | the real 128-byte buffer, one tag, two blocks, one polled sensor |
| `ir_on_time` | `TypeOK`, `BusyWhileSending`, `ReadsInBuffer`, `PinFollowsGate`, `FollowsSignal` | `MaxLate` 3 half-cycles: the longest that is never two durations late for these signals (with 4, `FollowsSignal` fails) |
| `ir_late` | `SignalEnds` | `MaxLate` 12: edges are missed and the counter comes round |
| `lifecycle` | `TypeOK`, `HeldIsLive`, `SensorsAreRemembered`, `PollingAgrees`, `PollsLiveSensors`, `EventsAgree`, `PolledAgain` | two TSL2561s and a pin share two blocks: a failed malloc, two sensors of one driver and memory that is used again all happen |
| `action` | `TypeOK`, `DecodesWhatArrived`, `RoundsBounded`, `SendsWhatWasWritten` | any two of 20 pieces, and an id, a cmd and data with any piece between or after them, cut by 0 to 2 bytes |
| `twi` | `TypeOK`, `WholeWords`, `OwnReading`, `PollEnds` | an HTU21D and a TSL2561, words that are good or have one bit flipped, a saturated channel |
| `services` | `TypeOK`, `HandlesAgree`, `CanBeFound`, `RequestsAnswered`, `ReadsDecode`, `DisconnectsWithCause`, `ResetsOnlyLate`, `BadParamsEnd` | two connections, values of two pieces, two requests for parameters; an update the central makes by itself may wait behind one other event |
| `doc_erased`, `doc_empty` | what a comment says and the code does not do; see `findings` | the smallest instance with the counterexample |

Queue and buffer sizes are scaled down so that their limits are reached with two or three sensors; the
code treats neither size specially, and the scan response keeps its real 27 bytes. In
`once` the HTU21D stands for any second kind of sensor that an application reports from an event
handler: with pins only, the queue would never hold more than one entry, as all pins share a tag.

The signals of the infrared runs have no, one, two and up to five durations in a buffer of five, and
six, which do not fit; some durations are a single period, some instants are just before and just after
the middle of a period, and the last instant of one is in the second round of a counter of 16. The
carrier's period is the real 26 us. `ir_late` adds durations shorter than a period, for which both
registers hold the same count; `FollowsSignal` promises nothing for those. The first duration is a
period at least: what TIMER2 does with a register of 0 when it is cleared is not specified.

In `lifecycle` the drivers with a bug of their own are the TSL2561s and the memory of timers is a pin's;
an HTU21D does nothing that one of them does not. Three TSL2561s with three blocks pass the safety
properties too. In `action` words are of 10 bits and double words of 20, so that varints are too long
with three and four bytes instead of six and eleven; the ids 0x5000 and 0x5001 are 80 and 81 then. In
`services` they are of 14 and 28, and a value is read in pieces of 8 bytes. The count of requests for
parameters is 2 where the code's is 3: a first request, one that is made again, and the end. `MaxEvents`
bounds only the updates a central makes by itself, which would otherwise fill the queue; with 2 one may
wait behind a connected event, an answer or a request. One connection after another is enough: the hub
keeps no list of them.

In `once` and `gatt` blocks and readings are symmetric (`Alike`): no definition tells one block, or one
reading, from another, and the `CHOOSE` there is (`Written`) is among numbers. Both runs check safety
only.

CHECK_DEADLOCK is FALSE because the program really stops: after a failed malloc the chip is in its fault
handler, and an update whose entry never fits loops for ever with its interrupt; an infrared actuator
whose encoder failed stays busy, and does nothing more. The other runs check for deadlocks.

**Fairness** (`FairSpec`): an interrupt handler that is not preempted goes on (WF on the steps of each
context), and the repeated timer's handler is served again and again even though polls compete for the
same interrupt (SF on `ClearTimeout`: app_timer serves every expired timer in turn). Pin changes, polls
and the main thread have none: nothing makes them happen. In IrActuator the carrier runs by itself and a
pending interrupt is served (WF on the carrier and on the handler); nothing makes an action come. In
SensorLifecycle app_timer carries out its queue and serves each timer that expires again and again (SF
on `CarryOut` and, for each sensor, on `Expire`), a handler in its interrupt goes on, and main gets time
to finish a call between two interrupts (SF). In TwiReading app_timer's context and the bus go on
(main's need not). In BleServices queued events are dispatched, ble_conn_params's timer expires and the
central answers a request for other parameters at some time, in either way; nothing makes it change them
by itself.

The violation runs show:

* `doc_erased`: a report between lines 32 and 37 of the timeout handler stays on the air for ever;
* `doc_empty`: HTU21D.h says that a new result is empty, but its temperature is never set; when the
  first poll's first word is lost, its handler publishes what malloc returned.

What history variables and conditions except from the passing properties is what else the code does that
its authors will not have meant:

* a second report of a queued tag is never advertised (`repeated`), and a queued report gets into the GATT value when
  no advertising sensor is listed (sensor_handler.c:132, 59);
* a report during an update puts another sensor's tag or data into the value (`disturbed`);
* with more listed sensors than the buffer holds, the update never ends (line 86);
* `raced` of SensorHandler: a report that comes between lines 27 and 30 of the timeout handler is wiped
  off the air at once;
* a removed sensor stays on the air if it was the last one (line 98);
* `failed` of IrActuator: an infrared action of one byte encodes to no duration and leaves the actuator
  busy for ever (sems_ir_actuator.c:196); a handler 18 us late after a signal of an even number of
  durations stops the carrier with the pin high, and every later signal is inverted until that happens
  again;
* `misnulled` of SensorLifecycle: a TSL2561 of address 49 or 29 that malloc fails for clears
  `p_sensor_0`: the sensor of the default address is lost, a second one may be made beside it with the
  same timer, and the static that was meant may point to freed memory; that static may then be the first
  that uninit finds and clears in place of a live sensor's own;
* a TSL2561 that does not answer frees the sensor the application holds (`failed`), and main's
  APP_ERROR_CHECK then resets the hub, which boots for ever;
* the gain of a TSL2561 is never seen: `(bool)buffer >> 4` is 0;
* a poll whose second reading fails publishes the new temperature beside the old humidity; a poll
  of a sensor that main is reading mixes the two (`raced` of TwiReading's jobs);
* a value longer than a piece that is polled between two pieces is read as pieces of two messages;
* an event that is handled after its link has gone resets the hub, over an answer that nobody waits for;
* a central that moves to good parameters by itself while ble_conn_params waits for its last 30 s is
  disconnected over parameters that are acceptable (`params.own`, ble_services.c:330);
* sems_sensor_uninit stores a state into the sensor that its driver has freed: if a pin changes just
  then, its report may be given the block and is overwritten (sems_sensor.c:118);
* `sems_set_gatt_data`, which nothing calls, passes the address of its parameter for the data.

The passing properties say exactly how far the code keeps its promise beside these. A
late infrared handler is outside `ir_on_time`: it may take one duration more than the buffer holds.

## 5. The proofs

For every set of sensors, tags, sizes, values, blocks, queue and buffer size, under the assumptions
named in SensorHandler (`SensorAssumption`, `SizeAssumption`, and `TagAssumption`: the sensors that
report have at most as many tags as the queue has entries, which the drivers' four tags satisfy):

* `TypeCorrect`, `QueueNeverOverruns` (SensorHandlerProofs). The inductive invariant adds to `TypeOK`
  the control invariant: which locals are in use at each program point, that no loop index is past the
  end of what it walks except at its end, that a sized entry fits the room left, and that the entries of
  the queue have **distinct tags**. The last is why the queue fits: an injection into the set of tags.
* `ReportsAreTracked`, `SensorHandlerKeepsWindow` (SensorHandlerProofs). `StreamInv` says which items a
  stream may hold at each point, `WindowInv` relates `pc`, `last_index` and the queue while the timeout
  handler runs; the refinement then goes action by action, each a step of OnceWindow or a stutter.
* `EntriesOwnTheirBlocks`, `BlocksAreNotLost` (SensorDataProofs). `FreedInv` follows the free loop: the
  blocks before its index are free or were handed out again to entries appended meanwhile; `BlockInv`
  is the ownership of the others.
* `WholeEntryForEach`, `EntriesInOrder` (SensorDataProofs), whatever the size of the buffer. `CountInv`
  counts the whole list entries of an update, disturbed or not: as many as sensors it has passed.
  `OrderInv` is about an update that no report disturbed: the static message holds the tag, and then
  the reading, of the sensor the loop is at (`MessageInv`), and the items are the sensors passed, in
  order (`Ordered`), unless the loop is at an entry that does not fit. There it stays (`Stuck`), for the
  stream only grows: the next try of line 54 cannot slip an entry in behind a torn one.
* `ReportsAreAsMade` (SensorDataProofs), if no timer polls a sensor that is reported. `HeldInv` says that
  the block of each entry not yet freed holds the reading of its sensor, which needs the ownership of
  `BlockInv`: a new report is never given such a block. An update that encodes the queue undisturbed has
  no free loop beside it (`ReportInv`), so that what it has encoded are the entries it has passed
  (`ReportsPassed`). Only reports of a queued tag and those during the timeout handler are excepted.
* `IrTypeCorrect`, `BusyExactlyWhileSending`, `PinFollowsTheGate` (IrActuatorProofs), for every signal,
  however late the handler: the invariant adds that an actuator which is not initialised is silent, and
  the busy flag is what keeps `Execute` from a pin that is moving. From `IrAssumption`.
* `HandlerReadsInBuffer`, `SendsThePromisedSignal` (IrActuatorProofs): the actuator implements IrSignal.
  Both have the hypothesis `HandlerInTime`: each duration is a period at least and, with the handler's
  delay, shorter than the counter's round; any two in a row are longer than the delay and no longer than
  a round. Without it both fail (`ir_late`); TLC evaluates it for `ir_on_time`. `SendInv` ties the two
  registers, the turn of the handler, the events and the gate to the signal: the register of the next
  turn holds the count of the next edge modulo the range, the other that of the edge after it, and an
  event is set exactly when its edge's count has been reached. Two counts with equal remainders that are
  less than a round apart are equal, so a match is the edge that was meant. `QuietInv` covers a signal of
  one duration, after which the handler has a turn left.
* `LifecycleTypeCorrect`, `HeldPointersAreLive`, `NoSensorIsLost`, `ChannelsAgree`
  (SensorLifecycleProofs), for every set of drivers, pins and blocks, from
  `DriverAssumption`. `MemoryInv` adds to them what each block may hold (`Blocks`), that a static which
  no failed get left points to a sensor of its driver, and `p_sensor_0` always (`Statics`: uninit looks
  it up first), that a call's sensor is not freed under it (`Calls`), at which of its two steps a call
  that sets an event is (`Channels`), and that the block of a late store holds no sensor (`Stores`), so
  that no state of one is lost.
* `PollingAlwaysAgrees`, `NoFreedSensorIsPolled` (SensorLifecycleProofs), on top of `MemoryInv`. A sensor
  is *to be polled* (`Polls`) from the request of its start to that of its stop. `PollInv` says that the
  requests for a timer are a stop, a start or both in that order, that a start is for a sensor which is
  to be polled, that a timer runs for one unless its stop waits, that a sensor's own handler runs with
  no request but those it made, and that a sensor to be polled will be: the last request for its timer
  is its start, or there is none and it is linked.
* `TypesKept`, `ReadingsAreOwn`, `WordsAreWhole` (TwiReadingProofs), from `WordAssumption`. `ControlInv`
  says where each context is when it has the bus. `OwnInv` is why a reading is the sensor's own though
  the buffer and a register pointer are shared: the timer's context has the bus or main's transfer is not
  on it (`Alone`), and at each point of a reading that is not raced, the command, the measurement, the
  first byte and the word are of its quantity (`HtuOwn`), or the pointer and the channel are its register's
  and the sensor was on (`TslOwn`). `MixedInv` is what a shared buffer can hold at worst: a first byte of
  a command or of one word, the rest of another. Two theorems have hypotheses about the words, for what
  an 8-bit check value detects depends on them: `ReadingsAreOwn` needs `NoiseIsDetected` and
  `NoWordIsACommand`, `WordsAreWhole` needs `CheckTellsWords`. TLC evaluates all three for `twi`.
  `NoWordIsACommand` came out of the proof: a word whose first byte is 0xF3 or 0xF5 (above about 119
  degrees C or 112 percent), read by main, overwrites the command that a poll has stored in the static
  buffer and not yet sent; the poll then asks for the other quantity, whose check value is good, and
  takes humidity for temperature or the reverse.
* PbProofs, for any bytes and any widths: what each operator of the decoder and of the encoder returns
  and leaves of its stream; that a tag takes a byte at least (`TagType`); that an encoded list is bytes
  and never outgrows its stream, however many messages there are and wherever one stops fitting
  (`EncodeListType`). The library's rules of induction take an operator as a parameter and cannot be
  used; `SetInduction` has a set in its place, follows from `WFMin` and the well-foundedness of Nat, and
  is enough for recursive functions. On these rest the round trips: the decoder of the format takes back
  what the encoder wrote, of a varint (`VarintRoundTrip`: the groups of seven bits add up, by the powers
  of 128), a tag, a number, bytes, a message, and of a list with whatever comes before it
  (`ListRoundTrip`). The provers have no rules for powers: `WidthAssumption`, `PowerAssumption` and
  `ActionAssumption` give the few facts about 2^n and 128^n that are needed, and TLC evaluates them.
* `ActionTypeCorrect`, `DecoderEnds` (ActionPathProofs), for any packets of pieces, from
  `ActionAssumption`: each piece is of the format (for these two that it is bytes is enough), a
  frame fits the buffer (68 durations at least), so do the durations of what the data's field can hold,
  and an index is an int8_t (128 at most). Types include that no frame with its
  repeats outgrows the buffer, whatever the repeat count. `DecoderEnds` is the termination of the
  decoder, as safety: rounds plus bytes left never exceed the bytes written.
* `DecoderIsRight` (ActionPathProofs): the decoder accepts what it should and stores what it should,
  however pieces are ordered, repeated and cut off. For each kind of piece a lemma
  (`TagRead`, `IntegerRead`, `DataRead`, `UnknownRead`, `MalformedRead`) says that the decoder's tag and field take exactly the piece's bytes from the front of a stream that has them
  all, give its value, and fail on one that ends before they do; a beginning of the tag alone reads as
  the end. `DecodeInv` then says that while the loop runs, what is left of the
  stream is what arrived less some number of whole pieces, none of them malformed or an end
  (`Consumed`), and that the message holds the last value of each field among those (`Stored`). It
  fails without either part: a stream that began inside a piece would be read as other fields.
* `ActuatorSendsWhatWasWritten` (ActionPathProofs), by `DecodeInv`: the durations of a handled action
  are what the central wrote. For NEC, eight bits make their byte again (`BitsOfByte`), each bit's
  space is heard as that bit (`FrameHeard`), and the durations of any address and command add up to
  110 ms (`FrameLasts`): the sum, taken duration by duration, has at each place 2250 us for each one
  before it and 1120 us for each zero, so that the last space is what is missing.
* `HoldersAgree`, `HubCanBeFound`, `EveryRequestIsAnswered`, `HubDisconnectsWithCause`,
  `HubResetsOnlyLate`, `ServicesTypeCorrect` (BleServicesProofs), for every number of connections, every
  list of sensors and every count of requests for parameters, from `BleAssumption`. The invariant says
  what may wait in the SoftDevice's queue: events of one connection only, its connected event at the
  head, its disconnected event last and only when the link is down, and at most one request without its
  answer. While the central has changed no parameters by itself (`~params.own`), the negotiation goes in
  turns (`InTurn`): the timer runs only over parameters that are not acceptable and with nothing asked,
  one update waits at most, and what waits tells the parameters as they are. A request starts such a
  turn again if no update waits. For the types, `Bounds` adds what is in the attribute table (`Table`), which of its
  characteristics each service has (`Own`), how far main has got (`Booted`) and the limits of
  the counters (`Counted`); that a published value is bytes that fit is
  `EncodeListType`.
* `ReadsAreTheReadings` (BleServicesProofs), from the same assumptions: what a central reads in one go,
  while no poll sets the value, decodes to the readings published. `ReadInv` says that the table has
  one sensor value at most, which no central can write (`OneSensorValue`), that it decodes to the
  readings (`ValueDecodes`, by `ListRoundTrip`), that no poll comes before the services are there
  (`Staged`), and that a read in progress has the beginning of the value as it is, or the value has
  been set meanwhile (`ReadSoFar`).

Every safety and every action property of the passing runs is a theorem. Only model-checked are the six
liveness properties (`EventuallyErased`, `UpdateEnds`, `SignalEnds`, `PolledAgain`, `PollEnds`,
`BadParamsEnd`): the prover has no fairness and no ENABLED.

## 6. Not modelled

The BLE stack, app_timer, the TWI driver and the C library are outside the repository; their effect is
modelled where the code uses it (external in `map`). Left out of the repository's own code:

* the battery service is never initialised, the templates are not compiled, `test_sensor.c` is not
  called;
* nanopb's generator is a third-party script; its result, `sems.pb.c`, is part of PbEncode and PbDecode.
  Field types that no message of `sems.pb` has (submessages to decode, strings, fixed width, pointers,
  extensions, callbacks to decode) are not reached;
* the lux formula, the conversions of HTU21D and the pins' pull-ups: floating point, or data that no
  property tells apart;
* `sems_ir_uninit` is not called, and takes the address of a field for a pin number;
  `sems_actuator_uninit` has the shape of sems_sensor.c:118;
* linkedlist.c is the sequence of its nodes: a node is linked or unlinked by one store, and the
  insertions that nobody calls are left out;
* `sys_evt_dispatch` (flash), the LED, logging, the scheduler and the power management of the main loop
  hold no state that anything above depends on.
