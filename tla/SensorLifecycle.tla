-------------------------- MODULE SensorLifecycle --------------------------
(***************************************************************************)
(* sems_sensor.c and the life of a sensor in its driver (HTU21D.c,         *)
(* TSL2561.c, GPIOSensor.c): get, init, poll, set an event handler,        *)
(* uninit.  A driver hands out pointers to heap blocks it remembers in     *)
(* static variables; app_timer polls a sensor through its block.           *)
(*                                                                         *)
(* The main thread may call any operation.  A poll handler, which runs in  *)
(* the app_timer interrupt, may stop or restart its own polling and then   *)
(* uninit its sensor.  app_timer_start and app_timer_stop only queue a     *)
(* request, which app_timer carries out in an interrupt of the same lowest *)
(* priority: at once when main made it, after the handler's return when a  *)
(* handler did.  A pin change (GPIOTE) preempts both at any instruction.   *)
(***************************************************************************)
EXTENDS Naturals, Sequences

CONSTANTS
    Htu,       \* the HTU21D driver, if the application uses it
    Tsl,       \* the TSL2561 drivers, one for each TWI address
    Default,   \* the one of the default address (p_sensor_0)
    Pins,      \* the pins used as sensors, each a slot of gpio_sensors
    Block,     \* heap blocks: a sensor with its config and data, or a report
    NULL

Driver  == Htu \cup Tsl \cup Pins
Context == {"main", "timer"}
State   == {"UNINITED", "INITED", "POLLING"}

ASSUME DriverAssumption ==
    /\ Htu \cap Tsl = {} /\ Htu \cap Pins = {} /\ Tsl \cap Pins = {}
    /\ Tsl # {} => Default \in Tsl
    /\ NULL \notin Driver \cup Block
    /\ Driver \cap Block = {}

VARIABLES
    heap,       \* what each block holds
    instance,   \* p_singleton_sensor, p_sensor_0 to 2, gpio_sensors
    linked,     \* app_timer's list: timers that run, with the sensor they poll
    op_queue,   \* requests app_timer has not carried out
    gpiote,     \* pins whose channel is allocated and enabled
    held,       \* the pointers the application got
    pc,         \* where each context is in a call
    call,       \* the arguments of that call
    misnulled,  \* history: drivers left with a static that points to a freed block
    failed,     \* history: drivers whose init failed after the application's get
    raced       \* history: a report took memory that app_timer still uses

vars == <<heap, instance, linked, op_queue, gpiote, held, pc, call,
          misnulled, failed, raced>>
history == <<misnulled, failed, raced>>
world   == <<instance, linked, gpiote, held, misnulled, failed, raced>>

Free   == [use |-> "free", driver |-> NULL, sensor_state |-> "UNINITED",
           polled |-> FALSE, event |-> FALSE]
Report == [Free EXCEPT !.use = "report"]

\* SEMS_SENSOR_SETUP: polled and event say whether polling_data_handler and
\* event_data_handler are set.
Setup(d) == [Free EXCEPT !.use = "sensor", !.driver = d]

IsSensor(b) == heap[b].use = "sensor"

\* Mutated: app_timer_id is left out of the set-up.
TimerUnset(b) == NULL

\* A TWI sensor's timer is static in its driver, a pin's is part of its block.
Timer(b) == IF heap[b].driver \in Pins THEN b ELSE heap[b].driver

\* A context's arguments outside of a call.
None == [sensor |-> NULL, poll |-> FALSE]

-----------------------------------------------------------------------------
Init ==
    /\ heap = [b \in Block |-> Free]
    /\ instance = [d \in Driver |-> NULL]
    /\ linked = {}
    /\ op_queue = <<>>
    /\ gpiote = {}
    /\ held = [d \in Driver |-> NULL]
    /\ pc = [c \in Context |-> "idle"]
    /\ call = [c \in Context |-> None]
    /\ misnulled = {} /\ failed = {} /\ raced = FALSE

\* Main is preempted as long as app_timer has something to do.
Runs(c) == c = "timer" \/ (pc["timer"] = "idle" /\ op_queue = <<>>)

At(c, point) == Runs(c) /\ pc[c] = point
Goto(c, point) == pc' = [pc EXCEPT ![c] = point]

\* A call returns to the main program, or to the poll handler that made it.
Return(c, point) ==
    /\ Goto(c, IF c = "main" THEN "idle" ELSE point)
    /\ call' = IF c = "main" THEN [call EXCEPT !["main"] = None] ELSE call
Proceed(c, point) == Goto(c, point) /\ UNCHANGED call

\* Main passes a pointer it holds, a poll handler its p_source.  The application
\* does not call operations of one sensor from both at once.
Passed(c, b) ==
    /\ b \in Block /\ IsSensor(b)
    /\ IF c = "main" THEN At(c, "idle") /\ \E d \in Driver : held[d] = b
                     ELSE /\ pc[c] \in {"handler", "handled"} /\ call[c].sensor = b
                          /\ pc["main"] = "idle" \/ call["main"].sensor # b

-----------------------------------------------------------------------------
(* Get and init.                                                            *)

\* The driver remembers the sensor: the pointer it handed out before.
GetAgain(d) ==
    /\ At("main", "idle") /\ instance[d] # NULL
    /\ held' = [held EXCEPT ![d] = instance[d]]
    /\ failed' = failed \ {d}
    /\ UNCHANGED <<heap, instance, linked, op_queue, gpiote, pc, call,
                   misnulled, raced>>

GetNew(d) ==
    /\ At("main", "idle") /\ instance[d] = NULL
    /\ \E b \in Block :
        /\ heap[b] = Free
        /\ heap' = [heap EXCEPT ![b] = Setup(d)]
        /\ instance' = [instance EXCEPT ![d] = b]
        /\ held' = [held EXCEPT ![d] = b]
    /\ failed' = failed \ {d}
    /\ UNCHANGED <<linked, op_queue, gpiote, pc, call, misnulled, raced>>

\* malloc fails for the sensor, its config or its data, and the static is cleared.
GetFails(d) ==
    /\ At("main", "idle") /\ instance[d] = NULL /\ d \notin Tsl \ {Default}
    /\ held' = [held EXCEPT ![d] = NULL]
    /\ failed' = failed \ {d}
    /\ UNCHANGED <<heap, instance, linked, op_queue, gpiote, pc, call,
                   misnulled, raced>>

\* The functions of the other TSL2561 addresses clear p_sensor_0 instead of their own
\* static, which keeps what malloc returned: a block that is freed at once, or NULL.
GetFailsOther(d) ==
    /\ At("main", "idle") /\ instance[d] = NULL /\ d \in Tsl \ {Default}
    /\ \E b \in {NULL} \cup {x \in Block : heap[x] = Free} :
        /\ instance' = [instance EXCEPT ![d] = b, ![Default] = NULL]
        /\ misnulled' = misnulled \cup {Default} \cup (IF b = NULL THEN {} ELSE {d})
    /\ held' = [held EXCEPT ![d] = NULL]
    /\ failed' = failed \ {d}
    /\ UNCHANGED <<heap, linked, op_queue, gpiote, pc, call, raced>>

\* Mutated: p_sensor_0 is cleared whichever sensor is freed.
ForgottenElsewhere(b) == Default

\* The statics a TSL2561 sensor is looked up in, p_sensor_0 first.
Found(b) == {d \in Tsl : instance[d] = b}
Forgotten(b) ==
    IF heap[b].driver \notin Tsl THEN heap[b].driver
    ELSE IF instance[Default] = b THEN Default ELSE CHOOSE d \in Found(b) : TRUE

\* A static left by a get that failed may be found first; the sensor's own dangles then.
Forget(b) ==
    /\ instance' = [instance EXCEPT ![Forgotten(b)] = NULL]
    /\ misnulled' = misnulled \cup {d \in {heap[b].driver} : Forgotten(b) \in misnulled}

\* A driver refuses a sensor that is not the one it remembers.
Remembered(b) ==
    IF heap[b].driver \in Tsl THEN Found(b) # {} ELSE instance[heap[b].driver] = b

CanInit(b) == Passed("main", b) /\ heap[b].sensor_state = "UNINITED" /\ Remembered(b)

\* free_tsl2561_sensor, and what the drivers of other sensors free.
FreeSensor(b) == heap' = [heap EXCEPT ![b] = Free]

InitOk(b) ==
    /\ CanInit(b)
    /\ heap' = [heap EXCEPT ![b].sensor_state = "INITED"]
    /\ UNCHANGED <<world, op_queue, pc, call>>

\* The TSL2561 does not answer: the driver frees the sensor.
InitFails(b) ==
    /\ CanInit(b) /\ heap[b].driver \in Tsl
    /\ FreeSensor(b)
    /\ Forget(b)
    /\ failed' = failed \cup {heap[b].driver}
    /\ UNCHANGED <<linked, op_queue, gpiote, held, pc, call, raced>>

-----------------------------------------------------------------------------
(* sems_sensor_polling(sensor, handler or NULL, cycle_ms).                  *)

\* Polling is off: the call is done if cycle_ms is 0 or the handler NULL.
Off(c, arguments) ==
    IF arguments.poll THEN Goto(c, "start") /\ call' = [call EXCEPT ![c] = arguments]
                      ELSE Return(c, "handled")

PollEnter(c, b) ==
    /\ Passed(c, b) /\ pc[c] # "handled"
    /\ heap[b].sensor_state # "UNINITED"
    /\ \E poll \in BOOLEAN : LET arguments == [sensor |-> b, poll |-> poll] IN
        \/ /\ heap[b].sensor_state = "INITED"
           /\ Off(c, arguments)
           /\ UNCHANGED op_queue
        \/ /\ heap[b].sensor_state = "POLLING"
           /\ Goto(c, "clear")
           /\ call' = [call EXCEPT ![c] = arguments]
           /\ op_queue' = Append(op_queue, [op |-> "stop", timer |-> Timer(b), sensor |-> b])
        \/ /\ heap[b].sensor_state = "POLLING"    \* no room for the request
           /\ Return(c, "handled")
           /\ UNCHANGED op_queue
    /\ UNCHANGED <<heap, world>>

\* Mutated: the handler is not cleared when polling stops.
PollClearState(c) ==
    /\ At(c, "clear")
    /\ heap' = [heap EXCEPT ![call[c].sensor].sensor_state = "INITED"]
    /\ Off(c, call[c])
    /\ UNCHANGED <<world, op_queue>>

PollClear(c) ==
    /\ At(c, "clear")
    /\ heap' = [heap EXCEPT ![call[c].sensor].sensor_state = "INITED",
                            ![call[c].sensor].polled = FALSE]
    /\ Off(c, call[c])
    /\ UNCHANGED <<world, op_queue>>

\* Mutated: the error codes of app_timer_create and app_timer_start are ignored.
PollStartUnchecked(c) ==
    /\ At(c, "start")
    /\ Proceed(c, "store")
    /\ \/ op_queue' = Append(op_queue, [op |-> "start", timer |-> Timer(call[c].sensor),
                                        sensor |-> call[c].sensor])
       \/ UNCHANGED op_queue
    /\ UNCHANGED <<heap, world>>

\* app_timer_create refuses a timer that runs, and may find it running until a
\* stop is carried out; app_timer_start may find no room.
PollStart(c) ==
    /\ At(c, "start")
    /\ LET b == call[c].sensor IN
        \/ /\ Proceed(c, "store")
           /\ op_queue' = Append(op_queue, [op |-> "start", timer |-> Timer(b), sensor |-> b])
        \/ /\ Return(c, "handled")
           /\ UNCHANGED op_queue
    /\ UNCHANGED <<heap, world>>

PollStore(c) ==
    /\ At(c, "store")
    /\ heap' = [heap EXCEPT ![call[c].sensor].sensor_state = "POLLING",
                            ![call[c].sensor].polled = TRUE]
    /\ Return(c, "handled")
    /\ UNCHANGED <<world, op_queue>>

-----------------------------------------------------------------------------
(* sems_sensor_uninit, and the store into the sensor after its driver freed  *)
(* it: a report has no state, but a sensor would lose its own.               *)

\* Mutated: the driver leaves the pin's channel enabled.
ReleaseSensorOnly(b) == Remembered(b) /\ FreeSensor(b) /\ Forget(b) /\ UNCHANGED gpiote

\* The driver's part: it frees a sensor it remembers, with the channel of a pin.
Release(b) ==
    /\ Remembered(b)
    /\ FreeSensor(b)
    /\ Forget(b)
    /\ gpiote' = gpiote \ {heap[b].driver}

\* Mutated: a sensor that polls is not refused.
UninitWhilePolling(c, b) ==
    /\ Passed(c, b)
    /\ Release(b)
    /\ held' = [held EXCEPT ![heap[b].driver] = NULL]
    /\ call' = [call EXCEPT ![c] = [sensor |-> b, poll |-> FALSE]]
    /\ Goto(c, "uninited")
    /\ UNCHANGED <<linked, op_queue, failed, raced>>

UninitFree(c, b) ==
    /\ Passed(c, b)
    /\ heap[b].sensor_state = "INITED"
    /\ Release(b)
    /\ held' = [held EXCEPT ![heap[b].driver] = NULL]
    /\ call' = [call EXCEPT ![c] = [sensor |-> b, poll |-> FALSE]]
    /\ Goto(c, "uninited")
    /\ UNCHANGED <<linked, op_queue, failed, raced>>

UninitStore(c) ==
    /\ At(c, "uninited")
    /\ heap' = [heap EXCEPT ![call[c].sensor].sensor_state = "UNINITED"]
    /\ Return(c, "leaving")
    /\ UNCHANGED <<world, op_queue>>

-----------------------------------------------------------------------------
(* sems_sensor_set_event_handler, for pins.  The driver does its part before *)
(* the handler is stored; it refuses a pin that is in use already.           *)

SetEvent(b, enable) ==
    /\ Passed("main", b) /\ heap[b].sensor_state # "UNINITED"
    /\ LET pin == heap[b].driver IN
        /\ pin \in Pins /\ Remembered(b) /\ (pin \in gpiote) = ~enable
        /\ gpiote' = IF enable THEN gpiote \cup {pin} ELSE gpiote \ {pin}
    /\ call' = [call EXCEPT !["main"] = [sensor |-> b, poll |-> FALSE]]
    /\ Goto("main", IF enable THEN "event" ELSE "no_event")
    /\ UNCHANGED <<heap, instance, linked, op_queue, held, history>>

EventStore ==
    /\ At("main", "event") \/ At("main", "no_event")
    /\ heap' = [heap EXCEPT ![call["main"].sensor].event = (pc["main"] = "event")]
    /\ Return("main", "idle")
    /\ UNCHANGED <<world, op_queue>>

\* A freed block that app_timer's list still goes through.
Late(b) == \E l \in linked : l.timer = b

\* gpiote_evt_handler: an event with a handler makes a report, which takes heap.
PinEvent(d) ==
    /\ d \in gpiote /\ instance[d] # NULL /\ heap[instance[d]].event
    /\ \E b \in Block :
        /\ heap[b] = Free
        /\ heap' = [heap EXCEPT ![b] = Report]
        /\ raced' = (raced \/ Late(b))
    /\ UNCHANGED <<instance, linked, op_queue, gpiote, held, pc, call,
                   misnulled, failed>>

-----------------------------------------------------------------------------
(* The app_timer interrupt.                                                 *)

\* The requests of the queue, in order: a timer that runs is not started again.
Does(list, r) ==
    IF r.op = "stop" THEN {l \in list : l.timer # r.timer}
    ELSE IF \E l \in list : l.timer = r.timer THEN list
    ELSE list \cup {[timer |-> r.timer, sensor |-> r.sensor]}

CarryOut ==
    /\ pc["timer"] = "idle" /\ op_queue # <<>>
    /\ linked' = Does(linked, Head(op_queue))
    /\ op_queue' = Tail(op_queue)
    /\ UNCHANGED <<heap, instance, gpiote, held, pc, call, history>>

Requests(t) == {i \in DOMAIN op_queue : op_queue[i].timer = t}

\* timeout_handler, entered and back from get_sensor_data.  A period is longer than a
\* handler, so requests for a timer are carried out before it expires again ...
Expire(l) ==
    /\ pc["timer"] = "idle" /\ l \in linked /\ Requests(l.timer) = {}
    /\ Goto("timer", "test")
    /\ call' = [call EXCEPT !["timer"] = [sensor |-> l.sensor, poll |-> FALSE]]
    /\ UNCHANGED <<heap, world, op_queue>>

\* ... and its test of polling_data_handler.
TimeoutCall ==
    /\ pc["timer"] = "test" /\ heap[call["timer"].sensor].polled
    /\ Proceed("timer", "handler")
    /\ UNCHANGED <<heap, world, op_queue>>

TimeoutReturns ==
    /\ \/ pc["timer"] = "test" /\ ~heap[call["timer"].sensor].polled
       \/ pc["timer"] \in {"handler", "handled", "leaving"}
    /\ Goto("timer", "idle")
    /\ call' = [call EXCEPT !["timer"] = None]
    /\ UNCHANGED <<heap, world, op_queue>>

\* The 2 s timer takes a report off the air (sensor_handler.c).
ReportFreed(b) ==
    /\ pc["timer"] = "idle" /\ heap[b] = Report
    /\ heap' = [heap EXCEPT ![b] = Free]
    /\ UNCHANGED <<world, op_queue, pc, call>>

-----------------------------------------------------------------------------
CallStep(c) == PollClear(c) \/ PollStart(c) \/ PollStore(c) \/ UninitStore(c)

Next ==
    \/ \E d \in Driver : GetAgain(d) \/ GetNew(d) \/ GetFails(d) \/ GetFailsOther(d) \/ PinEvent(d)
    \/ \E b \in Block : InitOk(b) \/ InitFails(b) \/ SetEvent(b, TRUE) \/ SetEvent(b, FALSE)
    \/ \E c \in Context, b \in Block : PollEnter(c, b) \/ UninitFree(c, b)
    \/ \E c \in Context : CallStep(c)
    \/ EventStore \/ CarryOut \/ TimeoutCall \/ TimeoutReturns
    \/ \E l \in linked : Expire(l)
    \/ \E b \in Block : ReportFreed(b)

Spec == Init /\ [][Next]_vars

\* An interrupt that is pending is served and its handler goes on, app_timer serves every
\* timer that expires again and again, and the interrupts leave main time to finish a call.
Fairness ==
    /\ SF_vars(CarryOut) /\ WF_vars(TimeoutCall) /\ WF_vars(TimeoutReturns)
    /\ WF_vars(CallStep("timer")) /\ SF_vars(CallStep("main"))
    /\ \A b \in Block : SF_vars(\E l \in linked : l.sensor = b /\ Expire(l))

FairSpec == Spec /\ Fairness

-----------------------------------------------------------------------------
Point == {"idle", "clear", "start", "store", "uninited", "event", "no_event",
          "test", "handler", "handled", "leaving"}

\* Types of the variables of sems_sensor.c and its drivers, and of the two contexts.
TypeOK ==
    /\ heap \in [Block -> [use : {"free", "report", "sensor"}, driver : Driver \cup {NULL},
                           sensor_state : State, polled : BOOLEAN, event : BOOLEAN]]
    /\ instance \in [Driver -> Block \cup {NULL}]
    /\ linked \subseteq [timer : Driver \cup Block, sensor : Block]
    /\ op_queue \in Seq([op : {"start", "stop"}, timer : Driver \cup Block, sensor : Block])
    /\ gpiote \subseteq Pins
    /\ held \in [Driver -> Block \cup {NULL}]
    /\ pc \in [Context -> Point]
    /\ call \in [Context -> [sensor : Block \cup {NULL}, poll : BOOLEAN]]
    /\ misnulled \subseteq Driver /\ failed \subseteq Driver
    /\ raced \in BOOLEAN

\* What get returned is a sensor of that driver, until uninit takes it back: except
\* after an init that failed (TSL2561.c:301 frees the sensor and no doc says so), and
\* after a get that failed and left its static pointing to a freed block (line 410).
HeldIsLive ==
    \A d \in Driver \ (misnulled \cup failed) :
        held[d] # NULL => IsSensor(held[d]) /\ heap[held[d]].driver = d

\* No sensor is lost: a block in use as a sensor is the one its driver remembers, unless
\* the failure of another address cleared that static.
SensorsAreRemembered ==
    \A b \in Block : IsSensor(b) /\ heap[b].driver \notin misnulled
                        => instance[heap[b].driver] = b

InCall(b) == \E c \in Context : pc[c] \in {"clear", "start", "store"} /\ call[c].sensor = b

\* What app_timer does, or will do once its queue is empty.
WillPoll(b) ==
    LET requests == Requests(Timer(b)) IN
    IF requests = {} THEN [timer |-> Timer(b), sensor |-> b] \in linked
    ELSE \E last \in requests :
            /\ \A i \in requests : i <= last
            /\ op_queue[last].op = "start" /\ op_queue[last].sensor = b

\* Outside of sems_sensor_polling, a sensor says POLLING and has its handler exactly when
\* its timer runs or is about to: whatever the call was preempted by, and whichever of its
\* requests to app_timer failed.  (Two sensors share a timer once a get cleared the static
\* of another driver.)
PollingAgrees ==
    \A b \in Block : IsSensor(b) /\ heap[b].driver \notin misnulled /\ ~InCall(b) =>
        /\ (heap[b].sensor_state = "POLLING") = WillPoll(b)
        /\ heap[b].polled = WillPoll(b)

\* app_timer polls no freed sensor, and its list runs through live memory: a pin's timer is
\* freed with its sensor, which is not before its stop was requested, and its memory is not
\* used again before the stop is carried out (a report that comes just then may).
PollsLiveSensors ==
    /\ \A l \in linked : l.timer \in Block =>
        \/ IsSensor(l.timer) /\ heap[l.timer].driver \in Pins
        \/ /\ \E i \in DOMAIN op_queue : op_queue[i].op = "stop" /\ op_queue[i].timer = l.timer
           /\ heap[l.timer].use = "report" => raced
    /\ pc["timer"] \in {"test", "handler"} => IsSensor(call["timer"].sensor)
    /\ op_queue = <<>> => \A l \in linked : IsSensor(l.sensor)

\* A pin's channel is enabled exactly when its sensor has an event handler: no event is left
\* to a sensor that is gone, and a pin can be given an event again.
EventsAgree ==
    pc["main"] \notin {"event", "no_event"} =>
        \A d \in Pins : d \in gpiote <=> instance[d] # NULL /\ heap[instance[d]].event

\* A sensor that says POLLING is polled again, or stops saying so: no request that app_timer
\* refused, and no order of main's call and the interrupts, leaves a sensor that waits for a
\* timer that does not run (but two sensors that share one do).
PolledAgain ==
    \A b \in Block :
        heap[b].sensor_state = "POLLING" ~>
            \/ pc["timer"] = "handler" /\ call["timer"].sensor = b
            \/ heap[b].sensor_state # "POLLING" \/ heap[b].driver \in misnulled

=============================================================================
