--------------------------- MODULE SensorHandler ---------------------------
(***************************************************************************)
(* sensor_handler.c: what the hub publishes.  Two lists of sensors, one    *)
(* served over GATT and one over advertising, and a queue of "advertise    *)
(* once" reports that a repeated 2 s timer is meant to take off the air.   *)
(*                                                                         *)
(* Three execution contexts share its statics.  The main thread adds and   *)
(* removes sensors.  The app_timer interrupt (RTC1, lowest priority) runs  *)
(* the 2 s timeout handler and, after each poll, an update of one of the   *)
(* two lists.  The GPIOTE interrupt (priority 6, sdk_config.h:407)         *)
(* preempts both and reports pin changes through sems_ble_advertising_once.*)
(* A context never resumes before the one that preempted it is done, so    *)
(* main steps need both interrupts idle and timer steps an idle GPIOTE.    *)
(* One step of an interrupt is what it does between two accesses to the    *)
(* statics the contexts share.                                             *)
(***************************************************************************)
EXTENDS Integers, Sequences, FiniteSets

CONSTANTS
    Sensor,                     \* the sensors drivers hand out
    OnceSensor,                 \* those reported by sems_ble_advertising_once
    PolledSensor,               \* those polled by an app_timer
    SensorTag,                  \* sensor_tag of each sensor (sensors share tags)
    DataSize,                   \* data_size of each sensor, in bytes
    Value,                      \* readings
    Block,                      \* heap blocks malloc can still hand out
    Unallocated,                \* content of a block that is on the free list
    ADVERTISING_ONCE_QUEUE_SIZE,
    BLE_GATT_MAX_SIZE,          \* size of the encoding buffer
    BLE_BROADCAST_MAX_SIZE,     \* room in a scan response
    MaxListLen                  \* bound: length of each sensor list

UpdateType == {"gatt", "advertising"}
Context == {"timer", "gpiote"}

ASSUME SensorAssumption ==
    /\ OnceSensor \subseteq Sensor
    /\ PolledSensor \subseteq Sensor
    /\ SensorTag \in [Sensor -> Nat]
    /\ DataSize \in [Sensor -> Nat \ {0}]
    /\ Unallocated \notin Value

ASSUME SizeAssumption ==
    /\ ADVERTISING_ONCE_QUEUE_SIZE \in Nat
    /\ BLE_GATT_MAX_SIZE \in Nat
    /\ BLE_BROADCAST_MAX_SIZE \in Nat
    /\ MaxListLen \in [UpdateType -> Nat]

\* Encoded size of one list entry: field tag, length, and the submessage with
\* its two tags, the type as a varint and the length-delimited data.
VarintLen(n) == IF n < 128 THEN 1 ELSE IF n < 16384 THEN 2 ELSE 3
MessageSize(m) == 1 + VarintLen(m.type) + 1 + VarintLen(m.size) + m.size
Prefix(length) == 1 + VarintLen(length)

\* What pb_write leaves of a message in room bytes: it writes the two fields in
\* five pieces, and stops at the first that does not fit.
Pieces(m) == {0, 1, 1 + VarintLen(m.type), 2 + VarintLen(m.type),
              MessageSize(m) - m.size, MessageSize(m)}
Written(m, room) == CHOOSE n \in Pieces(m) :
                       n <= room /\ \A k \in Pieces(m) : k <= room => k <= n

\* The drivers define four tags (SEMS_..._TAG) and the queue has 16 entries.
ASSUME TagAssumption ==
    /\ IsFiniteSet(Sensor)
    /\ Cardinality({SensorTag[s] : s \in OnceSensor}) <= ADVERTISING_ONCE_QUEUE_SIZE

VARIABLES
    sensor_list,     \* gatt_sensor_list and broadcast_sensor_list, in list order
    reading,         \* *p_sensor_data of each sensor
    sensor_data_pb,  \* the one static message both contexts encode from
    once_queue,      \* once_queue[0 .. once_queue_index-1]
    last_index,
    heap,            \* content of each block
    corrupt,         \* a block has been freed twice
    scan_response,   \* entries on the air (ble_advdata_set)
    gatt_value,      \* entries readable over GATT (sd_ble_gatts_value_set)
    pc,              \* where each interrupt is in its handler
    job,             \* locals of sems_ble_update_data and encode_sensordata
    raced,           \* history: the last report preempted the timeout handler
    repeated         \* history: some report took the "isupdate" path

statics == <<sensor_list, reading, sensor_data_pb, once_queue, last_index>>
memory  == <<heap, corrupt>>
outputs == <<scan_response, gatt_value>>
control == <<pc, job>>
history == <<raced, repeated>>
vars    == <<statics, memory, outputs, control, history>>

-----------------------------------------------------------------------------
(* Program points.  "check" is the start of ble_advertising_timeout_handler; *)
(* an update runs the entry points for each entry and then publish.         *)

TimeoutPoint == {"clear", "latch", "free", "reset"}
EntryPoint   == {"size", "copy", "sizing", "write"}
UpdatePoint  == {"head", "publish"} \cup EntryPoint
Point        == {"idle", "fault"} \cup TimeoutPoint \cup UpdatePoint

\* A context that is not preempted.
Runs(c) == c = "gpiote" \/ pc["gpiote"] = "idle"

EmptyStream == [items |-> <<>>, bytes |-> 0]
NewJob(u) == [type |-> u, source |-> "list", i |-> 1, length |-> 0,
              stream |-> EmptyStream, disturbed |-> FALSE]

\* The list an update encodes: sensor_data_list.list.arg.
JobList(c) == sensor_list[job[c].type]

\* More entries to encode in the current loop.
MoreEntries(c) == job[c].i <= (IF job[c].source = "list" THEN Len(JobList(c))
                                                         ELSE Len(once_queue))

\* The sensor, the size and the bytes of the entry the loop is at.
EntrySensor(c) == IF job[c].source = "list" THEN JobList(c)[job[c].i]
                                            ELSE once_queue[job[c].i].sensor
EntryData(c)   == IF job[c].source = "list" THEN reading[JobList(c)[job[c].i]]
                                            ELSE heap[once_queue[job[c].i].data]

Room(stream) == BLE_GATT_MAX_SIZE - stream.bytes

\* pb_encode_tag_for_field and pb_encode_submessage on success ...
Encoded(stream, source, m) ==
    [items |-> Append(stream.items, [source |-> source, torn |-> FALSE,
                                     type |-> m.type, data |-> m.data]),
     bytes |-> stream.bytes + Prefix(MessageSize(m)) + MessageSize(m)]

\* ... and on failure: n bytes of the entry stay in the stream.
Torn(stream, source, n) ==
    [items |-> Append(stream.items, [source |-> source, torn |-> TRUE,
                                     type |-> 0, data |-> Unallocated]),
     bytes |-> stream.bytes + n]

-----------------------------------------------------------------------------
Init ==
    /\ sensor_list = [u \in UpdateType |-> <<>>]
    /\ reading \in [Sensor -> Value]
    /\ sensor_data_pb = [type |-> 0, size |-> 0, data |-> Unallocated]
    /\ once_queue = <<>>
    /\ last_index = 0
    /\ heap = [b \in Block |-> Unallocated]
    /\ corrupt = FALSE
    /\ scan_response = <<>>
    /\ gatt_value = <<>>
    /\ pc = [c \in Context |-> "idle"]
    /\ job = [c \in Context |-> NewJob("gatt")]
    /\ raced = FALSE
    /\ repeated = FALSE

-----------------------------------------------------------------------------
(* Main thread. *)

MainRuns == \A c \in Context : pc[c] = "idle"

\* list_create and list_insert_end link the new node with one store; when the
\* node cannot be allocated the list stays as it is.
AddSensor(s, u) ==
    /\ MainRuns
    /\ Len(sensor_list[u]) < MaxListLen[u]
    /\ sensor_list' = [sensor_list EXCEPT ![u] = Append(@, s)]
    /\ UNCHANGED <<reading, sensor_data_pb, once_queue, last_index,
                   memory, outputs, control, history>>

IsFirst(k, K) == k \in K /\ \A j \in K : k <= j
Without(list, k) == SubSeq(list, 1, k - 1) \o SubSeq(list, k + 1, Len(list))

\* Unlink and free the first of the nodes K of a list.
RemoveFirstOf(u, K) ==
    /\ MainRuns
    /\ \E k \in K : /\ IsFirst(k, K)
                   /\ sensor_list' = [sensor_list EXCEPT ![u] = Without(@, k)]
    /\ UNCHANGED <<reading, sensor_data_pb, once_queue, last_index,
                   memory, outputs, control, history>>

\* list_remove_by_data: the first node that holds this sensor.
RemoveSensor(s, u) ==
    RemoveFirstOf(u, {k \in 1..Len(sensor_list[u]) : sensor_list[u][k] = s})

\* list_find with find_node, then list_remove: the first node with this tag.
RemoveSensorTag(tag, u) ==
    RemoveFirstOf(u, {k \in 1..Len(sensor_list[u]) : SensorTag[sensor_list[u][k]] = tag})

-----------------------------------------------------------------------------
(* sems_ble_update_data and encode_sensordata, in either interrupt. *)

Goto(c, point) == pc' = [pc EXCEPT ![c] = point]
Untouched == UNCHANGED <<sensor_list, reading, once_queue, last_index, memory, history>>

\* The head of either loop writes the field tag and stores the type.  Without
\* room for the tag the list loop "continue"s at the same node and the queue
\* loop at the next entry.
EntryHead(c) ==
    /\ Runs(c) /\ pc[c] = "head" /\ MoreEntries(c)
    /\ \/ /\ Room(job[c].stream) > 0
          /\ sensor_data_pb' = [sensor_data_pb EXCEPT !.type = SensorTag[EntrySensor(c)]]
          /\ Goto(c, "size")
          /\ UNCHANGED job
       \/ /\ Room(job[c].stream) = 0
          /\ job[c].source = "once"
          /\ job' = [job EXCEPT ![c].i = @ + 1]
          /\ UNCHANGED <<sensor_data_pb, pc>>
    /\ Untouched /\ UNCHANGED outputs

\* The size is set after the tag: a report in between sets both of its own.
EntryLength(c) ==
    /\ Runs(c) /\ pc[c] = "size"
    /\ sensor_data_pb' = [sensor_data_pb EXCEPT !.size = DataSize[EntrySensor(c)]]
    /\ Goto(c, "copy")
    /\ UNCHANGED job /\ Untouched /\ UNCHANGED outputs

\* Mutated: the memcpy is missing.
CopyForgetsData(c) ==
    /\ Runs(c) /\ pc[c] = "copy"
    /\ Goto(c, "sizing")
    /\ UNCHANGED <<sensor_data_pb, job>> /\ Untouched /\ UNCHANGED outputs

EntryCopy(c) ==
    /\ Runs(c) /\ pc[c] = "copy"
    /\ sensor_data_pb' = [sensor_data_pb EXCEPT !.data = EntryData(c)]
    /\ Goto(c, "sizing")
    /\ UNCHANGED job /\ Untouched /\ UNCHANGED outputs

\* A failure that leaves n bytes: the list loop "continue"s at the same node,
\* the queue loop at the next entry.
EntryFails(c, n) ==
    /\ job' = [job EXCEPT ![c].stream = Torn(@, job[c].source, n),
                          ![c].i = IF job[c].source = "list" THEN @ ELSE @ + 1]
    /\ Goto(c, "head")

\* Mutated: no check against the end of the buffer.
SizingOverruns(c) ==
    /\ Runs(c) /\ pc[c] = "sizing"
    /\ job' = [job EXCEPT ![c].length = MessageSize(sensor_data_pb)]
    /\ Goto(c, "write")
    /\ UNCHANGED sensor_data_pb /\ Untouched /\ UNCHANGED outputs

\* pb_encode_submessage, first pass: the size, its varint and the test for room.
EntrySizing(c) ==
    /\ Runs(c) /\ pc[c] = "sizing"
    /\ LET length == MessageSize(sensor_data_pb)
           room   == Room(job[c].stream)
       IN  \/ /\ Prefix(length) + length <= room
              /\ job' = [job EXCEPT ![c].length = length]
              /\ Goto(c, "write")
           \/ /\ Prefix(length) + length > room
              /\ EntryFails(c, IF Prefix(length) <= room THEN Prefix(length) ELSE 1)
    /\ UNCHANGED sensor_data_pb /\ Untouched /\ UNCHANGED outputs

\* Mutated: a node that cannot be encoded is passed over.
WriteSkipsNode(c) ==
    /\ Runs(c) /\ pc[c] = "write"
    /\ job' = [job EXCEPT ![c].stream = IF MessageSize(sensor_data_pb) = job[c].length
                                        THEN Encoded(@, job[c].source, sensor_data_pb)
                                        ELSE Torn(@, job[c].source, Prefix(job[c].length)),
                          ![c].i = @ + 1]
    /\ Goto(c, "head")
    /\ UNCHANGED sensor_data_pb /\ Untouched /\ UNCHANGED outputs

\* Second pass: the message, which may have become another one meanwhile; one
\* of another size is "submsg size changed" or does not fit.
EntryWrite(c) ==
    /\ Runs(c) /\ pc[c] = "write"
    /\ \/ /\ MessageSize(sensor_data_pb) = job[c].length
          /\ job' = [job EXCEPT ![c].stream = Encoded(@, job[c].source, sensor_data_pb),
                                ![c].i = @ + 1]
          /\ Goto(c, "head")
       \/ /\ MessageSize(sensor_data_pb) # job[c].length
          /\ EntryFails(c, Prefix(job[c].length) + Written(sensor_data_pb, job[c].length))
    /\ UNCHANGED sensor_data_pb /\ Untouched /\ UNCHANGED outputs

\* Mutated: the queue is encoded again and again.
QueueFollowsItself(c) == sensor_list["advertising"] = <<>> /\ once_queue # <<>>

\* The end of a loop.  After the list, nownode is NULL, so the test
\* nownode == broadcast_sensor_list holds exactly when that list is empty.
QueueFollows(c) == /\ job[c].source = "list"
                   /\ sensor_list["advertising"] = <<>>
                   /\ once_queue # <<>>

LoopEnd(c) ==
    /\ Runs(c) /\ pc[c] = "head" /\ ~MoreEntries(c)
    /\ IF QueueFollows(c)
       THEN job' = [job EXCEPT ![c].source = "once", ![c].i = 1] /\ UNCHANGED pc
       ELSE Goto(c, "publish") /\ UNCHANGED job
    /\ UNCHANGED sensor_data_pb /\ Untouched /\ UNCHANGED outputs

\* The tail of sems_ble_update_data: an update for advertising goes on the air
\* only when it is not empty and fits a scan response.
Publish(c) ==
    /\ Runs(c) /\ pc[c] = "publish"
    /\ \/ /\ job[c].type = "gatt"
          /\ gatt_value' = job[c].stream.items
          /\ UNCHANGED scan_response
       \/ /\ job[c].type = "advertising"
          /\ IF job[c].stream.bytes \in 1..BLE_BROADCAST_MAX_SIZE
             THEN scan_response' = job[c].stream.items
             ELSE UNCHANGED scan_response
          /\ UNCHANGED gatt_value
    /\ Goto(c, "idle")
    /\ job' = [job EXCEPT ![c] = NewJob("gatt")]
    /\ UNCHANGED sensor_data_pb /\ Untouched

EntryStep(c) == EntryHead(c) \/ EntryLength(c) \/ EntryCopy(c) \/ EntrySizing(c) \/ EntryWrite(c)
UpdateStep(c) == EntryStep(c) \/ LoopEnd(c) \/ Publish(c)

-----------------------------------------------------------------------------
(* app_timer interrupt. *)

\* A poll: timeout_handler of sems_sensor.c reads the sensor, whatever the
\* outcome, and calls its handler, which updates one of the lists.
PollTimeout(s, u, v) ==
    /\ MainRuns
    /\ reading' = [reading EXCEPT ![s] = v]
    /\ Goto("timer", "head")
    /\ job' = [job EXCEPT !["timer"] = NewJob(u)]
    /\ UNCHANGED <<sensor_list, sensor_data_pb, once_queue, last_index,
                   memory, outputs, history>>

\* Mutated: the test looks at last_index only, or counts from one too many.
ClearTimeoutAnyQueue ==
    /\ MainRuns
    /\ Goto("timer", IF last_index > 0 THEN "clear" ELSE "latch")
    /\ UNCHANGED <<statics, memory, outputs, job, history>>
ClearTimeoutOffByOne ==
    /\ MainRuns
    /\ Goto("timer", IF last_index > 1 /\ once_queue = <<>> THEN "clear" ELSE "latch")
    /\ UNCHANGED <<statics, memory, outputs, job, history>>

\* ble_advertising_timeout_handler.  The test of its first line ...
ClearTimeout ==
    /\ MainRuns
    /\ Goto("timer", IF last_index > 0 /\ once_queue = <<>> THEN "clear" ELSE "latch")
    /\ UNCHANGED <<statics, memory, outputs, job, history>>

\* ... sems_update_advertising_response_data(NULL, 0) ...
ClearResponse ==
    /\ Runs("timer") /\ pc["timer"] = "clear"
    /\ scan_response' = <<>>
    /\ Goto("timer", "latch")
    /\ UNCHANGED <<statics, memory, gatt_value, job, history>>

\* Mutated: last_index is set after once_queue_index was.
LatchAfterReset ==
    /\ Runs("timer") /\ pc["timer"] = "latch"
    /\ last_index' = 0
    /\ Goto("timer", "free")
    /\ job' = [job EXCEPT !["timer"].i = 1]
    /\ UNCHANGED <<sensor_list, reading, sensor_data_pb, once_queue,
                   memory, outputs, history>>

\* ... last_index = once_queue_index ...
LatchIndex ==
    /\ Runs("timer") /\ pc["timer"] = "latch"
    /\ last_index' = Len(once_queue)
    /\ Goto("timer", "free")
    /\ job' = [job EXCEPT !["timer"].i = 1]
    /\ UNCHANGED <<sensor_list, reading, sensor_data_pb, once_queue,
                   memory, outputs, history>>

Freed(b) ==
    /\ heap' = [heap EXCEPT ![b] = Unallocated]
    /\ corrupt' = (corrupt \/ heap[b] = Unallocated)

\* Mutated: the last entry is not freed.
FreeEntryButLast ==
    /\ Runs("timer") /\ pc["timer"] = "free"
    /\ IF job["timer"].i < Len(once_queue)
       THEN /\ Freed(once_queue[job["timer"].i].data)
            /\ job' = [job EXCEPT !["timer"].i = @ + 1]
            /\ UNCHANGED pc
       ELSE /\ Goto("timer", "reset")
            /\ UNCHANGED <<memory, job>>
    /\ UNCHANGED <<statics, outputs, history>>

\* ... the loop that frees the data, which reads once_queue_index each time ...
FreeEntry ==
    /\ Runs("timer") /\ pc["timer"] = "free"
    /\ IF job["timer"].i <= Len(once_queue)
       THEN /\ Freed(once_queue[job["timer"].i].data)
            /\ job' = [job EXCEPT !["timer"].i = @ + 1]
            /\ UNCHANGED pc
       ELSE /\ Goto("timer", "reset")
            /\ UNCHANGED <<memory, job>>
    /\ UNCHANGED <<statics, outputs, history>>

\* Mutated: once_queue_index keeps its value.
ResetForgotten ==
    /\ Runs("timer") /\ pc["timer"] = "reset"
    /\ Goto("timer", "idle")
    /\ job' = [job EXCEPT !["timer"] = NewJob("gatt")]
    /\ UNCHANGED <<statics, memory, outputs, history>>

\* Mutated: the entries that came since the latch stay, freed as they are.
ResetKeepsLate ==
    /\ Runs("timer") /\ pc["timer"] = "reset"
    /\ once_queue' = SubSeq(once_queue, last_index + 1, Len(once_queue))
    /\ Goto("timer", "idle")
    /\ job' = [job EXCEPT !["timer"] = NewJob("gatt")]
    /\ UNCHANGED <<sensor_list, reading, sensor_data_pb, last_index,
                   memory, outputs, history>>

\* ... and once_queue_index = 0.
ResetIndex ==
    /\ Runs("timer") /\ pc["timer"] = "reset"
    /\ once_queue' = <<>>
    /\ Goto("timer", "idle")
    /\ job' = [job EXCEPT !["timer"] = NewJob("gatt")]
    /\ UNCHANGED <<sensor_list, reading, sensor_data_pb, last_index,
                   memory, outputs, history>>

TimeoutStep == ClearResponse \/ LatchIndex \/ FreeEntry \/ ResetIndex

-----------------------------------------------------------------------------
(* GPIOTE interrupt: gpiote_evt_handler stores the pin's value and reports it. *)

\* malloc returns a block of the free list; after a double free the free list
\* may hold a block that is in use.
Available(h, double) == {b \in Block : double \/ h[b] = Unallocated}

\* Mutated: entries are compared by sensor instead of by tag.
SameSensor(s) == {k \in 1..Len(once_queue) : once_queue[k].sensor = s}

SameTag(s) == {k \in 1..Len(once_queue) : SensorTag[once_queue[k].sensor] = SensorTag[s]}
GpioteEnters(s, v) ==
    /\ pc["gpiote"] = "idle"
    /\ reading' = [reading EXCEPT ![s] = v]
    /\ UNCHANGED <<sensor_list, sensor_data_pb, last_index, outputs>>

\* The report overwrites what an interrupted update is working with.
Disturbs == pc["timer"] \in UpdatePoint

\* A tag that is already queued: the queue's block is freed, and the new block
\* and its size go to a local copy of the entry.  Nothing is advertised.
RepeatReport(s, v) ==
    /\ GpioteEnters(s, v)
    /\ \E k \in SameTag(s) :
          LET old   == once_queue[k].data
              freed == [heap EXCEPT ![old] = Unallocated]
          IN  /\ IsFirst(k, SameTag(s))
              /\ corrupt' = (corrupt \/ heap[old] = Unallocated)
              /\ \E b \in Available(freed, corrupt') : heap' = [freed EXCEPT ![b] = v]
    /\ repeated' = TRUE
    /\ job' = [job EXCEPT !["timer"].disturbed = @ \/ Disturbs]
    /\ UNCHANGED <<once_queue, pc, raced>>

\* A new tag: an entry with a fresh block goes to the end of the queue and the
\* advertising list is encoded.
NewReport(s, v) ==
    /\ GpioteEnters(s, v)
    /\ SameTag(s) = {}
    /\ \E b \in Available(heap, corrupt) :
          /\ heap' = [heap EXCEPT ![b] = v]
          /\ once_queue' = Append(once_queue, [sensor |-> s, data |-> b])
    /\ Goto("gpiote", "head")
    /\ job' = [job EXCEPT !["gpiote"] = NewJob("advertising"),
                          !["timer"].disturbed = @ \/ Disturbs]
    /\ raced' = (pc["timer"] \in TimeoutPoint)
    /\ UNCHANGED <<corrupt, repeated>>

\* malloc returns NULL, which neither path tests: the memcpy faults, and the
\* fault handler never returns.
ReportFaults(s, v) ==
    /\ GpioteEnters(s, v)
    /\ SameTag(s) = {}
    /\ Available(heap, corrupt) = {}
    /\ Goto("gpiote", "fault")
    /\ job' = [job EXCEPT !["timer"].disturbed = @ \/ Disturbs]
    /\ UNCHANGED <<once_queue, memory, history>>

-----------------------------------------------------------------------------
Tags == {SensorTag[s] : s \in Sensor}

Report == \E s \in OnceSensor, v \in Value :
    RepeatReport(s, v) \/ NewReport(s, v) \/ ReportFaults(s, v)

MainStep == \E u \in UpdateType :
    \/ \E s \in PolledSensor \cup OnceSensor : AddSensor(s, u) \/ RemoveSensor(s, u)
    \/ \E tag \in Tags : RemoveSensorTag(tag, u)

Poll == \E s \in PolledSensor, u \in UpdateType, v \in Value : PollTimeout(s, u, v)

Next ==
    \/ MainStep
    \/ Poll \/ UpdateStep("timer")
    \/ ClearTimeout \/ TimeoutStep
    \/ Report \/ UpdateStep("gpiote")

Spec == Init /\ [][Next]_vars

\* An interrupt handler that is not preempted goes on, and the repeated timer
\* expires again and again; the interrupt that serves it serves every expired
\* timer in turn.  Nothing makes a pin change, a poll or the main thread move.
Fairness ==
    /\ WF_vars(UpdateStep("gpiote"))
    /\ WF_vars(UpdateStep("timer") \/ TimeoutStep)
    /\ SF_vars(ClearTimeout)

FairSpec == Spec /\ Fairness

-----------------------------------------------------------------------------
(* Properties. *)

Item   == [source : {"list", "once"}, torn : BOOLEAN, type : Nat, data : Value \cup {Unallocated}]
Stream == [items : Seq(Item), bytes : 0..BLE_GATT_MAX_SIZE]
Job    == [type : UpdateType, source : {"list", "once"}, i : Nat \ {0}, length : Nat,
           stream : Stream, disturbed : BOOLEAN]
Message == [type : Nat, size : Nat, data : Value \cup {Unallocated}]
Entry   == [sensor : OnceSensor, data : Block]

\* The values every variable takes.
TypeOK ==
    /\ sensor_list \in [UpdateType -> Seq(Sensor)]
    /\ reading \in [Sensor -> Value]
    /\ sensor_data_pb \in Message
    /\ once_queue \in Seq(Entry)
    /\ last_index \in Nat
    /\ heap \in [Block -> Value \cup {Unallocated}]
    /\ corrupt \in BOOLEAN
    /\ scan_response \in Seq(Item)
    /\ gatt_value \in Seq(Item)
    /\ pc \in [Context -> Point]
    /\ job \in [Context -> Job]
    /\ raced \in BOOLEAN
    /\ repeated \in BOOLEAN

\* sems_ble_advertising_once appends to once_queue without looking at its size:
\* the array is never overrun, because two entries never have the same tag, even
\* when reports arrive while the timeout handler is emptying the queue.
QueueFits ==
    /\ Len(once_queue) <= ADVERTISING_ONCE_QUEUE_SIZE
    /\ last_index <= ADVERTISING_ONCE_QUEUE_SIZE

OnceOnAir == \E n \in DOMAIN scan_response : scan_response[n].source = "once"

\* A report that is on the air is still queued or was queued at the previous
\* timeout, so a coming timeout takes it off, unless the last report came while
\* the timeout handler was running.
OnceOnAirTracked == OnceOnAir /\ ~raced => once_queue # <<>> \/ last_index > 0

\* The entries whose data the timeout handler has not freed yet.
Pending == {k \in DOMAIN once_queue :
              pc["timer"] \in {"free", "reset"} => k >= job["timer"].i}

\* As long as no queued tag is reported again, each entry owns a block of its
\* own that is allocated, and nothing is freed twice.
QueueOwnsBlocks ==
    ~repeated =>
        /\ ~corrupt
        /\ \A k \in Pending : heap[once_queue[k].data] # Unallocated
        /\ \A j, k \in Pending : once_queue[j].data = once_queue[k].data => j = k

\* Blocks in use that no entry of the queue points to: lost for good.
Leaked == {b \in Block : heap[b] # Unallocated}
              \ {once_queue[k].data : k \in DOMAIN once_queue}

\* A step loses a block only through a repeated tag or a report that came while
\* the timeout handler was running.
NoLeak == [][~repeated' /\ ~raced => Leaked' \subseteq Leaked]_vars

\* How far the 2 s timer has got with the reports: queued, counted, forgotten.
Age == IF once_queue # <<>> THEN 0 ELSE IF last_index > 0 THEN 1 ELSE 2

Window == INSTANCE OnceWindow WITH on_air <- OnceOnAir, age <- Age, late <- raced,
                                   listed <- sensor_list["advertising"] # <<>>

\* sensor_handler.c implements the window: a report that does not interrupt the
\* timeout handler is taken off the air by the second timeout after it, never by
\* the first, and only an update of a used advertising list replaces it before.
KeepsWindow == Window!Spec

\* The places of the listed sensors in an encoding.
Listed(items) == {n \in DOMAIN items : items[n].source = "list"}

\* What an update publishes, unless a report interrupts it: first the listed sensors
\* in order, each with its own tag and latest reading, nothing torn.
EncodedInOrder ==
    \A c \in Context :
        pc[c] = "publish" /\ ~job[c].disturbed =>
            /\ Listed(job[c].stream.items) = DOMAIN JobList(c)
            /\ \A k \in DOMAIN JobList(c) :
                job[c].stream.items[k] =
                    [source |-> "list", torn |-> FALSE, type |-> SensorTag[JobList(c)[k]],
                     data |-> reading[JobList(c)[k]]]

\* What a queued report encodes to: the tag of its sensor, and what that read.
Reported(e) == [source |-> "once", torn |-> FALSE, type |-> SensorTag[e.sensor],
                data |-> reading[e.sensor]]

\* Behind them the queued reports: whatever blocks were freed and handed out since, each
\* has what its sensor read when it was reported, and when all fit none is missing.  Not
\* so for a report that interrupts the timeout handler, which encodes blocks that were
\* freed, and once a queued tag was reported again.  (No timer polls a OnceSensor.)
ReportsAreReadings ==
    \A c \in Context :
        pc[c] = "publish" /\ job[c].source = "once" /\ ~job[c].disturbed /\ ~raced /\ ~repeated =>
            LET items   == job[c].stream.items
                whole   == {n \in DOMAIN items : ~items[n].torn}
                encoded == {items[n] : n \in {n \in whole : items[n].source = "once"}}
                reports == {Reported(once_queue[k]) : k \in DOMAIN once_queue}
            IN  /\ encoded \subseteq reports
                /\ Room(job[c].stream) > 0 /\ whole = DOMAIN items => reports \subseteq encoded

\* Interrupted or not, an update encodes one whole entry per listed sensor.
OneEntryPerListed ==
    \A c \in Context :
        pc[c] = "publish" =>
            Cardinality({n \in Listed(job[c].stream.items) : ~job[c].stream.items[n].torn})
                = Len(JobList(c))

\* Once reports stop, what they put on the air is taken off again, unless the
\* last of them came while the timeout handler was running.
EventuallyErased ==
    \/ (OnceOnAir /\ ~raced) ~> (~OnceOnAir \/ raced)
    \/ []<>(pc["gpiote"] # "idle")

\* An update comes to its end, whatever reports preempt it and unless malloc
\* failed in one of them.  It does when its lists fit the encoding buffer, and
\* never when a list entry does not fit.
UpdateEnds ==
    \A c \in Context : pc[c] \in UpdatePoint ~> pc[c] = "idle" \/ pc["gpiote"] = "fault"

-----------------------------------------------------------------------------
(* What a comment of sensor_handler.h says, and the code does not do.         *)

\* "data will advertising 3 seconds.Then they will be erease": once reports
\* stop, what they put on the air is erased.
ReportsAreErased == OnceOnAir ~> (~OnceOnAir \/ pc["gpiote"] # "idle")

=============================================================================
