------------------------ MODULE SensorHandlerProofs ------------------------
(***************************************************************************)
(* Safety of SensorHandler for every set of sensors, values and blocks and *)
(* every interleaving of the interrupts; and that SensorHandler implements *)
(* OnceWindow.                                                             *)
(***************************************************************************)
EXTENDS SensorHandler, TLAPS, Functions, FiniteSetTheorems, SequenceTheorems

USE SensorAssumption, SizeAssumption

-----------------------------------------------------------------------------
(* Type correctness. *)

\* The encoded sizes are numbers.
LEMMA SizeType ==
    ASSUME NEW m \in Message
    PROVE  MessageSize(m) \in Nat /\ Pieces(m) \subseteq Nat
BY DEF Message, MessageSize, Pieces, VarintLen

\* A length prefix has a length.
LEMMA PrefixType == ASSUME NEW length \in Nat PROVE Prefix(length) \in Nat
BY DEF Prefix, VarintLen

\* What a message leaves in a room is some of its bytes, and fits.
LEMMA WrittenType ==
    ASSUME NEW m \in Message, NEW room \in Nat
    PROVE  Written(m, room) \in 0..room
<1> DEFINE a == 1 + VarintLen(m.type)
           b == 2 + VarintLen(m.type)
           d == MessageSize(m) - m.size
           e == MessageSize(m)
           Largest(n) == n <= room /\ \A k \in Pieces(m) : k <= room => k <= n
<1>1. a \in Nat /\ b \in Nat /\ d \in Nat /\ e \in Nat /\ 1 <= a /\ a <= b /\ b <= d /\ d <= e
  BY DEF Message, MessageSize, VarintLen
<1>2. Pieces(m) = {0, 1, a, b, d, e}
  BY DEF Pieces
<1>3. \E n \in {0, 1, a, b, d, e} : n <= room /\ \A k \in {0, 1, a, b, d, e} : k <= room => k <= n
  <2> HIDE DEF a, b, d, e
  <2>1. QED
    BY <1>1
<1>4. \E n \in Pieces(m) : Largest(n)
  BY <1>2, <1>3
<1>5. Written(m, room) \in Pieces(m) /\ Written(m, room) <= room
  BY <1>4 DEF Written
<1>6. QED
  BY <1>5, SizeType

\* Encoding one entry, completely or not, keeps the stream within the buffer.
LEMMA EncodedType ==
    ASSUME NEW stream \in Stream, NEW source \in {"list", "once"}, NEW m \in Message,
           Prefix(MessageSize(m)) + MessageSize(m) <= Room(stream)
    PROVE  Encoded(stream, source, m) \in Stream
<1> DEFINE item == [source |-> source, torn |-> FALSE, type |-> m.type, data |-> m.data]
<1>1. stream.bytes \in 0..BLE_GATT_MAX_SIZE /\ stream.items \in Seq(Item)
  BY DEF Stream
<1>2. MessageSize(m) \in Nat /\ Prefix(MessageSize(m)) \in Nat
  BY SizeType, PrefixType
<1>3. item \in Item
  BY DEF Item, Message
<1>4. stream.bytes + Prefix(MessageSize(m)) + MessageSize(m) \in 0..BLE_GATT_MAX_SIZE
  BY <1>1, <1>2 DEF Room
<1>5. Append(stream.items, item) \in Seq(Item)
  BY <1>1, <1>3
<1>6. QED
  BY <1>4, <1>5 DEF Encoded, Stream

\* A piece of a message that fits leaves a stream a stream.
LEMMA TornType ==
    ASSUME NEW stream \in Stream, NEW source \in {"list", "once"}, NEW n \in Nat, n <= Room(stream)
    PROVE  Torn(stream, source, n) \in Stream
<1> DEFINE item == [source |-> source, torn |-> TRUE, type |-> 0, data |-> Unallocated]
<1>1. stream.bytes \in 0..BLE_GATT_MAX_SIZE /\ stream.items \in Seq(Item)
  BY DEF Stream
<1>2. item \in Item
  BY DEF Item
<1>3. stream.bytes + n \in 0..BLE_GATT_MAX_SIZE
  BY <1>1 DEF Room
<1>4. Append(stream.items, item) \in Seq(Item)
  BY <1>1, <1>2
<1>5. QED
  BY <1>3, <1>4 DEF Torn, Stream

\* An update starts with an empty stream.
LEMMA NewJobType == ASSUME NEW u \in UpdateType PROVE NewJob(u) \in Job
BY DEF NewJob, Job, EmptyStream, Stream

\* A list without one of its elements is a list.
LEMMA WithoutType ==
    ASSUME NEW S, NEW list \in Seq(S), NEW k \in 1..Len(list)
    PROVE  Without(list, k) \in Seq(S)
<1>1. SubSeq(list, 1, k - 1) \in Seq(S)
  BY SubSeqProperties
<1>2. SubSeq(list, k + 1, Len(list)) \in Seq(S)
  BY SubSeqProperties
<1>3. QED
  BY <1>1, <1>2, ConcatProperties DEF Without

\* The entry a loop is at has a sensor and data of the right kind.
LEMMA EntryType ==
    ASSUME TypeOK, NEW c \in Context, job[c].i \in 1..(IF job[c].source = "list"
                                                      THEN Len(JobList(c)) ELSE Len(once_queue))
    PROVE  EntrySensor(c) \in Sensor /\ EntryData(c) \in Value \cup {Unallocated}
<1>1. job[c].type \in UpdateType /\ job[c].source \in {"list", "once"}
  BY DEF TypeOK, Job
<1>2. JobList(c) \in Seq(Sensor)
  BY <1>1 DEF TypeOK, JobList
<1>3. CASE job[c].source = "list"
  <2>1. JobList(c)[job[c].i] \in Sensor
    BY <1>2, <1>3
  <2>2. QED
    BY <2>1, <1>3 DEF EntrySensor, EntryData, TypeOK
<1>4. CASE job[c].source = "once"
  <2>1. once_queue[job[c].i] \in Entry
    BY <1>4 DEF TypeOK
  <2>2. QED
    BY <2>1, <1>4 DEF EntrySensor, EntryData, TypeOK, Entry
<1>5. QED
  BY <1>1, <1>3, <1>4

\* What typing an entry takes: a loop that works on an entry is inside its list
\* and has written the field tag, the entry fits once the first pass is done,
\* and each interrupt stays in its own handler.
EntryInv(c) ==
    /\ pc[c] \in EntryPoint => MoreEntries(c) /\ Room(job[c].stream) > 0
    /\ pc[c] = "write" => Prefix(job[c].length) + job[c].length <= Room(job[c].stream)

ControlInv ==
    /\ pc["timer"] # "fault" /\ pc["gpiote"] \notin TimeoutPoint
    /\ \A c \in Context : EntryInv(c)
    /\ pc["timer"] \in {"free", "reset"} => job["timer"].i <= Len(once_queue) + 1

TypeInv == TypeOK /\ ControlInv

\* The statics at power-up have their types.
LEMMA InitTypeInv == Init => TypeInv
<1> SUFFICES ASSUME Init PROVE TypeInv
  OBVIOUS
<1>2. NewJob("gatt") \in Job
  BY NewJobType DEF UpdateType
<1>3. TypeOK
  <2>1. <<>> \in Seq(Sensor) /\ <<>> \in Seq(Entry) /\ <<>> \in Seq(Item)
    OBVIOUS
  <2>2. sensor_list \in [UpdateType -> Seq(Sensor)]
    BY <2>1 DEF Init
  <2>3. sensor_data_pb \in Message
    BY DEF Init, Message
  <2>4. job \in [Context -> Job] /\ pc \in [Context -> Point]
    BY <1>2 DEF Init, Point
  <2>5. QED
    BY <2>1, <2>2, <2>3, <2>4 DEF Init, TypeOK
<1>4. ControlInv
  <2>1. pc["timer"] = "idle" /\ pc["gpiote"] = "idle"
    BY DEF Init, Context
  <2>2. \A c \in Context : pc[c] = "idle"
    BY DEF Init
  <2>3. QED
    BY <2>1, <2>2 DEF ControlInv, EntryInv, EntryPoint, TimeoutPoint
<1>5. QED
  BY <1>3, <1>4 DEF TypeInv

\* The main thread works on the lists while both interrupts are idle.
LEMMA MainTypeInv ==
    ASSUME TypeInv, MainStep
    PROVE  TypeInv'
<1>1. PICK u \in UpdateType :
         \/ \E s \in PolledSensor \cup OnceSensor : AddSensor(s, u) \/ RemoveSensor(s, u)
         \/ \E tag \in Tags : RemoveSensorTag(tag, u)
  BY DEF MainStep
<1>2. sensor_list' \in [UpdateType -> Seq(Sensor)]
  <2>1. ASSUME NEW s \in Sensor, AddSensor(s, u)
        PROVE  sensor_list' \in [UpdateType -> Seq(Sensor)]
    BY <2>1 DEF AddSensor, TypeInv, TypeOK
  <2>2. ASSUME NEW K \in SUBSET (1..Len(sensor_list[u])), RemoveFirstOf(u, K)
        PROVE  sensor_list' \in [UpdateType -> Seq(Sensor)]
    <3>1. PICK k \in K : sensor_list' = [sensor_list EXCEPT ![u] = Without(@, k)]
      BY <2>2 DEF RemoveFirstOf
    <3>2. Without(sensor_list[u], k) \in Seq(Sensor)
      BY WithoutType DEF TypeInv, TypeOK
    <3>3. QED
      BY <3>1, <3>2 DEF TypeInv, TypeOK
  <2>3. QED
    BY <1>1, <2>1, <2>2 DEF RemoveSensor, RemoveSensorTag
<1>3. /\ UNCHANGED <<reading, sensor_data_pb, once_queue, last_index, memory, outputs, control, history>>
      /\ \A c \in Context : pc[c] = "idle"
  BY <1>1 DEF AddSensor, RemoveSensor, RemoveSensorTag, RemoveFirstOf, MainRuns
<1>4. TypeOK'
  BY <1>2, <1>3 DEF TypeInv, TypeOK, memory, outputs, control, history
<1>5. ControlInv'
  BY <1>3 DEF TypeInv, ControlInv, EntryInv, EntryPoint, control, Context, TimeoutPoint
<1>6. QED
  BY <1>4, <1>5 DEF TypeInv

\* A step of an update has nothing to do with the other interrupt's handler.
LEMMA KeepControl ==
    ASSUME TypeInv, NEW c \in Context, pc[c] \in UpdatePoint, UNCHANGED <<sensor_list, once_queue>>,
           \A d \in Context \ {c} : pc'[d] = pc[d] /\ job'[d] = job[d],
           pc'[c] \in UpdatePoint \cup {"idle"}, EntryInv(c)'
    PROVE  ControlInv'
<1>1. \A d \in Context \ {c} : EntryInv(d)'
  BY DEF TypeInv, ControlInv, EntryInv, MoreEntries, JobList
<1>2. pc'["timer"] # "fault" /\ pc'["gpiote"] \notin TimeoutPoint
  BY DEF TypeInv, ControlInv, Context, UpdatePoint, EntryPoint, TimeoutPoint
<1>3. pc'["timer"] \in {"free", "reset"} => job'["timer"].i <= Len(once_queue') + 1
  BY DEF TypeInv, ControlInv, Context, UpdatePoint, EntryPoint
<1>4. QED
  BY <1>1, <1>2, <1>3 DEF ControlInv

\* An entry that fails leaves a torn one, and the loop goes back to its head.
LEMMA EntryFailsType ==
    ASSUME TypeInv, NEW c \in Context, NEW n \in Nat, n <= Room(job[c].stream), EntryFails(c, n)
    PROVE  /\ job' \in [Context -> Job] /\ pc' = [pc EXCEPT ![c] = "head"]
           /\ \A d \in Context \ {c} : job'[d] = job[d]
<1>1. job[c] \in Job /\ job[c].stream \in Stream /\ job[c].source \in {"list", "once"}
  BY DEF TypeInv, TypeOK, Job
<1> DEFINE stream == Torn(job[c].stream, job[c].source, n)
           i == IF job[c].source = "list" THEN job[c].i ELSE job[c].i + 1
<1>2. stream \in Stream
  BY <1>1, TornType
<1>3. i \in Nat \ {0}
  BY <1>1 DEF Job
<1>4. [job[c] EXCEPT !.stream = stream, !.i = i] \in Job
  <2> HIDE DEF stream, i
  <2>1. QED
    BY <1>1, <1>2, <1>3 DEF Job
<1>5. job' = [job EXCEPT ![c] = [job[c] EXCEPT !.stream = stream, !.i = i]]
  BY DEF EntryFails, TypeInv, TypeOK
<1>6. QED
  BY <1>4, <1>5 DEF EntryFails, Goto, TypeInv, TypeOK

\* One step of an update, in either interrupt.
LEMMA UpdateTypeInv ==
    ASSUME TypeInv, NEW c \in Context, UpdateStep(c)
    PROVE  TypeInv'
<1>1. /\ job[c] \in Job /\ job[c].stream \in Stream /\ job[c].source \in {"list", "once"}
      /\ job[c].i \in Nat \ {0} /\ job[c].length \in Nat /\ job[c].stream.bytes \in Nat
      /\ sensor_data_pb \in Message /\ job \in [Context -> Job] /\ pc \in [Context -> Point]
      /\ Room(job[c].stream) \in Int
  <2>1. /\ job[c] \in Job /\ sensor_data_pb \in Message /\ job \in [Context -> Job]
        /\ pc \in [Context -> Point]
    BY DEF TypeInv, TypeOK
  <2>2. job[c].stream \in Stream
    BY <2>1 DEF Job
  <2>3. job[c].stream.bytes \in 0..BLE_GATT_MAX_SIZE
    BY <2>2 DEF Stream
  <2>4. QED
    BY <2>1, <2>2, <2>3 DEF Job, Room
<1>2. MessageSize(sensor_data_pb) \in Nat /\ Prefix(MessageSize(sensor_data_pb)) \in Nat
  BY <1>1, SizeType, PrefixType
<1>3. /\ sensor_list \in [UpdateType -> Seq(Sensor)] /\ job[c].type \in UpdateType
      /\ Len(JobList(c)) \in Nat /\ Len(once_queue) \in Nat
  BY <1>1 DEF TypeInv, TypeOK, Job, JobList
<1>4. /\ UNCHANGED <<sensor_list, reading, once_queue, last_index, memory, history>>
      /\ pc[c] \in UpdatePoint
  BY DEF UpdateStep, EntryStep, EntryHead, EntryLength, EntryCopy, EntrySizing, EntryWrite, LoopEnd,
     Publish, Untouched, UpdatePoint, EntryPoint
<1>5. \A d \in Context \ {c} : pc'[d] = pc[d] /\ job'[d] = job[d]
  BY <1>1 DEF UpdateStep, EntryStep, EntryHead, EntryLength, EntryCopy, EntrySizing, EntryWrite,
     EntryFails, LoopEnd, Publish, Goto
<1>6. job'[c] = job[c] => MoreEntries(c)' = MoreEntries(c)
  BY <1>4 DEF MoreEntries, JobList
<1>7. ASSUME MoreEntries(c)
      PROVE  EntrySensor(c) \in Sensor /\ EntryData(c) \in Value \cup {Unallocated}
  BY <1>1, <1>3, <1>7, EntryType DEF MoreEntries, TypeInv
<1>8. ASSUME sensor_data_pb' \in Message, scan_response' \in Seq(Item), gatt_value' \in Seq(Item),
             job' \in [Context -> Job], NEW x \in UpdatePoint \cup {"idle"}, pc' = [pc EXCEPT ![c] = x],
             EntryInv(c)'
      PROVE  TypeInv'
  <2>1. TypeOK'
    BY <1>1, <1>4, <1>8 DEF TypeInv, TypeOK, memory, history, Point
  <2>2. pc'[c] \in UpdatePoint \cup {"idle"}
    BY <1>1, <1>8
  <2>3. ControlInv'
    BY <1>4, <1>5, <1>8, <2>2, KeepControl
  <2>4. QED
    BY <2>1, <2>3 DEF TypeInv
<1>9. ASSUME UNCHANGED outputs PROVE scan_response' \in Seq(Item) /\ gatt_value' \in Seq(Item)
  BY <1>9 DEF outputs, TypeInv, TypeOK
<1>10. \A x \in {"head", "publish", "idle"} : pc' = [pc EXCEPT ![c] = x] => EntryInv(c)'
  BY <1>1 DEF EntryInv, EntryPoint
<1>11. CASE EntryHead(c)
  <2>1. CASE Room(job[c].stream) > 0
    <3>1. /\ sensor_data_pb' = [sensor_data_pb EXCEPT !.type = SensorTag[EntrySensor(c)]]
          /\ pc' = [pc EXCEPT ![c] = "size"] /\ job' = job /\ MoreEntries(c) /\ UNCHANGED outputs
      BY <1>1, <1>11, <2>1 DEF EntryHead, Goto
    <3>2. sensor_data_pb' \in Message
      BY <1>1, <1>7, <3>1 DEF Message
    <3>3. EntryInv(c)'
      BY <1>1, <1>6, <2>1, <3>1 DEF EntryInv
    <3>4. QED
      BY <1>1, <1>8, <1>9, <3>1, <3>2, <3>3 DEF UpdatePoint, EntryPoint
  <2>2. CASE ~(Room(job[c].stream) > 0)
    <3>1. /\ job' = [job EXCEPT ![c].i = @ + 1] /\ pc[c] = "head" /\ pc' = [pc EXCEPT ![c] = "head"]
          /\ UNCHANGED <<sensor_data_pb, outputs>>
      BY <1>1, <1>11, <2>2 DEF EntryHead
    <3>2. [job[c] EXCEPT !.i = @ + 1] \in Job
      BY <1>1 DEF Job
    <3>3. job' \in [Context -> Job]
      BY <1>1, <3>1, <3>2
    <3>4. QED
      BY <1>1, <1>8, <1>9, <1>10, <3>1, <3>3 DEF UpdatePoint
  <2>3. QED
    BY <2>1, <2>2
<1>12. CASE EntryLength(c)
  <2>1. /\ sensor_data_pb' = [sensor_data_pb EXCEPT !.size = DataSize[EntrySensor(c)]]
        /\ pc' = [pc EXCEPT ![c] = "copy"] /\ job' = job /\ UNCHANGED outputs
        /\ MoreEntries(c) /\ Room(job[c].stream) > 0
    BY <1>12 DEF EntryLength, Goto, TypeInv, ControlInv, EntryInv, EntryPoint
  <2>2. sensor_data_pb' \in Message
    BY <1>1, <1>7, <2>1 DEF Message
  <2>3. EntryInv(c)'
    BY <1>1, <1>6, <2>1 DEF EntryInv
  <2>4. QED
    BY <1>1, <1>8, <1>9, <2>1, <2>2, <2>3 DEF UpdatePoint, EntryPoint
<1>13. CASE EntryCopy(c)
  <2>1. /\ sensor_data_pb' = [sensor_data_pb EXCEPT !.data = EntryData(c)]
        /\ pc' = [pc EXCEPT ![c] = "sizing"] /\ job' = job /\ UNCHANGED outputs
        /\ MoreEntries(c) /\ Room(job[c].stream) > 0
    BY <1>13 DEF EntryCopy, Goto, TypeInv, ControlInv, EntryInv, EntryPoint
  <2>2. sensor_data_pb' \in Message
    BY <1>1, <1>7, <2>1 DEF Message
  <2>3. EntryInv(c)'
    BY <1>1, <1>6, <2>1 DEF EntryInv
  <2>4. QED
    BY <1>1, <1>8, <1>9, <2>1, <2>2, <2>3 DEF UpdatePoint, EntryPoint
<1>14. CASE EntrySizing(c)
  <2> DEFINE length == MessageSize(sensor_data_pb)
             room == Room(job[c].stream)
             part == IF Prefix(length) <= room THEN Prefix(length) ELSE 1
  <2>1. MoreEntries(c) /\ room > 0 /\ UNCHANGED <<sensor_data_pb, outputs>>
    BY <1>14 DEF EntrySizing, TypeInv, ControlInv, EntryInv, EntryPoint
  <2>2. CASE Prefix(length) + length <= room
    <3>1. job' = [job EXCEPT ![c].length = length] /\ pc' = [pc EXCEPT ![c] = "write"]
      BY <1>1, <1>2, <1>14, <2>2 DEF EntrySizing, Goto
    <3>2. job'[c] = [job[c] EXCEPT !.length = length]
      BY <1>1, <3>1
    <3>3. /\ job'[c] \in Job /\ job'[c].length = length /\ job'[c].stream = job[c].stream
          /\ job'[c].i = job[c].i /\ job'[c].source = job[c].source /\ job'[c].type = job[c].type
      BY <1>1, <1>2, <3>2 DEF Job
    <3>4. MoreEntries(c)' = MoreEntries(c) /\ job' \in [Context -> Job]
      BY <1>1, <1>4, <3>1, <3>2, <3>3 DEF MoreEntries, JobList
    <3>5. EntryInv(c)'
      BY <2>1, <2>2, <3>3, <3>4 DEF EntryInv
    <3>6. QED
      BY <1>1, <1>8, <1>9, <2>1, <3>1, <3>4, <3>5 DEF UpdatePoint, EntryPoint
  <2>3. CASE Prefix(length) + length > room
    <3>1. EntryFails(c, part)
      BY <1>1, <1>2, <1>14, <2>3 DEF EntrySizing
    <3>2. part \in Nat /\ part <= room
      BY <1>1, <1>2, <2>1
    <3>3. job' \in [Context -> Job] /\ pc' = [pc EXCEPT ![c] = "head"]
      BY <3>1, <3>2, EntryFailsType
    <3>4. QED
      BY <1>1, <1>8, <1>9, <1>10, <2>1, <3>3 DEF UpdatePoint
  <2>4. QED
    BY <1>14, <2>2, <2>3 DEF EntrySizing
<1>15. CASE EntryWrite(c)
  <2> DEFINE length == job[c].length
  <2>1. Prefix(length) + length <= Room(job[c].stream) /\ UNCHANGED <<sensor_data_pb, outputs>>
    BY <1>15 DEF EntryWrite, TypeInv, ControlInv, EntryInv
  <2>2. CASE MessageSize(sensor_data_pb) = length
    <3>1. /\ job' = [job EXCEPT ![c].stream = Encoded(@, job[c].source, sensor_data_pb), ![c].i = @ + 1]
          /\ pc' = [pc EXCEPT ![c] = "head"]
      BY <1>15, <2>2 DEF EntryWrite, Goto
    <3>2. Encoded(job[c].stream, job[c].source, sensor_data_pb) \in Stream
      BY <1>1, <2>1, <2>2, EncodedType
    <3>3. [job[c] EXCEPT !.stream = Encoded(@, job[c].source, sensor_data_pb), !.i = @ + 1] \in Job
      <4>1. ASSUME NEW stream \in Stream, NEW i \in Nat \ {0}
            PROVE  [job[c] EXCEPT !.stream = stream, !.i = i] \in Job
        BY <1>1 DEF Job
      <4>2. job[c].i + 1 \in Nat \ {0}
        BY <1>1
      <4>3. QED
        BY <3>2, <4>1, <4>2, Zenon
    <3>4. job' \in [Context -> Job]
      BY <1>1, <3>1, <3>3
    <3>5. QED
      BY <1>1, <1>8, <1>9, <1>10, <2>1, <3>1, <3>4 DEF UpdatePoint
  <2>3. CASE MessageSize(sensor_data_pb) # length
    <3>1. EntryFails(c, Prefix(length) + Written(sensor_data_pb, length))
      BY <1>15, <2>3 DEF EntryWrite
    <3>2. Prefix(length) \in Nat /\ Written(sensor_data_pb, length) \in 0..length
      BY <1>1, PrefixType, WrittenType
    <3>3. /\ Prefix(length) + Written(sensor_data_pb, length) \in Nat
          /\ Prefix(length) + Written(sensor_data_pb, length) <= Room(job[c].stream)
      BY <1>1, <2>1, <3>2
    <3>4. job' \in [Context -> Job] /\ pc' = [pc EXCEPT ![c] = "head"]
      BY <3>1, <3>3, EntryFailsType
    <3>5. QED
      BY <1>1, <1>8, <1>9, <1>10, <2>1, <3>4 DEF UpdatePoint
  <2>4. QED
    BY <2>2, <2>3
<1>16. CASE LoopEnd(c)
  <2>1. UNCHANGED <<sensor_data_pb, outputs>>
    BY <1>16 DEF LoopEnd
  <2>2. CASE QueueFollows(c)
    <3>1. job' = [job EXCEPT ![c].source = "once", ![c].i = 1] /\ pc' = [pc EXCEPT ![c] = "head"]
      BY <1>1, <1>16, <2>2 DEF LoopEnd
    <3>2. [job[c] EXCEPT !.source = "once", !.i = 1] \in Job
      <4>1. ASSUME NEW source \in {"list", "once"}, NEW i \in Nat \ {0}
            PROVE  [job[c] EXCEPT !.source = source, !.i = i] \in Job
        BY <1>1 DEF Job
      <4>2. "once" \in {"list", "once"} /\ 1 \in Nat \ {0}
        OBVIOUS
      <4>3. QED
        BY <4>1, <4>2, Zenon
    <3>3. job' \in [Context -> Job]
      BY <1>1, <3>1, <3>2
    <3>4. QED
      BY <1>1, <1>8, <1>9, <1>10, <2>1, <3>1, <3>3 DEF UpdatePoint
  <2>3. CASE ~QueueFollows(c)
    BY <1>1, <1>8, <1>9, <1>10, <1>16, <2>1, <2>3 DEF LoopEnd, Goto, UpdatePoint
  <2>4. QED
    BY <2>2, <2>3
<1>17. CASE Publish(c)
  <2>1. job[c].stream.items \in Seq(Item) /\ NewJob("gatt") \in Job
    BY <1>1, NewJobType DEF Stream, UpdateType
  <2>2. /\ scan_response' \in Seq(Item) /\ gatt_value' \in Seq(Item) /\ job' \in [Context -> Job]
        /\ pc' = [pc EXCEPT ![c] = "idle"] /\ sensor_data_pb' = sensor_data_pb
    BY <1>1, <1>17, <2>1 DEF Publish, Goto, TypeInv, TypeOK
  <2>3. QED
    BY <1>1, <1>8, <1>10, <2>2
<1>18. QED
  BY <1>11, <1>12, <1>13, <1>14, <1>15, <1>16, <1>17 DEF UpdateStep, EntryStep

\* One step of the timer interrupt outside an update.
LEMMA TimerTypeInv ==
    ASSUME TypeInv, Poll \/ ClearTimeout \/ TimeoutStep
    PROVE  TypeInv'
<1>0. \A c \in Context : EntryInv(c)'
  <2>1. \A c \in Context : pc'[c] \notin EntryPoint
    BY DEF Poll, PollTimeout, ClearTimeout, TimeoutStep, ClearResponse, LatchIndex, FreeEntry,
       ResetIndex, Goto, MainRuns, Runs, TypeInv, TypeOK, Context, EntryPoint
  <2>2. QED
    BY <2>1 DEF EntryInv, EntryPoint
<1>1. NewJob("gatt") \in Job /\ \A u \in UpdateType : NewJob(u) \in Job
  BY NewJobType DEF UpdateType
<1>2. Len(once_queue) \in Nat
  BY DEF TypeInv, TypeOK
<1>3. CASE Poll
  <2>1. PICK s \in PolledSensor, u \in UpdateType, v \in Value : PollTimeout(s, u, v)
    BY <1>3 DEF Poll
  <2>2. TypeOK'
    BY <1>1, <2>1 DEF PollTimeout, Goto, TypeInv, TypeOK, Context, Point, UpdatePoint,
       memory, outputs, history
  <2>3. ControlInv'
    BY <1>0, <2>1 DEF PollTimeout, Goto, MainRuns, TypeInv, TypeOK, ControlInv, Context, TimeoutPoint
  <2>4. QED
    BY <2>2, <2>3 DEF TypeInv
<1>4. CASE ClearTimeout
  <2>1. TypeOK'
    BY <1>4 DEF ClearTimeout, Goto, TypeInv, TypeOK, Context, Point, TimeoutPoint,
       statics, memory, outputs, history
  <2>2. ControlInv'
    BY <1>0, <1>4 DEF ClearTimeout, Goto, MainRuns, TypeInv, TypeOK, ControlInv, Context, TimeoutPoint
  <2>3. QED
    BY <2>1, <2>2 DEF TypeInv
<1>5. CASE ClearResponse
  <2>1. TypeOK'
    BY <1>5 DEF ClearResponse, Goto, TypeInv, TypeOK, Context, Point, TimeoutPoint,
       statics, memory, history
  <2>2. ControlInv'
    BY <1>0, <1>5 DEF ClearResponse, Goto, Runs, TypeInv, TypeOK, ControlInv, Context, TimeoutPoint, statics
  <2>3. QED
    BY <2>1, <2>2 DEF TypeInv
<1>6. CASE LatchIndex
  <2>1. job' \in [Context -> Job] /\ job'["timer"].i = 1
    <3>0. job["timer"] \in Job
      BY DEF TypeInv, TypeOK, Context
    <3>1. [job["timer"] EXCEPT !.i = 1] \in Job /\ [job["timer"] EXCEPT !.i = 1].i = 1
      BY <3>0 DEF Job
    <3>2. QED
      BY <1>6, <3>1 DEF LatchIndex, TypeInv, TypeOK, Context
  <2>2. TypeOK'
    BY <1>2, <1>6, <2>1 DEF LatchIndex, Goto, TypeInv, TypeOK, Context, Point, TimeoutPoint,
       memory, outputs, history
  <2>3. ControlInv'
    BY <1>0, <1>2, <1>6, <2>1 DEF LatchIndex, Goto, Runs, TypeInv, TypeOK, ControlInv, Context, TimeoutPoint
  <2>4. QED
    BY <2>2, <2>3 DEF TypeInv
<1>7. CASE FreeEntry
  <2>1. job["timer"].i \in Nat \ {0}
    BY DEF TypeInv, TypeOK, Context, Job
  <2>2. CASE job["timer"].i <= Len(once_queue)
    <3>0. once_queue[job["timer"].i] \in Entry
      BY <1>2, <2>1, <2>2 DEF TypeInv, TypeOK
    <3>1. once_queue[job["timer"].i].data \in Block
      BY <3>0 DEF Entry
    <3>2. heap' \in [Block -> Value \cup {Unallocated}] /\ corrupt' \in BOOLEAN
      BY <1>7, <2>2, <3>1 DEF FreeEntry, Freed, TypeInv, TypeOK
    <3>3. job' \in [Context -> Job] /\ job'["timer"].i = job["timer"].i + 1
      <4>0. job["timer"] \in Job
        BY DEF TypeInv, TypeOK, Context
      <4>1. /\ [job["timer"] EXCEPT !.i = @ + 1] \in Job
            /\ [job["timer"] EXCEPT !.i = @ + 1].i = job["timer"].i + 1
        BY <4>0 DEF Job
      <4>2. QED
        BY <1>7, <2>2, <4>1 DEF FreeEntry, TypeInv, TypeOK, Context
    <3>4. TypeOK'
      BY <1>7, <2>2, <3>2, <3>3 DEF FreeEntry, TypeInv, TypeOK, statics, outputs, history
    <3>5. ControlInv'
      BY <1>0, <1>2, <1>7, <2>1, <2>2, <3>3 DEF FreeEntry, Runs, TypeInv, TypeOK, ControlInv, Context, statics
    <3>6. QED
      BY <3>4, <3>5 DEF TypeInv
  <2>3. CASE ~(job["timer"].i <= Len(once_queue))
    <3>1. TypeOK'
      BY <1>7, <2>3 DEF FreeEntry, Goto, TypeInv, TypeOK, Context, Point, TimeoutPoint,
         statics, memory, outputs, history
    <3>2. ControlInv'
      BY <1>0, <1>7, <2>3 DEF FreeEntry, Goto, Runs, TypeInv, TypeOK, ControlInv, Context, TimeoutPoint, statics
    <3>3. QED
      BY <3>1, <3>2 DEF TypeInv
  <2>4. QED
    BY <2>2, <2>3
<1>8. CASE ResetIndex
  <2>1. TypeOK'
    BY <1>1, <1>8 DEF ResetIndex, Goto, TypeInv, TypeOK, Context, Point, memory, outputs, history
  <2>2. ControlInv'
    BY <1>0, <1>8 DEF ResetIndex, Goto, Runs, TypeInv, TypeOK, ControlInv, Context, TimeoutPoint
  <2>3. QED
    BY <2>1, <2>2 DEF TypeInv
<1>9. QED
  BY <1>3, <1>4, <1>5, <1>6, <1>7, <1>8 DEF TimeoutStep

\* A report from the GPIOTE interrupt.
LEMMA ReportTypeInv ==
    ASSUME TypeInv, Report
    PROVE  TypeInv'
<1>1. PICK s \in OnceSensor, v \in Value : RepeatReport(s, v) \/ NewReport(s, v) \/ ReportFaults(s, v)
  BY DEF Report
<1>2. reading' \in [Sensor -> Value] /\ UNCHANGED <<sensor_list, sensor_data_pb, last_index, outputs>>
  BY <1>1 DEF RepeatReport, NewReport, ReportFaults, GpioteEnters, TypeInv, TypeOK
<1>3. [job["timer"] EXCEPT !.disturbed = @ \/ Disturbs] \in Job
  BY DEF TypeInv, TypeOK, Context, Job, Disturbs
<1>4. Len(once_queue) \in Nat /\ pc["gpiote"] = "idle"
  BY <1>1 DEF RepeatReport, NewReport, ReportFaults, GpioteEnters, TypeInv, TypeOK
<1>5. /\ job'["timer"].i = job["timer"].i /\ job'["timer"].source = job["timer"].source
      /\ job'["timer"].type = job["timer"].type /\ job'["timer"].length = job["timer"].length
      /\ job'["timer"].stream = job["timer"].stream
  <2>1. job'["timer"] = [job["timer"] EXCEPT !.disturbed = @ \/ Disturbs] /\ job["timer"] \in Job
    BY <1>1 DEF RepeatReport, NewReport, ReportFaults, TypeInv, TypeOK, Context
  <2>2. QED
    BY <2>1 DEF Job
<1>6. ASSUME MoreEntries("timer") => MoreEntries("timer")', pc'["timer"] = pc["timer"],
              pc'["gpiote"] \in {"idle", "head", "fault"}, Len(once_queue') >= Len(once_queue),
              Len(once_queue') \in Nat
       PROVE  ControlInv'
  <2>1. EntryInv("timer")'
    BY <1>5, <1>6 DEF TypeInv, ControlInv, EntryInv, Context, EntryPoint
  <2>2. EntryInv("gpiote")'
    BY <1>6 DEF EntryInv, EntryPoint
  <2>3. pc["timer"] \in {"free", "reset"} => job["timer"].i <= Len(once_queue) + 1 /\ job["timer"].i \in Nat
    BY DEF TypeInv, TypeOK, ControlInv, Job, Context
  <2>4. pc'["timer"] # "fault" /\ pc'["gpiote"] \notin TimeoutPoint
    BY <1>6 DEF TypeInv, ControlInv, TimeoutPoint
  <2>5. QED
    BY <1>4, <1>5, <1>6, <2>1, <2>2, <2>3, <2>4 DEF ControlInv, Context
<1>7. JobList("timer")' = JobList("timer") /\ Len(JobList("timer")) \in Nat /\ job["timer"].i \in Nat
  BY <1>2, <1>5 DEF JobList, TypeInv, TypeOK, Context, Job
<1>8. CASE RepeatReport(s, v)
  <2>1. heap' \in [Block -> Value \cup {Unallocated}] /\ corrupt' \in BOOLEAN
    <3>1. PICK k \in SameTag(s), b \in Block :
             /\ corrupt' = (corrupt \/ heap[once_queue[k].data] = Unallocated)
             /\ heap' = [[heap EXCEPT ![once_queue[k].data] = Unallocated] EXCEPT ![b] = v]
      BY <1>8 DEF RepeatReport, Available
    <3>2. QED
      BY <3>1 DEF TypeInv, TypeOK
  <2>2. TypeOK'
    BY <1>2, <1>3, <1>8, <2>1 DEF RepeatReport, TypeInv, TypeOK, Context, outputs
  <2>3. ControlInv'
    <3>1. once_queue' = once_queue /\ pc' = pc
      BY <1>8 DEF RepeatReport
    <3>2. MoreEntries("timer")' = MoreEntries("timer")
      BY <1>5, <1>7, <3>1 DEF MoreEntries
    <3>3. QED
      BY <1>4, <1>6, <3>1, <3>2
  <2>4. QED
    BY <2>2, <2>3 DEF TypeInv
<1>9. CASE NewReport(s, v)
  <2>1. PICK b \in Block : /\ heap' = [heap EXCEPT ![b] = v]
                           /\ once_queue' = Append(once_queue, [sensor |-> s, data |-> b])
    BY <1>9 DEF NewReport, Available
  <2>2. once_queue' \in Seq(Entry) /\ Len(once_queue') = Len(once_queue) + 1
    <3>1. [sensor |-> s, data |-> b] \in Entry
      BY DEF Entry
    <3>2. QED
      BY <2>1, <3>1 DEF TypeInv, TypeOK
  <2>3. heap' \in [Block -> Value \cup {Unallocated}]
    BY <2>1 DEF TypeInv, TypeOK
  <2>4. NewJob("advertising") \in Job
    BY NewJobType DEF UpdateType
  <2>5. TypeOK'
    BY <1>2, <1>3, <1>9, <2>2, <2>3, <2>4 DEF NewReport, Goto, TypeInv, TypeOK, Context, Point,
       UpdatePoint, outputs
  <2>6. ControlInv'
    <3>1. pc'["timer"] = pc["timer"] /\ pc'["gpiote"] = "head"
      BY <1>9 DEF NewReport, Goto, TypeInv, TypeOK, Context
    <3>2. MoreEntries("timer") => MoreEntries("timer")'
      BY <1>4, <1>5, <1>7, <2>2 DEF MoreEntries
    <3>3. QED
      BY <1>4, <1>6, <2>2, <3>1, <3>2
  <2>7. QED
    BY <2>5, <2>6 DEF TypeInv
<1>10. CASE ReportFaults(s, v)
  <2>1. TypeOK'
    BY <1>2, <1>3, <1>10 DEF ReportFaults, Goto, TypeInv, TypeOK, Context, Point, memory, history, outputs
  <2>2. ControlInv'
    <3>1. once_queue' = once_queue /\ pc'["timer"] = pc["timer"] /\ pc'["gpiote"] = "fault"
      BY <1>10 DEF ReportFaults, Goto, TypeInv, TypeOK, Context
    <3>2. MoreEntries("timer")' = MoreEntries("timer")
      BY <1>5, <1>7, <3>1 DEF MoreEntries
    <3>3. QED
      BY <1>4, <1>6, <3>1, <3>2
  <2>3. QED
    BY <2>1, <2>2 DEF TypeInv
<1>11. QED
  BY <1>1, <1>8, <1>9, <1>10

\* Every step, of whichever context, keeps the types.
LEMMA NextTypeInv == TypeInv /\ [Next]_vars => TypeInv'
<1>1. SUFFICES ASSUME TypeInv, [Next]_vars PROVE TypeInv'
  OBVIOUS
<1>2. CASE Next
  BY <1>1, <1>2, MainTypeInv, UpdateTypeInv, TimerTypeInv, ReportTypeInv DEF Next, Context
<1>3. CASE UNCHANGED vars
  BY <1>1, <1>3 DEF vars, statics, memory, outputs, control, history, TypeInv, TypeOK, ControlInv,
     EntryInv, MoreEntries, JobList
<1>4. QED
  BY <1>1, <1>2, <1>3

\* The types, and what each point of the code knows of its loop index, hold always.
THEOREM AlwaysTypeInv == Spec => []TypeInv
BY InitTypeInv, NextTypeInv, PTL DEF Spec

\* Every variable keeps its type: streams never outgrow the encoding buffer and
\* no loop looks beyond its list, whatever preempts it.
THEOREM TypeCorrect == Spec => []TypeOK
BY AlwaysTypeInv, PTL DEF TypeInv

-----------------------------------------------------------------------------
(* The queue never outgrows its array. *)

TagsDistinct ==
    \A j, k \in DOMAIN once_queue :
        SensorTag[once_queue[j].sensor] = SensorTag[once_queue[k].sensor] => j = k

\* Entries with different tags are at most as many as there are tags.
LEMMA DistinctTagsFit ==
    ASSUME TypeOK, TagsDistinct
    PROVE  Len(once_queue) <= ADVERTISING_ONCE_QUEUE_SIZE
<1> DEFINE S == 1..Len(once_queue)
           T == {SensorTag[s] : s \in OnceSensor}
           tag == [s \in OnceSensor |-> SensorTag[s]]
           f == [k \in S |-> SensorTag[once_queue[k].sensor]]
<1>1. Len(once_queue) \in Nat /\ DOMAIN once_queue = S
  BY DEF TypeOK
<1>2. IsFiniteSet(T) /\ Cardinality(T) \in Nat
  <2>1. tag \in Surjection(OnceSensor, T)
    BY DEF Surjection
  <2>2. IsFiniteSet(OnceSensor)
    BY FS_Subset, TagAssumption
  <2>3. IsFiniteSet(T)
    BY <2>1, <2>2, FS_Surjection
  <2>4. QED
    BY <2>3, FS_CardinalityType
<1>3. IsFiniteSet(S) /\ Cardinality(S) = Len(once_queue)
  BY <1>1, FS_Interval
<1>4. f \in [S -> T]
  <2>0. \A k \in S : once_queue[k] \in Entry
    BY <1>1 DEF TypeOK
  <2>1. \A k \in S : once_queue[k].sensor \in OnceSensor
    BY <2>0 DEF Entry
  <2>2. QED
    BY <2>1
<1>5. ~(Cardinality(T) < Cardinality(S))
  <2>1. SUFFICES ASSUME Cardinality(T) < Cardinality(S) PROVE FALSE
    OBVIOUS
  <2>2. PICK x, y \in S : x # y /\ f[x] = f[y]
    <3> HIDE DEF S, T, f
    <3>1. QED
      BY <1>2, <1>3, <1>4, <2>1, FS_PigeonHole
  <2>3. QED
    BY <1>1, <2>2 DEF TagsDistinct
<1>6. QED
  BY <1>1, <1>2, <1>3, <1>5, TagAssumption

QueueInv == TagsDistinct /\ last_index <= ADVERTISING_ONCE_QUEUE_SIZE

\* Only a new report makes the queue longer, and its tag is not in the queue.
LEMMA NextQueueInv == TypeInv /\ QueueInv /\ [Next]_vars => QueueInv'
<1> SUFFICES ASSUME TypeInv, QueueInv, [Next]_vars PROVE QueueInv'
  OBVIOUS
<1>1. Len(once_queue) \in Nat /\ DOMAIN once_queue = 1..Len(once_queue)
  BY DEF TypeInv, TypeOK
<1>2. ASSUME NEW s \in OnceSensor, NEW v \in Value, NewReport(s, v)
      PROVE  QueueInv'
  <2>1. PICK b \in Block : once_queue' = Append(once_queue, [sensor |-> s, data |-> b])
    BY <1>2 DEF NewReport, Available
  <2>2. /\ DOMAIN once_queue' = 1..(Len(once_queue) + 1)
        /\ \A k \in 1..Len(once_queue) : once_queue'[k] = once_queue[k]
        /\ once_queue'[Len(once_queue) + 1].sensor = s
    BY <1>1, <2>1 DEF TypeInv, TypeOK
  <2>3. \A k \in 1..Len(once_queue) : SensorTag[once_queue[k].sensor] # SensorTag[s]
    BY <1>2 DEF NewReport, SameTag
  <2>4. TagsDistinct'
    <3> SUFFICES ASSUME NEW j \in DOMAIN once_queue', NEW k \in DOMAIN once_queue',
                        SensorTag[once_queue'[j].sensor] = SensorTag[once_queue'[k].sensor]
                 PROVE  j = k
      BY DEF TagsDistinct
    <3>1. CASE j \in 1..Len(once_queue) /\ k \in 1..Len(once_queue)
      BY <1>1, <2>2, <3>1 DEF TagsDistinct, QueueInv
    <3>2. CASE j = Len(once_queue) + 1 \/ k = Len(once_queue) + 1
      BY <1>1, <2>2, <2>3, <3>2
    <3>3. QED
      BY <1>1, <2>2, <3>1, <3>2
  <2>5. last_index' = last_index
    BY <1>2 DEF NewReport, GpioteEnters
  <2>6. QED
    BY <2>4, <2>5 DEF QueueInv
<1>3. CASE LatchIndex
  BY <1>3, DistinctTagsFit DEF LatchIndex, QueueInv, TagsDistinct, TypeInv
<1>4. CASE ResetIndex
  BY <1>4 DEF ResetIndex, QueueInv, TagsDistinct
<1>5. CASE UNCHANGED <<once_queue, last_index>>
  BY <1>5 DEF QueueInv, TagsDistinct
<1>6. QED
  BY <1>2, <1>3, <1>4, <1>5 DEF Next, vars, statics, MainStep, AddSensor, RemoveSensor,
     RemoveSensorTag, RemoveFirstOf, Poll, PollTimeout, UpdateStep, EntryStep, EntryHead, EntryLength,
     EntryCopy, EntrySizing, EntryWrite, LoopEnd, Publish, Untouched, ClearTimeout, TimeoutStep, ClearResponse,
     FreeEntry, Report, RepeatReport, ReportFaults, GpioteEnters

\* once_queue[once_queue_index] is always inside the array, although nothing in
\* sems_ble_advertising_once checks it.
THEOREM QueueNeverOverruns == Spec => []QueueFits
<1>1. Init => QueueInv
  BY DEF Init, QueueInv, TagsDistinct
<1>2. TypeInv /\ QueueInv => QueueFits
  BY DistinctTagsFit DEF TypeInv, QueueInv, QueueFits
<1>3. QED
  BY <1>1, <1>2, NextQueueInv, AlwaysTypeInv, PTL DEF Spec

-----------------------------------------------------------------------------
(* What the stream of an update holds. *)

\* Reports are encoded only while they are queued and the advertising list is
\* empty; the stream of an update for an empty list then begins with a report.
QueueShown == once_queue # <<>> /\ sensor_list["advertising"] = <<>>

OnceStream(c) ==
    /\ job[c].source = "once" => QueueShown
    /\ \A n \in DOMAIN job[c].stream.items :
          job[c].stream.items[n].source = "once" => QueueShown
    /\ job[c].type = "advertising" /\ sensor_list["advertising"] = <<>>
       => \A n \in DOMAIN job[c].stream.items : job[c].stream.items[n].source = "once"
    /\ job[c].stream.bytes > 0 => job[c].stream.items # <<>>

StreamInv ==
    /\ pc["gpiote"] \in UpdatePoint => once_queue # <<>>
    /\ \A c \in Context : pc[c] \in UpdatePoint => OnceStream(c)

\* An update that starts has encoded nothing.
LEMMA NewJobStream ==
    ASSUME NEW c \in Context, NEW u \in UpdateType, job'[c] = NewJob(u)
    PROVE  OnceStream(c)'
BY DEF OnceStream, NewJob, EmptyStream

\* Encoding the current entry, completely or not, appends an item of its source.
LEMMA EntryStream ==
    ASSUME TypeInv, NEW c \in Context, OnceStream(c), pc[c] \in EntryPoint,
           UNCHANGED <<once_queue, sensor_list>>,
           job'[c].source = job[c].source, job'[c].type = job[c].type,
           NEW item \in Item, item.source = job[c].source,
           job'[c].stream.items = Append(job[c].stream.items, item)
    PROVE  OnceStream(c)'
<1>1. job[c].stream.items \in Seq(Item) /\ job[c].source \in {"list", "once"} /\ job[c].i \in Nat \ {0}
  <2>1. job[c] \in Job
    BY DEF TypeInv, TypeOK
  <2>2. job[c].stream \in Stream
    BY <2>1 DEF Job
  <2>3. QED
    BY <2>1, <2>2 DEF Job, Stream
<1>2. QueueShown' = QueueShown
  BY DEF QueueShown
<1>3. job[c].type = "advertising" /\ sensor_list["advertising"] = <<>> => job[c].source = "once"
  BY <1>1 DEF TypeInv, ControlInv, EntryInv, MoreEntries, JobList
<1>4. \A n \in DOMAIN job'[c].stream.items :
         \/ n \in DOMAIN job[c].stream.items /\ job'[c].stream.items[n] = job[c].stream.items[n]
         \/ job'[c].stream.items[n] = item
  BY <1>1
<1>5. job'[c].stream.items # <<>>
  <2> DEFINE items == job[c].stream.items
  <2>1. items \in Seq(Item) /\ job'[c].stream.items = Append(items, item)
    BY <1>1
  <2> HIDE DEF items
  <2>2. Append(items, item) # <<>>
    BY <2>1, AppendProperties
  <2> QED BY <2>1, <2>2
<1>6. QED
  BY <1>2, <1>3, <1>4, <1>5 DEF OnceStream

\* The item of the current entry, whole or torn.
WholeItem(c) == [source |-> job[c].source, torn |-> FALSE,
                 type |-> sensor_data_pb.type, data |-> sensor_data_pb.data]
TornItem(c)  == [source |-> job[c].source, torn |-> TRUE, type |-> 0, data |-> Unallocated]

\* The message that is encoded next makes an item, whole or torn.
LEMMA ItemType ==
    ASSUME TypeOK, NEW c \in Context
    PROVE  /\ WholeItem(c) \in Item /\ WholeItem(c).source = job[c].source
           /\ TornItem(c) \in Item /\ TornItem(c).source = job[c].source
<1>1. job[c] \in Job /\ sensor_data_pb \in Message
  BY DEF TypeOK
<1>2. job[c].source \in {"list", "once"}
  BY <1>1 DEF Job
<1>3. QED
  BY <1>1, <1>2 DEF WholeItem, TornItem, Item, Message

\* An entry that does not fit leaves a torn item of its source, last.
LEMMA FailedItem ==
    ASSUME TypeOK, NEW c \in Context, NEW n, EntryFails(c, n)
    PROVE  /\ job'[c].source = job[c].source /\ job'[c].type = job[c].type
           /\ job'[c].stream.items = Append(job[c].stream.items, TornItem(c))
<1>1. job \in [Context -> Job] /\ job[c] \in Job
  BY DEF TypeOK
<1>2. job'[c] = [job[c] EXCEPT !.stream = Torn(@, job[c].source, n),
                               !.i = IF job[c].source = "list" THEN @ ELSE @ + 1]
  BY <1>1 DEF EntryFails
<1>3. QED
  BY <1>1, <1>2 DEF Job, Torn, TornItem

\* A step that leaves an update's job alone, and takes nothing off the queue.
LEMMA KeepStream ==
    ASSUME NEW c \in Context, OnceStream(c), sensor_list' = sensor_list, QueueShown => QueueShown',
           job'[c].source = job[c].source, job'[c].type = job[c].type,
           job'[c].stream = job[c].stream
    PROVE  OnceStream(c)'
BY DEF OnceStream

\* Every step keeps what an update has encoded in agreement with the queue.
LEMMA NextStreamInv == TypeInv /\ StreamInv /\ [Next]_vars => StreamInv'
<1> SUFFICES ASSUME TypeInv, StreamInv, [Next]_vars PROVE StreamInv'
  OBVIOUS
<1>0. /\ pc \in [Context -> Point] /\ job \in [Context -> Job] /\ once_queue \in Seq(Entry)
      /\ \A c \in Context : job[c] \in Job
  BY DEF TypeInv, TypeOK
<1>1. ASSUME NEW c \in Context, UpdateStep(c) PROVE StreamInv'
  <2>1. /\ sensor_list' = sensor_list /\ once_queue' = once_queue /\ QueueShown' = QueueShown
        /\ pc[c] \in UpdatePoint
        /\ \A d \in Context \ {c} : pc'[d] = pc[d] /\ job'[d] = job[d]
    BY <1>0, <1>1 DEF UpdateStep, EntryStep, EntryHead, EntryLength, EntryCopy, EntrySizing,
       EntryWrite, EntryFails, LoopEnd, Publish, Goto,
       Untouched, QueueShown, UpdatePoint, EntryPoint
  <2>2. \A d \in Context \ {c} : pc'[d] \in UpdatePoint => OnceStream(d)'
    BY <2>1, KeepStream DEF StreamInv
  <2>3. pc'["gpiote"] \in UpdatePoint => once_queue' # <<>>
    BY <2>1 DEF StreamInv, Context
  <2>4. OnceStream(c)
    BY <2>1 DEF StreamInv
  <2>5. SUFFICES OnceStream(c)' \/ pc'[c] = "idle"
    BY <2>2, <2>3, <2>5 DEF StreamInv, UpdatePoint, EntryPoint
  <2>6. ASSUME job' = job PROVE OnceStream(c)'
    BY <2>1, <2>4, <2>6, KeepStream
  <2>7. CASE EntryHead(c)
    <3>1. CASE job' = [job EXCEPT ![c].i = @ + 1]
      <4>1. job'[c] = [job[c] EXCEPT !.i = @ + 1]
        BY <1>0, <3>1
      <4>2. job'[c].source = job[c].source /\ job'[c].type = job[c].type /\ job'[c].stream = job[c].stream
        BY <1>0, <4>1 DEF Job
      <4>3. QED
        BY <2>1, <2>4, <4>2, KeepStream
    <3>2. QED
      BY <2>6, <2>7, <3>1 DEF EntryHead
  <2>8. CASE EntryLength(c) \/ EntryCopy(c)
    BY <2>6, <2>8 DEF EntryLength, EntryCopy
  <2>9. CASE EntrySizing(c) \/ EntryWrite(c)
    <3>1. pc[c] \in EntryPoint
      BY <2>9 DEF EntrySizing, EntryWrite, EntryPoint
    <3>2. ASSUME NEW n, EntryFails(c, n) PROVE OnceStream(c)'
      <4>1. /\ job'[c].source = job[c].source /\ job'[c].type = job[c].type
            /\ job'[c].stream.items = Append(job[c].stream.items, TornItem(c))
        BY <3>2, FailedItem DEF TypeInv
      <4>2. QED
        BY <2>1, <2>4, <3>1, <4>1, EntryStream, ItemType DEF TypeInv
    <3>3. ASSUME job' = [job EXCEPT ![c].length = MessageSize(sensor_data_pb)] PROVE OnceStream(c)'
      <4>1. job'[c] = [job[c] EXCEPT !.length = MessageSize(sensor_data_pb)]
        BY <1>0, <3>3
      <4>2. job'[c].source = job[c].source /\ job'[c].type = job[c].type /\ job'[c].stream = job[c].stream
        BY <1>0, <4>1 DEF Job
      <4>3. QED
        BY <2>1, <2>4, <4>2, KeepStream
    <3>4. ASSUME job' = [job EXCEPT ![c].stream = Encoded(@, job[c].source, sensor_data_pb), ![c].i = @ + 1]
          PROVE  OnceStream(c)'
      <4>1. job'[c] = [job[c] EXCEPT !.stream = Encoded(@, job[c].source, sensor_data_pb), !.i = @ + 1]
        BY <1>0, <3>4
      <4>2. /\ job'[c].source = job[c].source /\ job'[c].type = job[c].type
            /\ job'[c].stream.items = Append(job[c].stream.items, WholeItem(c))
        BY <1>0, <4>1 DEF Job, Encoded, WholeItem
      <4>3. QED
        BY <2>1, <2>4, <3>1, <4>2, EntryStream, ItemType DEF TypeInv
    <3>5. QED
      BY <2>9, <3>2, <3>3, <3>4 DEF EntrySizing, EntryWrite
  <2>10. CASE LoopEnd(c)
    <3>1. CASE QueueFollows(c)
      <4>1. job' = [job EXCEPT ![c].source = "once", ![c].i = 1]
        BY <2>10, <3>1 DEF LoopEnd
      <4>2. job'[c] = [job[c] EXCEPT !.source = "once", !.i = 1]
        BY <1>0, <4>1
      <4>3. job'[c].source = "once" /\ job'[c].type = job[c].type /\ job'[c].stream = job[c].stream
        BY <1>0, <4>2 DEF Job
      <4>4. QueueShown
        BY <3>1 DEF QueueFollows, QueueShown
      <4>5. QED
        BY <2>1, <2>4, <4>3, <4>4 DEF OnceStream
    <3>2. QED
      BY <2>6, <2>10, <3>1 DEF LoopEnd
  <2>11. CASE Publish(c)
    BY <1>0, <2>11 DEF Publish, Goto
  <2>12. QED
    BY <1>1, <2>7, <2>8, <2>9, <2>10, <2>11 DEF UpdateStep, EntryStep
<1>2. ASSUME \A c \in Context : pc'[c] \notin UpdatePoint PROVE StreamInv'
  BY <1>2 DEF StreamInv, Context
<1>3. CASE MainStep
  <2>1. \A c \in Context : pc'[c] = "idle"
    BY <1>3 DEF MainStep, AddSensor, RemoveSensor, RemoveSensorTag, RemoveFirstOf, control, MainRuns
  <2>2. QED
    BY <1>2, <2>1 DEF UpdatePoint, EntryPoint
<1>4. CASE Poll
  <2>1. PICK s \in PolledSensor, u \in UpdateType, v \in Value : PollTimeout(s, u, v)
    BY <1>4 DEF Poll
  <2>2. pc'["gpiote"] = "idle" /\ job'["timer"] = NewJob(u)
    BY <1>0, <2>1 DEF PollTimeout, MainRuns, Goto, Context
  <2>3. OnceStream("timer")'
    BY <2>2, NewJobStream DEF Context
  <2>4. QED
    BY <2>2, <2>3 DEF StreamInv, Context, UpdatePoint, EntryPoint
<1>5. CASE ClearTimeout \/ TimeoutStep
  <2>1. pc'["gpiote"] = "idle" /\ pc'["timer"] \in TimeoutPoint \cup {"idle"}
    BY <1>0, <1>5 DEF ClearTimeout, TimeoutStep, ClearResponse, LatchIndex, FreeEntry, ResetIndex,
       Goto, Runs, MainRuns, Context, TimeoutPoint
  <2>2. QED
    BY <1>2, <2>1 DEF UpdatePoint, EntryPoint, TimeoutPoint, Context
<1>6. CASE Report
  <2>1. PICK s \in OnceSensor, v \in Value :
           RepeatReport(s, v) \/ NewReport(s, v) \/ ReportFaults(s, v)
    BY <1>6 DEF Report
  <2>2. /\ pc'["timer"] = pc["timer"] /\ sensor_list' = sensor_list
        /\ pc'["gpiote"] \in UpdatePoint => NewReport(s, v)
    BY <1>0, <2>1 DEF RepeatReport, NewReport, ReportFaults, GpioteEnters, Goto, Context, UpdatePoint, EntryPoint
  <2>3. QueueShown => QueueShown'
    <3>1. NewReport(s, v) => once_queue' # <<>>
      BY <1>0 DEF NewReport
    <3>2. ~NewReport(s, v) => once_queue' = once_queue
      BY <2>1 DEF RepeatReport, ReportFaults
    <3>3. QED
      BY <2>2, <3>1, <3>2 DEF QueueShown
  <2>4. /\ job'["timer"].source = job["timer"].source /\ job'["timer"].type = job["timer"].type
        /\ job'["timer"].stream = job["timer"].stream
    <3>1. job'["timer"] = [job["timer"] EXCEPT !.disturbed = @ \/ Disturbs]
      BY <1>0, <2>1 DEF RepeatReport, NewReport, ReportFaults, Context
    <3>2. QED
      BY <1>0, <3>1 DEF Job, Context
  <2>5. pc'["timer"] \in UpdatePoint => OnceStream("timer")'
    BY <2>2, <2>3, <2>4, KeepStream DEF StreamInv, Context
  <2>6. ASSUME NewReport(s, v) PROVE OnceStream("gpiote")' /\ once_queue' # <<>>
    <3>1. job'["gpiote"] = NewJob("advertising")
      BY <1>0, <2>6 DEF NewReport, Context
    <3>2. OnceStream("gpiote")'
      BY <3>1, NewJobStream DEF Context, UpdateType
    <3>3. once_queue' # <<>>
      BY <1>0, <2>6 DEF NewReport
    <3>4. QED
      BY <3>2, <3>3
  <2>7. QED
    BY <2>2, <2>5, <2>6 DEF StreamInv, Context
<1>7. CASE UNCHANGED vars
  BY <1>7 DEF vars, statics, control, StreamInv, OnceStream, QueueShown
<1>8. QED
  BY <1>1, <1>3, <1>4, <1>5, <1>6, <1>7 DEF Next, Context

\* An update that goes on the air shows reports exactly when the advertising
\* list is empty, and then they are queued.
LEMMA PublishShows ==
    ASSUME TypeInv, StreamInv, NEW c \in Context, Publish(c), scan_response' # scan_response
    PROVE  IF sensor_list["advertising"] = <<>> THEN OnceOnAir' /\ once_queue # <<>>
                                                ELSE ~OnceOnAir'
<1>1. /\ scan_response' = job[c].stream.items /\ job[c].type = "advertising"
      /\ job[c].stream.bytes > 0
  BY DEF Publish, TypeInv, TypeOK, Job, Stream
<1>2. OnceStream(c) /\ job[c].stream.items \in Seq(Item)
  BY DEF Publish, StreamInv, UpdatePoint, EntryPoint, TypeInv, TypeOK, Job, Stream
<1>3. CASE sensor_list["advertising"] = <<>>
  <2>1. job[c].stream.items # <<>>
    BY <1>1, <1>2 DEF OnceStream
  <2>2. 1 \in DOMAIN job[c].stream.items
    BY <1>2, <2>1
  <2>3. job[c].stream.items[1].source = "once"
    BY <1>1, <1>2, <1>3, <2>2 DEF OnceStream
  <2>4. QueueShown
    BY <1>2, <2>2, <2>3 DEF OnceStream
  <2>5. QED
    BY <1>1, <1>3, <2>2, <2>3, <2>4 DEF OnceOnAir, QueueShown
<1>4. CASE sensor_list["advertising"] # <<>>
  BY <1>1, <1>2, <1>4 DEF OnceOnAir, OnceStream, QueueShown
<1>5. QED
  BY <1>3, <1>4

-----------------------------------------------------------------------------
(* How far the timeout handler has got with the reports that are on the air. *)

WindowInv ==
    /\ OnceOnAirTracked
    /\ pc["timer"] \in {"free", "reset"} /\ ~raced => last_index = Len(once_queue)
    /\ pc["timer"] = "clear" => last_index > 0 /\ (once_queue # <<>> => raced)
    /\ pc["timer"] = "latch" /\ once_queue = <<>> /\ last_index > 0 => ~OnceOnAir

\* Every step keeps the last index and what is on the air in agreement.
LEMMA NextWindowInv == TypeInv /\ StreamInv /\ WindowInv /\ [Next]_vars => WindowInv'
<1> SUFFICES ASSUME TypeInv, StreamInv, WindowInv, [Next]_vars PROVE WindowInv'
  OBVIOUS
<1>0. /\ pc \in [Context -> Point] /\ once_queue \in Seq(Entry) /\ last_index \in Nat
      /\ raced \in BOOLEAN
  BY DEF TypeInv, TypeOK
<1>1. ASSUME UNCHANGED <<once_queue, last_index, raced, scan_response>>,
             pc'["timer"] \in TimeoutPoint => pc'["timer"] = pc["timer"]
      PROVE  WindowInv'
  BY <1>1 DEF WindowInv, OnceOnAirTracked, OnceOnAir, TimeoutPoint
<1>2. CASE MainStep
  BY <1>1, <1>2 DEF MainStep, AddSensor, RemoveSensor, RemoveSensorTag, RemoveFirstOf, control,
     outputs, history
<1>3. CASE Poll
  BY <1>0, <1>1, <1>3 DEF Poll, PollTimeout, Goto, outputs, history, Context, TimeoutPoint
<1>4. ASSUME NEW c \in Context, UpdateStep(c) PROVE WindowInv'
  <2>1. /\ UNCHANGED <<once_queue, last_index, raced, sensor_list>>
        /\ pc'["timer"] \in TimeoutPoint => pc'["timer"] = pc["timer"] /\ c = "gpiote"
    BY <1>0, <1>4 DEF UpdateStep, EntryStep, EntryHead, EntryLength, EntryCopy, EntrySizing,
       EntryWrite, EntryFails, LoopEnd, Publish, Goto,
       Untouched, history, UpdatePoint, EntryPoint, TimeoutPoint, Context
  <2>2. CASE scan_response' = scan_response
    BY <1>1, <2>1, <2>2
  <2>3. CASE scan_response' # scan_response
    <3>1. Publish(c)
      BY <1>4, <2>3 DEF UpdateStep, EntryStep, EntryHead, EntryLength, EntryCopy, EntrySizing,
       EntryWrite, EntryFails, LoopEnd, outputs
    <3>2. OnceOnAir' => once_queue # <<>>
      BY <2>3, <3>1, PublishShows
    <3>3. c = "gpiote" => once_queue # <<>>
      BY <3>1 DEF Publish, StreamInv, UpdatePoint, EntryPoint
    <3>4. QED
      BY <2>1, <3>2, <3>3 DEF WindowInv, OnceOnAirTracked, TimeoutPoint
  <2>4. QED
    BY <2>2, <2>3
<1>5. CASE ClearTimeout
  <2>1. /\ UNCHANGED <<once_queue, last_index, raced, scan_response>>
        /\ pc'["timer"] = IF last_index > 0 /\ once_queue = <<>> THEN "clear" ELSE "latch"
    BY <1>0, <1>5 DEF ClearTimeout, Goto, statics, outputs, history, Context
  <2>2. QED
    BY <2>1 DEF WindowInv, OnceOnAirTracked, OnceOnAir
<1>6. CASE ClearResponse
  <2>1. /\ UNCHANGED <<once_queue, last_index, raced>> /\ scan_response' = <<>>
        /\ pc'["timer"] = "latch"
    BY <1>0, <1>6 DEF ClearResponse, Goto, statics, history, Context
  <2>2. QED
    BY <2>1 DEF WindowInv, OnceOnAirTracked, OnceOnAir
<1>7. CASE LatchIndex
  <2>1. /\ UNCHANGED <<once_queue, raced, scan_response>> /\ last_index' = Len(once_queue)
        /\ pc'["timer"] = "free" /\ pc["timer"] = "latch"
    BY <1>0, <1>7 DEF LatchIndex, Goto, outputs, history, Context
  <2>2. OnceOnAir' = OnceOnAir
    BY <2>1 DEF OnceOnAir
  <2>3. QED
    BY <2>1, <2>2 DEF WindowInv, OnceOnAirTracked
<1>8. CASE FreeEntry
  <2>1. /\ UNCHANGED <<once_queue, last_index, raced, scan_response>>
        /\ pc'["timer"] \in {"free", "reset"} /\ pc["timer"] = "free"
    BY <1>0, <1>8 DEF FreeEntry, Goto, statics, outputs, history, Context
  <2>2. QED
    BY <2>1 DEF WindowInv, OnceOnAirTracked, OnceOnAir
<1>9. CASE ResetIndex
  <2>1. /\ UNCHANGED <<last_index, raced, scan_response>> /\ once_queue' = <<>>
        /\ pc'["timer"] = "idle" /\ pc["timer"] = "reset"
    BY <1>0, <1>9 DEF ResetIndex, Goto, outputs, history, Context
  <2>2. OnceOnAir' = OnceOnAir /\ (once_queue # <<>> => Len(once_queue) > 0)
    BY <1>0, <2>1 DEF OnceOnAir
  <2>3. QED
    BY <2>1, <2>2 DEF WindowInv, OnceOnAirTracked
<1>10. CASE Report
  <2>1. PICK s \in OnceSensor, v \in Value :
           RepeatReport(s, v) \/ NewReport(s, v) \/ ReportFaults(s, v)
    BY <1>10 DEF Report
  <2>2. UNCHANGED <<last_index, scan_response>> /\ pc'["timer"] = pc["timer"]
    BY <1>0, <2>1 DEF RepeatReport, NewReport, ReportFaults, GpioteEnters, Goto, outputs, Context
  <2>3. CASE NewReport(s, v)
    <3>1. once_queue' # <<>> /\ raced' = (pc["timer"] \in TimeoutPoint)
      BY <1>0, <2>3 DEF NewReport
    <3>2. QED
      BY <2>2, <3>1 DEF WindowInv, OnceOnAirTracked, TimeoutPoint
  <2>4. CASE ~NewReport(s, v)
    BY <1>1, <2>1, <2>2, <2>4 DEF RepeatReport, ReportFaults, history
  <2>5. QED
    BY <2>3, <2>4
<1>11. CASE UNCHANGED vars
  BY <1>1, <1>11 DEF vars, statics, outputs, control, history
<1>12. QED
  BY <1>2, <1>3, <1>4, <1>5, <1>6, <1>7, <1>8, <1>9, <1>10, <1>11 DEF Next, TimeoutStep, Context

AirInv == StreamInv /\ WindowInv

\* What is encoded and what is on the air belong to the queue as it is (sensor_handler.c).
THEOREM AlwaysAirInv == Spec => []AirInv
<1>1. Init => AirInv
  <2> SUFFICES ASSUME Init PROVE AirInv
    OBVIOUS
  <2>1. /\ \A c \in Context : pc[c] = "idle"
        /\ scan_response = <<>>
    BY DEF Init
  <2>2. StreamInv
    BY <2>1 DEF StreamInv, UpdatePoint, EntryPoint, Context
  <2>3. WindowInv
    BY <2>1 DEF WindowInv, OnceOnAirTracked, OnceOnAir, Context
  <2>4. QED
    BY <2>2, <2>3 DEF AirInv
<1>2. TypeInv /\ AirInv /\ [Next]_vars => AirInv'
  BY NextStreamInv, NextWindowInv DEF AirInv
<1>3. QED
  BY <1>1, <1>2, AlwaysTypeInv, PTL DEF Spec

\* A report that is on the air is still queued or was queued at the previous
\* timeout, unless the last report came while the timeout handler was running.
THEOREM ReportsAreTracked == Spec => []OnceOnAirTracked
<1>1. AirInv => OnceOnAirTracked
  BY DEF AirInv, WindowInv
<1>2. QED
  BY <1>1, AlwaysAirInv, PTL

-----------------------------------------------------------------------------
(* Every step of the sensor handler is a step of the window, or none. *)

\* Every step of the handler opens, keeps or closes the window.
LEMMA WindowStep == TypeInv /\ AirInv /\ [Next]_vars => [Window!Next]_(Window!wvars)
<1> SUFFICES ASSUME TypeInv, AirInv, [Next]_vars PROVE [Window!Next]_(Window!wvars)
  OBVIOUS
<1> DEFINE Advertises == sensor_list["advertising"] # <<>>
<1>0. /\ pc \in [Context -> Point] /\ once_queue \in Seq(Entry) /\ last_index \in Nat
      /\ raced \in BOOLEAN
      /\ StreamInv /\ WindowInv
  BY DEF TypeInv, TypeOK, AirInv
<1>1. ASSUME UNCHANGED <<once_queue, last_index, raced, scan_response>>, Advertises' = Advertises
      PROVE  UNCHANGED Window!wvars
  BY <1>1 DEF Window!wvars, OnceOnAir, Age
<1>2. CASE MainStep
  <2>1. UNCHANGED <<once_queue, last_index, raced, scan_response>>
    BY <1>2 DEF MainStep, AddSensor, RemoveSensor, RemoveSensorTag, RemoveFirstOf, outputs, history
  <2>2. Window!List
    BY <2>1 DEF Window!List, OnceOnAir, Age
  <2>3. QED
    BY <2>2 DEF Window!Next
<1>3. CASE Poll \/ ClearTimeout \/ FreeEntry
  BY <1>1, <1>3 DEF Poll, PollTimeout, ClearTimeout, FreeEntry, statics, outputs, history
<1>4. ASSUME NEW c \in Context, UpdateStep(c) PROVE [Window!Next]_(Window!wvars)
  <2>1. UNCHANGED <<once_queue, last_index, raced, sensor_list>>
    BY <1>4 DEF UpdateStep, EntryStep, EntryHead, EntryLength, EntryCopy, EntrySizing,
       EntryWrite, EntryFails, LoopEnd, Publish, Untouched, history
  <2>2. CASE scan_response' = scan_response
    BY <1>1, <2>1, <2>2
  <2>3. CASE scan_response' # scan_response
    <3>1. Publish(c)
      BY <1>4, <2>3 DEF UpdateStep, EntryStep, EntryHead, EntryLength, EntryCopy, EntrySizing,
       EntryWrite, EntryFails, LoopEnd, outputs
    <3>2. CASE Advertises
      <4>1. Window!Override
        BY <1>0, <2>1, <2>3, <3>1, <3>2, PublishShows DEF Window!Override, Age
      <4>2. QED
        BY <4>1 DEF Window!Next
    <3>3. CASE ~Advertises
      <4>1. Window!Show
        BY <1>0, <2>1, <2>3, <3>1, <3>3, PublishShows DEF Window!Show, Age, OnceOnAir
      <4>2. QED
        BY <4>1 DEF Window!Next
    <3>4. QED
      BY <3>2, <3>3
  <2>4. QED
    BY <2>2, <2>3
<1>5. CASE ClearResponse
  <2>1. /\ UNCHANGED <<once_queue, last_index, raced, sensor_list>> /\ scan_response' = <<>>
        /\ last_index > 0 /\ (once_queue # <<>> => raced)
    BY <1>0, <1>5 DEF ClearResponse, statics, history, WindowInv
  <2>2. Window!Erase
    BY <2>1 DEF Window!Erase, OnceOnAir, Age
  <2>3. QED
    BY <2>2 DEF Window!Next
<1>6. CASE LatchIndex
  <2>1. /\ UNCHANGED <<once_queue, raced, sensor_list, scan_response>>
        /\ last_index' = Len(once_queue) /\ OnceOnAir' = OnceOnAir
        /\ once_queue = <<>> /\ last_index > 0 => ~OnceOnAir
    BY <1>0, <1>6 DEF LatchIndex, outputs, history, WindowInv, OnceOnAir
  <2>2. CASE once_queue # <<>>
    BY <2>1, <2>2 DEF Window!wvars, Age
  <2>3. CASE once_queue = <<>> /\ last_index > 0
    <3>1. Window!Forget
      BY <2>1, <2>3 DEF Window!Forget, Age
    <3>2. QED
      BY <3>1 DEF Window!Next
  <2>4. CASE once_queue = <<>> /\ ~(last_index > 0)
    BY <2>1, <2>4 DEF Window!wvars, Age
  <2>5. QED
    BY <2>2, <2>3, <2>4
<1>7. CASE ResetIndex
  <2>1. /\ UNCHANGED <<last_index, raced, sensor_list, scan_response>> /\ once_queue' = <<>>
        /\ OnceOnAir' = OnceOnAir
        /\ ~raced => last_index = Len(once_queue)
    BY <1>0, <1>7 DEF ResetIndex, outputs, history, WindowInv, OnceOnAir
  <2>2. CASE once_queue = <<>>
    BY <2>1, <2>2 DEF Window!wvars, Age
  <2>3. CASE once_queue # <<>>
    <3>1. Len(once_queue) > 0
      BY <1>0, <2>3
    <3>2. Window!FirstTimeout
      BY <2>1, <2>3, <3>1 DEF Window!FirstTimeout, Age
    <3>3. QED
      BY <3>2 DEF Window!Next
  <2>4. QED
    BY <2>2, <2>3
<1>8. CASE Report
  <2>1. PICK s \in OnceSensor, v \in Value :
           RepeatReport(s, v) \/ NewReport(s, v) \/ ReportFaults(s, v)
    BY <1>8 DEF Report
  <2>2. UNCHANGED <<last_index, scan_response, sensor_list>>
    BY <2>1 DEF RepeatReport, NewReport, ReportFaults, GpioteEnters, outputs
  <2>3. CASE NewReport(s, v)
    <3>1. once_queue' # <<>> /\ raced' \in BOOLEAN
      BY <1>0, <2>3 DEF NewReport
    <3>2. Window!Report
      BY <2>2, <3>1 DEF Window!Report, Age, OnceOnAir
    <3>3. QED
      BY <3>2 DEF Window!Next
  <2>4. CASE ~NewReport(s, v)
    BY <1>1, <2>1, <2>2, <2>4 DEF RepeatReport, ReportFaults, history
  <2>5. QED
    BY <2>3, <2>4
<1>9. CASE UNCHANGED vars
  BY <1>1, <1>9 DEF vars, statics, outputs, history
<1>10. QED
  BY <1>2, <1>3, <1>4, <1>5, <1>6, <1>7, <1>8, <1>9 DEF Next, TimeoutStep, Context

\* The sensor handler implements the window: a report that does not interrupt
\* the timeout handler is taken off by the second timeout after it.
THEOREM SensorHandlerKeepsWindow == Spec => KeepsWindow
<1>1. Init => Window!Init
  BY DEF Init, Window!Init, OnceOnAir, Age, UpdateType
<1>2. TypeInv /\ AirInv /\ [Next]_vars => [Window!Next]_(Window!wvars)
  BY WindowStep
<1>3. QED
  BY <1>1, <1>2, AlwaysTypeInv, AlwaysAirInv, PTL DEF Spec, KeepsWindow, Window!Spec

=============================================================================
