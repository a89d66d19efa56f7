-------------------------- MODULE SensorDataProofs --------------------------
(***************************************************************************)
(* The data of sensor_handler.c, for every list of sensors, every number   *)
(* of blocks, every size of the buffer and every interleaving: who owns    *)
(* the heap blocks of the once queue, and what an update encodes.          *)
(***************************************************************************)
EXTENDS SensorHandlerProofs

-----------------------------------------------------------------------------
(* The blocks of the queue.                                                 *)

\* The timeout handler has freed what it has passed, as long as no report came
\* in between.
FreedInv ==
    ~repeated /\ ~raced =>
        /\ pc["timer"] \in {"free", "reset"} =>
              \A k \in DOMAIN once_queue :
                 k < job["timer"].i => heap[once_queue[k].data] = Unallocated
        /\ pc["timer"] = "reset" => job["timer"].i > Len(once_queue)

BlockInv == QueueOwnsBlocks /\ FreedInv

\* A step that touches neither the queue nor the heap, nor the timeout handler.
LEMMA KeepBlocks ==
    ASSUME BlockInv, UNCHANGED <<once_queue, heap, corrupt, raced, repeated>>,
           pc'["timer"] \in {"free", "reset"} \/ pc["timer"] \in {"free", "reset"}
              => pc'["timer"] = pc["timer"] /\ job'["timer"].i = job["timer"].i
    PROVE  BlockInv'
<1>1. Pending' = Pending
  BY DEF Pending
<1>2. QED
  BY <1>1 DEF BlockInv, QueueOwnsBlocks, FreedInv

\* The data of each queued entry is in a block.
LEMMA EntryBlock == TypeInv => \A k \in DOMAIN once_queue : once_queue[k].data \in Block
<1> SUFFICES ASSUME TypeInv, NEW k \in DOMAIN once_queue PROVE once_queue[k].data \in Block
  OBVIOUS
<1>1. once_queue[k] \in Entry
  BY DEF TypeInv, TypeOK
<1>2. QED
  BY <1>1 DEF Entry

\* Freeing an entry leaves the blocks of the later ones alone.
LEMMA FreeEntryBlocks == ASSUME TypeInv, BlockInv, FreeEntry PROVE BlockInv'
<1> DEFINE i == job["timer"].i
<1>0. /\ pc \in [Context -> Point] /\ job \in [Context -> Job] /\ job["timer"] \in Job
      /\ i \in Nat \ {0} /\ once_queue \in Seq(Entry) /\ heap \in [Block -> Value \cup {Unallocated}]
      /\ Len(once_queue) \in Nat /\ DOMAIN once_queue = 1..Len(once_queue)
      /\ \A k \in DOMAIN once_queue : once_queue[k].data \in Block
  BY EntryBlock DEF TypeInv, TypeOK, Context, Job
<1>1. pc["timer"] = "free" /\ UNCHANGED <<once_queue, raced, repeated>>
  BY DEF FreeEntry, statics, history
<1>2. CASE i <= Len(once_queue)
  <2>1. /\ Freed(once_queue[i].data) /\ pc' = pc
        /\ job' = [job EXCEPT !["timer"].i = @ + 1]
    BY <1>2 DEF FreeEntry
  <2>2. job'["timer"] = [job["timer"] EXCEPT !.i = @ + 1]
    BY <1>0, <2>1 DEF Context
  <2>3. job'["timer"].i = i + 1
    BY <1>0, <2>2 DEF Job
  <2>4. \A k \in DOMAIN once_queue :
           heap'[once_queue[k].data] = IF once_queue[k].data = once_queue[i].data
                                       THEN Unallocated ELSE heap[once_queue[k].data]
    BY <1>0, <1>2, <2>1 DEF Freed
  <2>5. Pending = {k \in DOMAIN once_queue : k >= i} /\ Pending' = {k \in DOMAIN once_queue : k >= i + 1}
    BY <1>1, <2>1, <2>3 DEF Pending
  <2>6. i \in Pending /\ \A k \in Pending' : k \in Pending /\ k # i
    BY <1>0, <1>2, <2>5
  <2>7. QueueOwnsBlocks'
    <3> SUFFICES ASSUME ~repeated'
                 PROVE  /\ ~corrupt'
                        /\ \A k \in Pending' : heap'[once_queue'[k].data] # Unallocated
                        /\ \A j, k \in Pending' : once_queue'[j].data = once_queue'[k].data => j = k
      BY DEF QueueOwnsBlocks
    <3>1. /\ ~corrupt /\ \A k \in Pending : heap[once_queue[k].data] # Unallocated
          /\ \A j, k \in Pending : once_queue[j].data = once_queue[k].data => j = k
      BY <1>1 DEF BlockInv, QueueOwnsBlocks
    <3>2. ~corrupt'
      BY <2>1, <2>6, <3>1 DEF Freed
    <3>3. \A k \in Pending' : heap'[once_queue[k].data] # Unallocated
      BY <2>4, <2>5, <2>6, <3>1
    <3>4. QED
      BY <1>1, <2>6, <3>1, <3>2, <3>3
  <2>8. FreedInv'
    <3>1. ~repeated /\ ~raced => \A k \in DOMAIN once_queue :
             k < i + 1 => heap'[once_queue[k].data] = Unallocated
      BY <1>0, <1>1, <1>2, <2>4 DEF BlockInv, FreedInv
    <3>2. QED
      BY <1>1, <2>1, <2>3, <3>1 DEF FreedInv
  <2>9. QED
    BY <2>7, <2>8 DEF BlockInv
<1>3. CASE i > Len(once_queue)
  <2>1. UNCHANGED <<heap, corrupt, job>> /\ pc'["timer"] = "reset"
    BY <1>0, <1>3 DEF FreeEntry, Goto, memory, Context
  <2>2. Pending' = Pending
    BY <1>1, <2>1 DEF Pending
  <2>3. QED
    BY <1>1, <1>3, <2>1, <2>2 DEF BlockInv, QueueOwnsBlocks, FreedInv
<1>4. QED
  BY <1>0, <1>2, <1>3

\* A report of a new tag gets a block no pending entry owns.
LEMMA NewReportBlocks ==
    ASSUME TypeInv, BlockInv, NEW s \in OnceSensor, NEW v \in Value, NewReport(s, v)
    PROVE  BlockInv'
<1>0. /\ pc \in [Context -> Point] /\ job \in [Context -> Job] /\ job["timer"] \in Job
      /\ once_queue \in Seq(Entry) /\ heap \in [Block -> Value \cup {Unallocated}]
      /\ Len(once_queue) \in Nat /\ DOMAIN once_queue = 1..Len(once_queue)
      /\ \A k \in DOMAIN once_queue : once_queue[k].data \in Block
  BY EntryBlock DEF TypeInv, TypeOK, Context
<1>1. PICK b \in Available(heap, corrupt) :
         /\ heap' = [heap EXCEPT ![b] = v]
         /\ once_queue' = Append(once_queue, [sensor |-> s, data |-> b])
  BY DEF NewReport
<1>2. /\ UNCHANGED <<corrupt, repeated>> /\ raced' = (pc["timer"] \in TimeoutPoint)
      /\ pc'["timer"] = pc["timer"] /\ job'["timer"].i = job["timer"].i
  <2>1. job'["timer"] = [job["timer"] EXCEPT !.disturbed = @ \/ Disturbs]
    BY <1>0 DEF NewReport, Context
  <2>2. job'["timer"].i = job["timer"].i
    BY <1>0, <2>1 DEF Job
  <2>3. QED
    BY <1>0, <2>2 DEF NewReport, Goto, Context
<1>3. FreedInv'
  BY <1>2 DEF FreedInv, TimeoutPoint
<1>4. SUFFICES ASSUME ~repeated'
               PROVE  /\ ~corrupt'
                      /\ \A k \in Pending' : heap'[once_queue'[k].data] # Unallocated
                      /\ \A j, k \in Pending' : once_queue'[j].data = once_queue'[k].data => j = k
  BY <1>3 DEF BlockInv, QueueOwnsBlocks
<1>5. /\ ~corrupt /\ \A k \in Pending : heap[once_queue[k].data] # Unallocated
      /\ \A j, k \in Pending : once_queue[j].data = once_queue[k].data => j = k
  BY <1>2, <1>4 DEF BlockInv, QueueOwnsBlocks
<1>6. b \in Block /\ heap[b] = Unallocated
  BY <1>1, <1>5 DEF Available
<1>7. /\ DOMAIN once_queue' = 1..(Len(once_queue) + 1)
      /\ \A k \in DOMAIN once_queue : once_queue'[k] = once_queue[k]
      /\ once_queue'[Len(once_queue) + 1].data = b
  BY <1>0, <1>1
<1>8. \A k \in Pending' : k \in Pending \/ k = Len(once_queue) + 1
  BY <1>0, <1>2, <1>7 DEF Pending
<1>9. \A k \in Pending : k \in DOMAIN once_queue
  BY DEF Pending
<1>10. \A k \in Pending : /\ once_queue'[k].data = once_queue[k].data /\ once_queue[k].data # b
                          /\ heap'[once_queue[k].data] = heap[once_queue[k].data]
  BY <1>0, <1>1, <1>5, <1>6, <1>7, <1>9
<1>11. heap'[b] = v /\ v # Unallocated
  BY <1>0, <1>1, <1>6, SensorAssumption
<1>12. \A k \in Pending' : heap'[once_queue'[k].data] # Unallocated
  BY <1>5, <1>7, <1>8, <1>10, <1>11
<1>13. ASSUME NEW j \in Pending', NEW k \in Pending', once_queue'[j].data = once_queue'[k].data
       PROVE  j = k
  BY <1>5, <1>7, <1>8, <1>10, <1>13
<1>14. QED
  BY <1>2, <1>5, <1>12, <1>13

\* Every step, of whichever context, keeps the queue's blocks allocated and apart.
LEMMA NextBlockInv == TypeInv /\ BlockInv /\ [Next]_vars => BlockInv'
<1> SUFFICES ASSUME TypeInv, BlockInv, [Next]_vars PROVE BlockInv'
  OBVIOUS
<1>0. /\ pc \in [Context -> Point] /\ job \in [Context -> Job] /\ job["timer"] \in Job
      /\ once_queue \in Seq(Entry)
  BY DEF TypeInv, TypeOK, Context
<1>1. CASE MainStep
  BY <1>1, KeepBlocks DEF MainStep, AddSensor, RemoveSensor, RemoveSensorTag, RemoveFirstOf,
     memory, control, history
<1>2. CASE Poll \/ ClearTimeout \/ ClearResponse
  BY <1>0, <1>2, KeepBlocks DEF Poll, PollTimeout, ClearTimeout, ClearResponse, statics, memory,
     history, Goto, MainRuns, Context
<1>3. ASSUME NEW c \in Context, UpdateStep(c) PROVE BlockInv'
  <2>1. /\ UNCHANGED <<once_queue, heap, corrupt, raced, repeated>> /\ pc[c] \in UpdatePoint
        /\ \A d \in Context \ {c} : pc'[d] = pc[d] /\ job'[d] = job[d]
        /\ pc'[c] \in UpdatePoint \cup {"idle"}
    BY <1>0, <1>3 DEF UpdateStep, EntryStep, EntryHead, EntryLength, EntryCopy, EntrySizing,
       EntryWrite, EntryFails, LoopEnd, Publish, Goto,
       Untouched, memory, history, UpdatePoint, EntryPoint
  <2>2. QED
    BY <2>1, KeepBlocks DEF Context, UpdatePoint, EntryPoint
<1>4. CASE LatchIndex
  <2>1. /\ UNCHANGED <<once_queue, heap, corrupt, raced, repeated>>
        /\ pc["timer"] = "latch" /\ pc'["timer"] = "free"
        /\ job'["timer"] = [job["timer"] EXCEPT !.i = 1]
    BY <1>0, <1>4 DEF LatchIndex, Goto, memory, history, Context
  <2>2. job'["timer"].i = 1
    BY <1>0, <2>1 DEF Job
  <2>3. \A k \in DOMAIN once_queue : k \in Nat /\ k >= 1
    BY <1>0
  <2>4. Pending' = Pending
    BY <2>1, <2>2, <2>3 DEF Pending
  <2>5. QED
    BY <2>1, <2>2, <2>3, <2>4 DEF BlockInv, QueueOwnsBlocks, FreedInv
<1>5. CASE FreeEntry
  BY <1>5, FreeEntryBlocks
<1>6. CASE ResetIndex
  <2>1. /\ UNCHANGED <<heap, corrupt, raced, repeated>> /\ once_queue' = <<>>
        /\ pc'["timer"] = "idle"
    BY <1>0, <1>6 DEF ResetIndex, Goto, memory, history, Context
  <2>2. Pending' = {}
    BY <2>1 DEF Pending
  <2>3. QED
    BY <2>1, <2>2 DEF BlockInv, QueueOwnsBlocks, FreedInv
<1>7. CASE Report
  <2>1. PICK s \in OnceSensor, v \in Value :
           RepeatReport(s, v) \/ NewReport(s, v) \/ ReportFaults(s, v)
    BY <1>7 DEF Report
  <2>2. CASE RepeatReport(s, v)
    BY <2>2 DEF RepeatReport, BlockInv, QueueOwnsBlocks, FreedInv
  <2>3. CASE NewReport(s, v)
    BY <2>3, NewReportBlocks
  <2>4. CASE ReportFaults(s, v)
    <3>1. /\ UNCHANGED <<once_queue, heap, corrupt, raced, repeated>> /\ pc'["timer"] = pc["timer"]
          /\ job'["timer"] = [job["timer"] EXCEPT !.disturbed = @ \/ Disturbs]
      BY <1>0, <2>4 DEF ReportFaults, Goto, memory, history, Context
    <3>2. job'["timer"].i = job["timer"].i
      BY <1>0, <3>1 DEF Job
    <3>3. QED
      BY <3>1, <3>2, KeepBlocks
  <2>5. QED
    BY <2>1, <2>2, <2>3, <2>4
<1>8. CASE UNCHANGED vars
  BY <1>8, KeepBlocks DEF vars, statics, memory, control, history
<1>9. QED
  BY <1>1, <1>2, <1>3, <1>4, <1>5, <1>6, <1>7, <1>8 DEF Next, TimeoutStep, Context

\* The one-time queue owns its blocks, at every step of the timeout handler (sensor_handler.c).
THEOREM AlwaysBlockInv == Spec => []BlockInv
<1>1. Init => BlockInv
  <2> SUFFICES ASSUME Init PROVE BlockInv
    OBVIOUS
  <2>1. pc["timer"] = "idle" /\ once_queue = <<>> /\ corrupt = FALSE
    BY DEF Init, Context
  <2>2. Pending = {}
    BY <2>1 DEF Pending
  <2>3. QED
    BY <2>1, <2>2 DEF BlockInv, QueueOwnsBlocks, FreedInv
<1>2. QED
  BY <1>1, NextBlockInv, AlwaysTypeInv, PTL DEF Spec

\* The timeout handler never frees a block that is free or that another entry
\* still uses, whatever reports of new tags preempt it.
THEOREM EntriesOwnTheirBlocks == Spec => []QueueOwnsBlocks
<1>1. BlockInv => QueueOwnsBlocks
  BY DEF BlockInv
<1>2. QED
  BY <1>1, AlwaysBlockInv, PTL

\* A block is lost only through a repeated tag or a report that came while the
\* timeout handler was running.
THEOREM BlocksAreNotLost == Spec => NoLeak
<1>1. ASSUME TypeInv, BlockInv, [Next]_vars, ~repeated', ~raced PROVE Leaked' \subseteq Leaked
  <2>0. /\ heap \in [Block -> Value \cup {Unallocated}] /\ once_queue \in Seq(Entry)
        /\ \A k \in DOMAIN once_queue : once_queue[k].data \in Block
    BY <1>1, EntryBlock DEF TypeInv, TypeOK
  <2>1. CASE UNCHANGED <<heap, once_queue>>
    BY <2>1 DEF Leaked
  <2>2. CASE FreeEntry
    <3>1. /\ once_queue' = once_queue
          /\ \A b \in Block : heap'[b] = heap[b] \/ heap'[b] = Unallocated
      BY <2>0, <2>2 DEF FreeEntry, Freed, memory, statics
    <3>2. QED
      BY <3>1 DEF Leaked
  <2>3. CASE ResetIndex
    <3>1. once_queue' = <<>> /\ heap' = heap /\ repeated' = repeated /\ pc["timer"] = "reset"
      BY <2>3 DEF ResetIndex, memory, history
    <3>2. job["timer"].i \in Nat /\ Len(once_queue) \in Nat /\ DOMAIN once_queue = 1..Len(once_queue)
      BY <1>1, <2>0 DEF TypeInv, TypeOK, Job, Context
    <3>3. \A k \in DOMAIN once_queue : heap[once_queue[k].data] = Unallocated
      BY <1>1, <3>1, <3>2 DEF BlockInv, FreedInv
    <3>4. QED
      BY <3>1, <3>3 DEF Leaked
  <2>4. ASSUME NEW s \in OnceSensor, NEW v \in Value, NewReport(s, v) PROVE Leaked' \subseteq Leaked
    <3>1. PICK b \in Block : /\ heap' = [heap EXCEPT ![b] = v]
                             /\ once_queue' = Append(once_queue, [sensor |-> s, data |-> b])
      BY <2>4 DEF NewReport, Available
    <3>2. /\ DOMAIN once_queue' = 1..(Len(once_queue) + 1) /\ DOMAIN once_queue = 1..Len(once_queue)
          /\ \A k \in DOMAIN once_queue : once_queue'[k] = once_queue[k]
          /\ once_queue'[Len(once_queue) + 1].data = b /\ Len(once_queue) \in Nat
      BY <2>0, <3>1
    <3>3. \A a \in Block \ {b} : heap'[a] = heap[a]
      BY <2>0, <3>1
    <3>4. /\ b \in {once_queue'[k].data : k \in DOMAIN once_queue'}
          /\ {once_queue[k].data : k \in DOMAIN once_queue}
                \subseteq {once_queue'[k].data : k \in DOMAIN once_queue'}
      BY <3>2
    <3>5. QED
      BY <3>3, <3>4 DEF Leaked
  <2>5. QED
    BY <1>1, <2>1, <2>2, <2>3, <2>4 DEF Next, vars, statics, memory, MainStep, AddSensor,
       RemoveSensor, RemoveSensorTag, RemoveFirstOf, Poll, PollTimeout, UpdateStep, EntryStep,
       EntryHead, EntryLength, EntryCopy, EntrySizing, EntryWrite, EntryFails, LoopEnd, Publish, Untouched, ClearTimeout, TimeoutStep,
       ClearResponse, LatchIndex, Report, RepeatReport, ReportFaults
<1>2. TypeInv /\ BlockInv /\ [Next]_vars => [~repeated' /\ ~raced => Leaked' \subseteq Leaked]_vars
  BY <1>1
<1>3. QED
  BY <1>2, AlwaysTypeInv, AlwaysBlockInv, PTL DEF Spec, NoLeak

-----------------------------------------------------------------------------
(* What an update encodes.                                                  *)

\* The places of the listed sensors that are whole.
Whole(items) == {n \in Listed(items) : ~items[n].torn}

\* While an update goes through the list, there is a whole entry for each node it has passed.
CountInv ==
    \A c \in Context : pc[c] \in UpdatePoint =>
        /\ job[c].source = "list" => /\ job[c].i <= Len(JobList(c)) + 1
                                     /\ Cardinality(Whole(job[c].stream.items)) = job[c].i - 1
        /\ job[c].source = "once" \/ pc[c] = "publish" =>
              Cardinality(Whole(job[c].stream.items)) = Len(JobList(c))

\* What an update should encode for a node.
ListItem(c, k) == [source |-> "list", torn |-> FALSE, type |-> SensorTag[JobList(c)[k]],
                   data |-> reading[JobList(c)[k]]]

\* The first n nodes are encoded, and no other.
EncodedUpTo(c, n) ==
    /\ Listed(job[c].stream.items) = 1..n
    /\ \A k \in 1..n : job[c].stream.items[k] = ListItem(c, k)

Ordered(c) ==
    /\ job[c].source = "list" => Len(job[c].stream.items) = job[c].i - 1 /\ EncodedUpTo(c, job[c].i - 1)
    /\ job[c].source = "once" \/ pc[c] = "publish" => EncodedUpTo(c, Len(JobList(c)))

\* The bytes a message of a sensor takes.
EntrySize(s) == MessageSize([type |-> SensorTag[s], size |-> DataSize[s]])

\* The loop stays at a node that does not fit.
Stuck(c) ==
    /\ job[c].source = "list" /\ job[c].i <= Len(JobList(c)) /\ pc[c] \notin {"write", "publish"}
    /\ Prefix(EntrySize(EntrySensor(c))) + EntrySize(EntrySensor(c)) > Room(job[c].stream)

\* The message is that of the node the loop is at, as far as it is set.
MessageInv(c) ==
    job[c].source = "list" =>
        /\ pc[c] \in EntryPoint => sensor_data_pb.type = SensorTag[EntrySensor(c)]
        /\ pc[c] \in EntryPoint \ {"size"} => sensor_data_pb.size = DataSize[EntrySensor(c)]
        /\ pc[c] \in {"sizing", "write"} => sensor_data_pb.data = EntryData(c)
        /\ pc[c] = "write" => job[c].length = EntrySize(EntrySensor(c))

\* A report interrupts the update of a poll; one that is not interrupted has encoded the nodes it
\* has passed, or is stuck.
OrderInv ==
    /\ pc["gpiote"] # "idle" /\ pc["timer"] \in UpdatePoint => job["timer"].disturbed
    /\ \A c \in Context : pc[c] \in UpdatePoint /\ ~job[c].disturbed =>
        (Ordered(c) \/ Stuck(c)) /\ MessageInv(c)

-----------------------------------------------------------------------------
(* Encodings.                                                               *)

\* An item more in an encoding.
LEMMA ItemMore ==
    ASSUME NEW items \in Seq(Item), NEW item \in Item
    PROVE  LET new == Append(items, item)
               n   == Len(items) + 1
           IN  /\ n \in Nat \ {0} /\ Len(new) = n /\ new[n] = item /\ \A k \in 1..Len(items) : new[k] = items[k]
               /\ Listed(items) \subseteq 1..Len(items)
               /\ Listed(new) = IF item.source = "list" THEN Listed(items) \cup {n} ELSE Listed(items)
               /\ Cardinality(Whole(new)) = Cardinality(Whole(items)) +
                    (IF item.source = "list" /\ ~item.torn THEN 1 ELSE 0)
<1> DEFINE new == Append(items, item)
           n   == Len(items) + 1
<1>1. /\ Len(items) \in Nat /\ DOMAIN items = 1..Len(items) /\ Len(new) = n /\ DOMAIN new = 1..n
      /\ new[n] = item /\ \A k \in 1..Len(items) : new[k] = items[k]
  OBVIOUS
<1> HIDE DEF new
<1>2. Listed(items) \subseteq 1..Len(items)
  BY <1>1 DEF Listed
<1>3. Listed(new) = IF item.source = "list" THEN Listed(items) \cup {n} ELSE Listed(items)
  BY <1>1 DEF Listed
<1>4. Whole(new) = IF item.source = "list" /\ ~item.torn THEN Whole(items) \cup {n} ELSE Whole(items)
  BY <1>1, <1>2, <1>3 DEF Whole
<1>5. IsFiniteSet(Whole(items)) /\ n \notin Whole(items)
  <2>1. Whole(items) \subseteq 1..Len(items) /\ n \notin 1..Len(items)
    BY <1>1, <1>2 DEF Whole
  <2>2. IsFiniteSet(1..Len(items))
    BY <1>1, FS_Interval
  <2> QED BY <2>1, <2>2, FS_Subset
<1>6. Cardinality(Whole(items)) \in Nat /\ Cardinality(Whole(items) \cup {n}) = Cardinality(Whole(items)) + 1
  BY <1>5, FS_AddElement, FS_CardinalityType
<1> QED BY <1>1, <1>2, <1>3, <1>4, <1>6 DEF new

\* A loop at the end of its list counts all of it.
LEMMA ListEnds ==
    ASSUME TypeInv, NEW c \in Context
    PROVE  /\ Len(JobList(c)) \in Nat /\ DOMAIN JobList(c) = 1..Len(JobList(c))
           /\ job[c] \in Job /\ job[c].i \in Nat \ {0} /\ job[c].stream \in Stream
           /\ job[c].stream.items \in Seq(Item) /\ job[c].stream.bytes \in Nat
           /\ job[c].source \in {"list", "once"}
           /\ job[c].source = "list" => (MoreEntries(c) <=> job[c].i <= Len(JobList(c)))
  BY DEF TypeInv, TypeOK, Job, JobList, Stream, MoreEntries

\* A step of an update leaves the other one alone, and the lists and readings.
LEMMA UpdateFrame ==
    ASSUME TypeInv, NEW c \in Context, UpdateStep(c)
    PROVE  /\ Runs(c) /\ pc[c] \in UpdatePoint
           /\ UNCHANGED <<sensor_list, reading, once_queue, heap>>
           /\ \A d \in Context : d # c => pc'[d] = pc[d] /\ job'[d] = job[d]
<1>1. Runs(c) /\ pc[c] \in UpdatePoint /\ UNCHANGED <<sensor_list, reading, once_queue, heap>>
  BY DEF UpdateStep, EntryStep, EntryHead, EntryLength, EntryCopy, EntrySizing, EntryWrite, LoopEnd, Publish,
         Untouched, UpdatePoint, EntryPoint, memory
<1>2. \A d \in Context : d # c => pc'[d] = pc[d] /\ job'[d] = job[d]
  BY DEF UpdateStep, EntryStep, EntryHead, EntryLength, EntryCopy, EntrySizing, EntryWrite, EntryFails, LoopEnd,
         Publish, Goto, TypeInv, TypeOK
<1> QED BY <1>1, <1>2

\* An entry that fails leaves a torn item and the loop at the same node.
LEMMA Fails ==
    ASSUME TypeInv, NEW c \in Context, NEW n \in Nat, EntryFails(c, n)
    PROVE  LET j == job[c]
               k == job'[c]
               item == [source |-> j.source, torn |-> TRUE, type |-> 0, data |-> Unallocated]
           IN  /\ pc'[c] = "head" /\ item \in Item
               /\ k.type = j.type /\ k.source = j.source /\ k.disturbed = j.disturbed
               /\ k.i = IF j.source = "list" THEN j.i ELSE j.i + 1
               /\ k.stream.items = Append(j.stream.items, item) /\ k.stream.bytes = j.stream.bytes + n
<1> DEFINE j == job[c]
           item == [source |-> j.source, torn |-> TRUE, type |-> 0, data |-> Unallocated]
<1>1. /\ pc'[c] = "head"
      /\ job'[c] = [j EXCEPT !.stream = Torn(j.stream, j.source, n),
                             !.i = IF j.source = "list" THEN j.i ELSE j.i + 1]
  BY DEF EntryFails, Goto, TypeInv, TypeOK
<1>2. j \in Job /\ item \in Item
  BY ListEnds DEF Item
<1>3. Torn(j.stream, j.source, n) = [items |-> Append(j.stream.items, item), bytes |-> j.stream.bytes + n]
  BY DEF Torn
<1> DEFINE stream == Torn(j.stream, j.source, n)
           i == IF j.source = "list" THEN j.i ELSE j.i + 1
<1>4. /\ job'[c].stream = stream /\ job'[c].i = i
      /\ job'[c].type = j.type /\ job'[c].source = j.source /\ job'[c].disturbed = j.disturbed
  <2> HIDE DEF stream, i
  <2>1. job'[c] = [j EXCEPT !.stream = stream, !.i = i]
    BY <1>1 DEF stream, i
  <2> QED BY <1>2, <2>1 DEF Job
<1>5. stream.items = Append(j.stream.items, item) /\ stream.bytes = j.stream.bytes + n
  <2> HIDE DEF item
  <2> QED BY <1>3
<1> HIDE DEF stream
<1> QED BY <1>1, <1>2, <1>4, <1>5

\* What the first pass and the second leave of an entry that fails.
LEMMA Remains ==
    ASSUME TypeInv, NEW c \in Context
    PROVE  /\ pc[c] = "sizing" => \A length \in Nat : (IF Prefix(length) <= Room(job[c].stream)
                                                       THEN Prefix(length) ELSE 1) \in Nat
           /\ pc[c] = "write" => Prefix(job[c].length) + Written(sensor_data_pb, job[c].length) \in Nat
<1>1. job[c].length \in Nat /\ sensor_data_pb \in Message
  BY DEF TypeInv, TypeOK, Job
<1> QED BY <1>1, PrefixType, WrittenType

\* An entry that is encoded.
LEMMA Encodes ==
    ASSUME TypeInv, NEW c \in Context,
           job' = [job EXCEPT ![c].stream = Encoded(@, job[c].source, sensor_data_pb), ![c].i = @ + 1]
    PROVE  LET j == job[c]
               k == job'[c]
               item == [source |-> j.source, torn |-> FALSE, type |-> sensor_data_pb.type,
                        data |-> sensor_data_pb.data]
           IN  /\ item \in Item /\ k.type = j.type /\ k.source = j.source /\ k.disturbed = j.disturbed
               /\ k.i = j.i + 1 /\ k.stream.items = Append(j.stream.items, item)
<1> DEFINE j == job[c]
           item == [source |-> j.source, torn |-> FALSE, type |-> sensor_data_pb.type,
                    data |-> sensor_data_pb.data]
           bytes == j.stream.bytes + Prefix(MessageSize(sensor_data_pb)) + MessageSize(sensor_data_pb)
<1>1. job'[c] = [j EXCEPT !.stream = Encoded(j.stream, j.source, sensor_data_pb), !.i = j.i + 1]
  BY DEF TypeInv, TypeOK
<1>2. j \in Job /\ item \in Item
  BY ListEnds DEF Item, TypeInv, TypeOK, Message
<1>3. Encoded(j.stream, j.source, sensor_data_pb) = [items |-> Append(j.stream.items, item), bytes |-> bytes]
  BY DEF Encoded
<1> DEFINE stream == Encoded(j.stream, j.source, sensor_data_pb)
<1>4. /\ job'[c].stream = stream /\ job'[c].i = j.i + 1
      /\ job'[c].type = j.type /\ job'[c].source = j.source /\ job'[c].disturbed = j.disturbed
  <2> HIDE DEF stream
  <2>1. job'[c] = [j EXCEPT !.stream = stream, !.i = j.i + 1]
    BY <1>1 DEF stream
  <2> QED BY <1>2, <2>1 DEF Job
<1>5. stream.items = Append(j.stream.items, item)
  <2> HIDE DEF item, bytes
  <2> QED BY <1>3
<1> HIDE DEF stream
<1> QED BY <1>2, <1>4, <1>5

-----------------------------------------------------------------------------
(* Whole entries.                                                           *)

\* Where an update goes, and its job with it.
LEMMA StepOfUpdate ==
    ASSUME TypeInv, NEW c \in Context, UpdateStep(c)
    PROVE  \/ /\ pc[c] = "head" /\ MoreEntries(c) /\ pc'[c] = "size" /\ job'[c] = job[c]
              /\ sensor_data_pb' = [sensor_data_pb EXCEPT !.type = SensorTag[EntrySensor(c)]]
           \/ /\ pc[c] = "head" /\ pc'[c] = "head" /\ job[c].source = "once" /\ job'[c] = [job[c] EXCEPT !.i = @ + 1]
              /\ Room(job[c].stream) = 0
           \/ /\ pc[c] = "size" /\ pc'[c] = "copy" /\ job'[c] = job[c]
              /\ sensor_data_pb' = [sensor_data_pb EXCEPT !.size = DataSize[EntrySensor(c)]]
           \/ /\ pc[c] = "copy" /\ pc'[c] = "sizing" /\ job'[c] = job[c]
              /\ sensor_data_pb' = [sensor_data_pb EXCEPT !.data = EntryData(c)]
           \/ /\ pc[c] = "sizing" /\ pc'[c] = "write" /\ sensor_data_pb' = sensor_data_pb
              /\ job'[c] = [job[c] EXCEPT !.length = MessageSize(sensor_data_pb)]
              /\ Prefix(MessageSize(sensor_data_pb)) + MessageSize(sensor_data_pb) <= Room(job[c].stream)
           \/ /\ pc[c] = "sizing" /\ \E n \in Nat : EntryFails(c, n)
              /\ Prefix(MessageSize(sensor_data_pb)) + MessageSize(sensor_data_pb) > Room(job[c].stream)
           \/ /\ pc[c] = "write" /\ pc'[c] = "head" /\ MessageSize(sensor_data_pb) = job[c].length
              /\ job' = [job EXCEPT ![c].stream = Encoded(@, job[c].source, sensor_data_pb), ![c].i = @ + 1]
           \/ /\ pc[c] = "write" /\ MessageSize(sensor_data_pb) # job[c].length
              /\ \E n \in Nat : EntryFails(c, n)
           \/ /\ pc[c] = "head" /\ ~MoreEntries(c) /\ pc'[c] = "head" /\ job[c].source = "list"
              /\ job'[c] = [job[c] EXCEPT !.source = "once", !.i = 1]
           \/ pc[c] = "head" /\ ~MoreEntries(c) /\ pc'[c] = "publish" /\ job'[c] = job[c]
           \/ pc[c] = "publish" /\ pc'[c] = "idle"
<1>1. pc \in [Context -> Point] /\ job \in [Context -> Job] /\ MessageSize(sensor_data_pb) \in Nat
  BY SizeType DEF TypeInv, TypeOK
<1>2. CASE EntryHead(c)
  BY <1>1, <1>2 DEF EntryHead, Goto
<1>3. CASE EntryLength(c)
  BY <1>1, <1>3 DEF EntryLength, Goto
<1>4. CASE EntryCopy(c)
  BY <1>1, <1>4 DEF EntryCopy, Goto
<1>5. CASE EntrySizing(c)
  <2> DEFINE length == MessageSize(sensor_data_pb)
             n == IF Prefix(length) <= Room(job[c].stream) THEN Prefix(length) ELSE 1
  <2>1. pc[c] = "sizing" /\ n \in Nat
    BY <1>1, <1>5, Remains DEF EntrySizing
  <2>2. CASE /\ Prefix(length) + length <= Room(job[c].stream) /\ pc' = [pc EXCEPT ![c] = "write"]
             /\ job' = [job EXCEPT ![c].length = length] /\ sensor_data_pb' = sensor_data_pb
    <3>1. pc'[c] = "write" /\ job'[c] = [job[c] EXCEPT !.length = length]
      BY <1>1, <2>2
    <3> QED BY <2>1, <2>2, <3>1
  <2>3. CASE Prefix(length) + length > Room(job[c].stream) /\ EntryFails(c, n)
    <3>1. \E m \in Nat : EntryFails(c, m)
      <4> HIDE DEF n
      <4> QED BY <2>1, <2>3
    <3> QED BY <2>1, <2>3, <3>1
  <2> QED BY <1>5, <2>2, <2>3 DEF EntrySizing, Goto
<1>6. CASE EntryWrite(c)
  <2> DEFINE n == Prefix(job[c].length) + Written(sensor_data_pb, job[c].length)
  <2>1. pc[c] = "write" /\ n \in Nat
    BY <1>6, Remains DEF EntryWrite
  <2>2. CASE MessageSize(sensor_data_pb) # job[c].length /\ EntryFails(c, n)
    <3>1. \E m \in Nat : EntryFails(c, m)
      <4> HIDE DEF n
      <4> QED BY <2>1, <2>2
    <3> QED BY <2>1, <2>2, <3>1
  <2> QED BY <1>1, <1>6, <2>1, <2>2 DEF EntryWrite, Goto
<1>7. CASE LoopEnd(c)
  BY <1>1, <1>7 DEF LoopEnd, QueueFollows, Goto
<1>8. CASE Publish(c)
  BY <1>1, <1>8 DEF Publish, Goto
<1> QED BY <1>2, <1>3, <1>4, <1>5, <1>6, <1>7, <1>8 DEF UpdateStep, EntryStep

\* Whole entries are counted by every step of an update, interrupted or not.
LEMMA UpdateCount ==
    ASSUME TypeInv, CountInv, NEW c \in Context, UpdateStep(c)
    PROVE  CountInv'
<1> DEFINE j == job[c]
           k == job'[c]
           n == Len(JobList(c))
           W == Cardinality(Whole(j.stream.items))
<1>1. /\ pc[c] \in UpdatePoint /\ sensor_list' = sensor_list
      /\ \A d \in Context : d # c => pc'[d] = pc[d] /\ job'[d] = job[d]
  BY UpdateFrame
<1>2. ASSUME NEW d \in Context, d # c, pc'[d] \in UpdatePoint
      PROVE  /\ job'[d].source = "list" => /\ job'[d].i <= Len(JobList(d)') + 1
                                           /\ Cardinality(Whole(job'[d].stream.items)) = job'[d].i - 1
             /\ job'[d].source = "once" \/ pc'[d] = "publish" =>
                    Cardinality(Whole(job'[d].stream.items)) = Len(JobList(d)')
  BY <1>1, <1>2 DEF CountInv, JobList
<1>3. /\ n \in Nat /\ j \in Job /\ j.i \in Nat \ {0} /\ j.stream.items \in Seq(Item)
      /\ j.source \in {"list", "once"} /\ (j.source = "list" => (MoreEntries(c) <=> j.i <= n))
  BY ListEnds
<1>4. /\ j.source = "list" => j.i <= n + 1 /\ W = j.i - 1
      /\ j.source = "once" \/ pc[c] = "publish" => W = n
  BY <1>1 DEF CountInv
<1>5. pc[c] \in EntryPoint => MoreEntries(c)
  BY DEF TypeInv, ControlInv, EntryInv
<1> DEFINE Goal == pc'[c] \in UpdatePoint =>
              /\ k.type = j.type
              /\ k.source = "list" => k.i <= n + 1 /\ Cardinality(Whole(k.stream.items)) = k.i - 1
              /\ k.source = "once" \/ pc'[c] = "publish" => Cardinality(Whole(k.stream.items)) = n
<1>6. ASSUME pc[c] = "head" /\ pc'[c] = "size" /\ k = j
      PROVE  Goal
  BY <1>3, <1>4, <1>6 DEF UpdatePoint
<1>7. ASSUME /\ pc[c] = "head" /\ pc'[c] = "head" /\ j.source = "once" /\ k = [j EXCEPT !.i = @ + 1]
      PROVE  Goal
  BY <1>3, <1>4, <1>7 DEF Job
<1>8. ASSUME pc[c] \in {"size", "copy"} /\ pc'[c] \in {"copy", "sizing"} /\ k = j
      PROVE  Goal
  BY <1>3, <1>4, <1>8 DEF UpdatePoint
<1>9. ASSUME pc[c] = "sizing" /\ pc'[c] = "write" /\ k = [j EXCEPT !.length = MessageSize(sensor_data_pb)]
      PROVE  Goal
  BY <1>3, <1>4, <1>9 DEF Job
<1>10. ASSUME pc[c] \in {"sizing", "write"} /\ \E m \in Nat : EntryFails(c, m)
      PROVE  Goal
  <2> DEFINE item == [source |-> j.source, torn |-> TRUE, type |-> 0, data |-> Unallocated]
  <2>1. /\ pc'[c] = "head" /\ item \in Item /\ k.type = j.type /\ k.source = j.source
        /\ k.i = IF j.source = "list" THEN j.i ELSE j.i + 1
        /\ k.stream.items = Append(j.stream.items, item)
    BY <1>10, Fails
  <2>2. item.torn
    OBVIOUS
  <2> HIDE DEF item
  <2>3. Cardinality(Whole(k.stream.items)) = W + 0
    BY <1>3, <2>1, <2>2, ItemMore
  <2>4. W \in Nat
    BY <1>3, <1>4
  <2> HIDE DEF k, j, n, W
  <2> QED BY <1>3, <1>4, <2>1, <2>3, <2>4
<1>11. ASSUME /\ pc[c] = "write" /\ pc'[c] = "head"
            /\ job' = [job EXCEPT ![c].stream = Encoded(@, job[c].source, sensor_data_pb), ![c].i = @ + 1]
      PROVE  Goal
  <2> DEFINE item == [source |-> j.source, torn |-> FALSE, type |-> sensor_data_pb.type,
                      data |-> sensor_data_pb.data]
  <2>1. /\ item \in Item /\ k.type = j.type /\ k.source = j.source /\ k.i = j.i + 1
        /\ k.stream.items = Append(j.stream.items, item)
    BY <1>11, Encodes
  <2>2. ~item.torn /\ item.source = j.source
    OBVIOUS
  <2> HIDE DEF item
  <2>3. Cardinality(Whole(k.stream.items)) = W + (IF j.source = "list" THEN 1 ELSE 0)
    BY <1>3, <2>1, <2>2, ItemMore
  <2>4. W \in Nat /\ MoreEntries(c)
    BY <1>3, <1>4, <1>5, <1>11 DEF EntryPoint
  <2> HIDE DEF k, j, n, W
  <2> QED BY <1>3, <1>4, <1>11, <2>1, <2>3, <2>4
<1>12. ASSUME /\ pc[c] = "head" /\ ~MoreEntries(c) /\ pc'[c] = "head" /\ j.source = "list"
            /\ k = [j EXCEPT !.source = "once", !.i = 1]
      PROVE  Goal
  <2>1. k.source = "once" /\ k.type = j.type /\ k.stream = j.stream
    BY <1>3, <1>12 DEF Job
  <2> QED BY <1>3, <1>4, <1>12, <2>1
<1>13. ASSUME pc[c] = "head" /\ ~MoreEntries(c) /\ pc'[c] = "publish" /\ k = j
      PROVE  Goal
  BY <1>3, <1>4, <1>13
<1>14. ASSUME pc'[c] = "idle"
      PROVE  Goal
  BY <1>14 DEF UpdatePoint, EntryPoint
<1>15. Goal
  <2> HIDE DEF Goal, j, k
  <2> QED BY <1>6, <1>7, <1>8, <1>9, <1>10, <1>11, <1>12, <1>13, <1>14, StepOfUpdate DEF j, k
<1>16. pc'[c] \in UpdatePoint => JobList(c)' = JobList(c)
  BY <1>1, <1>15 DEF JobList
<1>17. pc'[c] \in UpdatePoint =>
          /\ k.source = "list" => /\ k.i <= Len(JobList(c)') + 1
                                  /\ Cardinality(Whole(k.stream.items)) = k.i - 1
          /\ k.source = "once" \/ pc'[c] = "publish" => Cardinality(Whole(k.stream.items)) = Len(JobList(c)')
  BY <1>15, <1>16
<1> QED BY <1>2, <1>17 DEF CountInv

\* A new update has encoded nothing.
LEMMA NothingYet ==
    ASSUME NEW u \in UpdateType
    PROVE  LET j == NewJob(u) IN
           /\ j.type = u /\ j.source = "list" /\ j.i = 1 /\ j.stream.items = <<>> /\ ~j.disturbed
           /\ Listed(j.stream.items) = {} /\ Cardinality(Whole(j.stream.items)) = 0
<1>1. Listed(<<>>) = {} /\ Whole(<<>>) = {}
  BY DEF Listed, Whole
<1> QED BY <1>1, FS_EmptySet DEF NewJob, EmptyStream

\* The other steps: of main, of the timeout handler, the start of an update.
LEMMA StepOfOthers ==
    ASSUME TypeInv, Next
    PROVE  \/ \E c \in Context : UpdateStep(c)
           \* Both interrupts are idle, and stay so, or the timeout handler runs.
           \/ pc["gpiote"] = "idle" /\ pc'["gpiote"] = "idle" /\ pc'["timer"] \notin UpdatePoint
           \* An update begins after a poll, or with a report.
           \/ /\ pc["gpiote"] = "idle" /\ pc'["gpiote"] = "idle" /\ pc'["timer"] = "head"
              /\ \E u \in UpdateType : job'["timer"] = NewJob(u)
           \/ /\ pc["gpiote"] = "idle" /\ pc'["timer"] = pc["timer"] /\ sensor_list' = sensor_list
              /\ pc'["gpiote"] = "head" => job'["gpiote"] = NewJob("advertising")
              /\ pc'["gpiote"] \in {"head", "fault", "idle"}
              /\ job'["timer"] = [job["timer"] EXCEPT !.disturbed = @ \/ Disturbs]
              /\ pc'["gpiote"] = "head" => raced' = (pc["timer"] \in TimeoutPoint)
<1>1. pc \in [Context -> Point] /\ job \in [Context -> Job] /\ Context = {"timer", "gpiote"}
  BY DEF TypeInv, TypeOK, Context
<1>2. CASE MainStep
  BY <1>1, <1>2 DEF MainStep, AddSensor, RemoveSensor, RemoveSensorTag, RemoveFirstOf, MainRuns, control,
     UpdatePoint, EntryPoint
<1>3. CASE Poll
  BY <1>1, <1>3 DEF Poll, PollTimeout, MainRuns, Goto
<1>4. CASE ClearTimeout
  BY <1>1, <1>4 DEF ClearTimeout, MainRuns, Goto, UpdatePoint, EntryPoint
<1>5. CASE TimeoutStep
  <2>1. /\ pc["gpiote"] = "idle" /\ pc["timer"] \in TimeoutPoint
        /\ pc' = pc \/ \E point \in TimeoutPoint \cup {"idle"} : pc' = [pc EXCEPT !["timer"] = point]
    BY <1>5 DEF TimeoutStep, ClearResponse, LatchIndex, FreeEntry, ResetIndex, Runs, Goto, TimeoutPoint
  <2> QED BY <1>1, <2>1 DEF TimeoutPoint, UpdatePoint, EntryPoint
<1>6. CASE Report
  <2>1. PICK s \in OnceSensor, v \in Value : RepeatReport(s, v) \/ NewReport(s, v) \/ ReportFaults(s, v)
    BY <1>6 DEF Report
  <2> QED BY <1>1, <2>1 DEF RepeatReport, NewReport, ReportFaults, GpioteEnters, Goto
<1> QED BY <1>1, <1>2, <1>3, <1>4, <1>5, <1>6 DEF Next

\* Whole entries are counted by every step.
LEMMA NextCount == TypeInv /\ CountInv /\ [Next]_vars => CountInv'
<1> SUFFICES ASSUME TypeInv, CountInv, [Next]_vars PROVE CountInv'
  OBVIOUS
<1>1. pc \in [Context -> Point] /\ job \in [Context -> Job] /\ job["timer"] \in Job /\ TypeInv'
  BY NextTypeInv DEF TypeInv, TypeOK, Context
<1>2. CASE UNCHANGED vars
  BY <1>2 DEF vars, statics, control, CountInv, JobList
<1>3. CASE pc'["gpiote"] = "idle" /\ pc'["timer"] \notin UpdatePoint
  BY <1>3 DEF CountInv, Context, UpdatePoint, EntryPoint
<1>4. ASSUME NEW c \in Context, pc'[c] = "head", NEW u \in UpdateType, job'[c] = NewJob(u)
      PROVE  /\ job'[c].source = "list" => /\ job'[c].i <= Len(JobList(c)') + 1
                                           /\ Cardinality(Whole(job'[c].stream.items)) = job'[c].i - 1
             /\ job'[c].source = "once" \/ pc'[c] = "publish" =>
                    Cardinality(Whole(job'[c].stream.items)) = Len(JobList(c)')
  <2>1. Len(JobList(c)') \in Nat
    BY <1>1, <1>4 DEF TypeInv, TypeOK, JobList, Job
  <2> QED BY <1>4, <2>1, NothingYet
<1>5. CASE /\ pc'["gpiote"] = "idle" /\ pc'["timer"] = "head"
           /\ \E u \in UpdateType : job'["timer"] = NewJob(u)
  BY <1>4, <1>5 DEF CountInv, Context, UpdatePoint, EntryPoint
<1>6. CASE /\ pc["gpiote"] = "idle" /\ pc'["timer"] = pc["timer"] /\ sensor_list' = sensor_list
           /\ pc'["gpiote"] = "head" => job'["gpiote"] = NewJob("advertising")
           /\ pc'["gpiote"] \in {"head", "fault", "idle"}
           /\ job'["timer"] = [job["timer"] EXCEPT !.disturbed = @ \/ Disturbs]
  <2>1. /\ job'["timer"].type = job["timer"].type /\ job'["timer"].source = job["timer"].source
        /\ job'["timer"].i = job["timer"].i /\ job'["timer"].stream = job["timer"].stream
    BY <1>1, <1>6 DEF Job
  <2>2. ASSUME NEW c \in Context, pc'[c] \in UpdatePoint
        PROVE  /\ job'[c].source = "list" => /\ job'[c].i <= Len(JobList(c)') + 1
                                             /\ Cardinality(Whole(job'[c].stream.items)) = job'[c].i - 1
               /\ job'[c].source = "once" \/ pc'[c] = "publish" =>
                      Cardinality(Whole(job'[c].stream.items)) = Len(JobList(c)')
    <3>1. CASE c = "timer"
      BY <1>6, <2>1, <2>2, <3>1 DEF CountInv, JobList
    <3>2. CASE c = "gpiote"
      <4>1. pc'[c] = "head" /\ "advertising" \in UpdateType /\ job'[c] = NewJob("advertising")
        BY <1>6, <2>2, <3>2 DEF UpdatePoint, EntryPoint, UpdateType
      <4> QED BY <1>4, <4>1
    <3> QED BY <3>1, <3>2 DEF Context
  <2> QED BY <2>2 DEF CountInv
<1> QED BY <1>2, <1>3, <1>5, <1>6, StepOfOthers, UpdateCount

\* Interrupted or not, an update that ends has one whole entry for each listed sensor.
THEOREM WholeEntryForEach == Spec => []OneEntryPerListed
<1>1. Init => CountInv
  BY DEF Init, CountInv, UpdatePoint, EntryPoint
<1>2. CountInv => OneEntryPerListed
  BY DEF CountInv, OneEntryPerListed, Whole, UpdatePoint
<1> QED BY <1>1, <1>2, NextCount, AlwaysTypeInv, PTL DEF Spec

-----------------------------------------------------------------------------
(* The order of the entries.                                                *)

\* What the bytes of a message depend on.
LEMMA SizeOfEntry ==
    ASSUME TypeInv, NEW s \in Sensor, NEW message \in Message,
           message.type = SensorTag[s], message.size = DataSize[s]
    PROVE  MessageSize(message) = EntrySize(s) /\ EntrySize(s) \in Nat
  BY SizeType DEF MessageSize, EntrySize

\* The sensor a loop is at.
LEMMA SensorOfNode ==
    ASSUME TypeInv, NEW c \in Context, job[c].source = "list", job[c].i <= Len(JobList(c))
    PROVE  EntrySensor(c) \in Sensor /\ EntrySensor(c) = JobList(c)[job[c].i] /\ EntryData(c) = reading[EntrySensor(c)]
  BY DEF TypeInv, TypeOK, Job, JobList, EntrySensor, EntryData

\* A step that leaves the lists and the readings alone, and the node an update is at.
LEMMA SameNode ==
    ASSUME NEW c \in Context, sensor_list' = sensor_list, reading' = reading, job'[c].type = job[c].type
    PROVE  /\ JobList(c)' = JobList(c)
           /\ \A q : ListItem(c, q)' = ListItem(c, q)
           /\ job[c].source = "list" /\ job'[c].source = "list" /\ job'[c].i = job[c].i =>
                 EntrySensor(c)' = EntrySensor(c) /\ EntryData(c)' = EntryData(c)
           /\ job'[c].stream = job[c].stream =>
                 \A q : EncodedUpTo(c, q)' <=> EncodedUpTo(c, q)
<1>1. JobList(c)' = JobList(c)
  BY DEF JobList
<1>2. \A q : ListItem(c, q)' = ListItem(c, q)
  BY <1>1 DEF ListItem
<1> QED BY <1>1, <1>2 DEF EntrySensor, EntryData, EncodedUpTo

\* An entry of the queue follows those of the list.
LEMMA OnceItemKeepsList ==
    ASSUME TypeInv, NEW c \in Context, Ordered(c), job[c].source = "once",
           sensor_list' = sensor_list, reading' = reading, job'[c].type = job[c].type, job'[c].source = "once",
           NEW item \in Item, item.source = "once", job'[c].stream.items = Append(job[c].stream.items, item)
    PROVE  Ordered(c)'
<1> DEFINE items == job[c].stream.items
           new == job'[c].stream.items
           n == Len(JobList(c))
<1>1. n \in Nat /\ items \in Seq(Item) /\ Len(items) \in Nat
  BY ListEnds
<1>2. Listed(items) = 1..n /\ \A q \in 1..n : items[q] = ListItem(c, q)
  BY DEF Ordered, EncodedUpTo
<1>3. Listed(new) = Listed(items) /\ Listed(items) \subseteq 1..Len(items)
  BY <1>1, ItemMore
<1>4. \A q \in 1..Len(items) : new[q] = items[q]
  BY <1>1, ItemMore
<1>5. JobList(c)' = JobList(c) /\ \A q : ListItem(c, q)' = ListItem(c, q)
  BY SameNode
<1> HIDE DEF items, new, n
<1>6. Listed(new) = 1..n /\ \A q \in 1..n : new[q] = ListItem(c, q)
  BY <1>2, <1>3, <1>4
<1>7. Listed(new) = 1..Len(JobList(c)') /\ \A q \in 1..Len(JobList(c)') : new[q] = ListItem(c, q)'
  BY <1>5, <1>6 DEF n
<1> QED BY <1>7 DEF Ordered, EncodedUpTo, new

\* The entries keep their order in every step of an update that is not interrupted.
LEMMA UpdateOrder ==
    ASSUME TypeInv, CountInv, OrderInv, NEW c \in Context, UpdateStep(c), ~job'[c].disturbed, pc'[c] \in UpdatePoint
    PROVE  ((Ordered(c) \/ Stuck(c)) /\ MessageInv(c))'
<1> DEFINE j == job[c]
           k == job'[c]
           n == Len(JobList(c))
           m == sensor_data_pb
           s == EntrySensor(c)
<1>1. /\ pc[c] \in UpdatePoint
      /\ sensor_list' = sensor_list /\ reading' = reading /\ once_queue' = once_queue /\ heap' = heap
  BY UpdateFrame
<1>2. /\ n \in Nat /\ j \in Job /\ j.i \in Nat \ {0} /\ j.stream.items \in Seq(Item) /\ j.stream.bytes \in Nat
      /\ j.source \in {"list", "once"} /\ (j.source = "list" => (MoreEntries(c) <=> j.i <= n))
      /\ m \in Message /\ BLE_GATT_MAX_SIZE \in Nat
  BY ListEnds, SizeAssumption DEF TypeInv, TypeOK
<1>3. pc[c] \in EntryPoint => MoreEntries(c)
  BY DEF TypeInv, ControlInv, EntryInv
<1>4. j.source = "list" => j.i <= n + 1
  BY <1>1 DEF CountInv
<1>5. ((Ordered(c) \/ Stuck(c)) /\ MessageInv(c)) \/ j.disturbed
  BY <1>1 DEF OrderInv
<1>6. j.source = "list" /\ j.i <= n => s \in Sensor /\ s = JobList(c)[j.i] /\ EntryData(c) = reading[s]
  BY SensorOfNode
<1> DEFINE Goal == ((Ordered(c) \/ Stuck(c)) /\ MessageInv(c))'
<1>7. ASSUME k.type = j.type, k.source = j.source, k.i = j.i, k.stream = j.stream, k.disturbed = j.disturbed,
             pc[c] \in UpdatePoint \ {"write", "publish"},
             pc'[c] \in UpdatePoint \ {"head", "write", "publish"}
      PROVE  (Ordered(c) \/ Stuck(c))'
  <2>1. /\ JobList(c)' = JobList(c) /\ (j.source = "list" => EntrySensor(c)' = EntrySensor(c))
        /\ \A q : EncodedUpTo(c, q)' <=> EncodedUpTo(c, q)
    BY <1>1, <1>7, SameNode
  <2>2. CASE Ordered(c)
    BY <1>2, <1>7, <2>1, <2>2 DEF Ordered
  <2>3. CASE Stuck(c)
    BY <1>2, <1>7, <2>1, <2>3 DEF Stuck, Room
  <2> QED BY <1>5, <1>7, <2>2, <2>3
<1>8. ASSUME /\ pc[c] = "head" /\ MoreEntries(c) /\ pc'[c] = "size" /\ k = j
             /\ sensor_data_pb' = [sensor_data_pb EXCEPT !.type = SensorTag[EntrySensor(c)]]
      PROVE  Goal
  <2>1. (Ordered(c) \/ Stuck(c))'
    BY <1>7, <1>8 DEF UpdatePoint, EntryPoint
  <2>2. ASSUME j.source = "list"
        PROVE  sensor_data_pb'.type = SensorTag[EntrySensor(c)']
    BY <1>1, <1>2, <1>8, <2>2, SameNode DEF Message
  <2> QED BY <1>8, <2>1, <2>2 DEF MessageInv
<1>9. ASSUME /\ pc[c] = "head" /\ pc'[c] = "head" /\ j.source = "once" /\ k = [j EXCEPT !.i = @ + 1]
      PROVE  Goal
  <2>1. k.type = j.type /\ k.source = "once" /\ k.stream = j.stream /\ k.disturbed = j.disturbed
    BY <1>2, <1>9 DEF Job
  <2>2. JobList(c)' = JobList(c) /\ \A q : EncodedUpTo(c, q)' <=> EncodedUpTo(c, q)
    BY <1>1, <2>1, SameNode
  <2> QED BY <1>5, <1>9, <2>1, <2>2 DEF Ordered, Stuck, MessageInv
<1>10. ASSUME /\ pc[c] = "size" /\ pc'[c] = "copy" /\ k = j
              /\ sensor_data_pb' = [sensor_data_pb EXCEPT !.size = DataSize[EntrySensor(c)]]
      PROVE  Goal
  <2>1. (Ordered(c) \/ Stuck(c))'
    BY <1>7, <1>10 DEF UpdatePoint, EntryPoint
  <2>2. ASSUME j.source = "list"
        PROVE  /\ sensor_data_pb'.type = SensorTag[EntrySensor(c)']
               /\ sensor_data_pb'.size = DataSize[EntrySensor(c)']
    BY <1>1, <1>2, <1>5, <1>10, <2>2, SameNode DEF Message, MessageInv, EntryPoint
  <2> QED BY <1>10, <2>1, <2>2 DEF MessageInv
<1>11. ASSUME /\ pc[c] = "copy" /\ pc'[c] = "sizing" /\ k = j
              /\ sensor_data_pb' = [sensor_data_pb EXCEPT !.data = EntryData(c)]
      PROVE  Goal
  <2>1. (Ordered(c) \/ Stuck(c))'
    BY <1>7, <1>11 DEF UpdatePoint, EntryPoint
  <2>2. ASSUME j.source = "list"
        PROVE  /\ sensor_data_pb'.type = SensorTag[EntrySensor(c)'] /\ sensor_data_pb'.data = EntryData(c)'
               /\ sensor_data_pb'.size = DataSize[EntrySensor(c)']
    BY <1>1, <1>2, <1>5, <1>11, <2>2, SameNode DEF Message, MessageInv, EntryPoint
  <2> QED BY <1>11, <2>1, <2>2 DEF MessageInv
<1>12. ASSUME j.source = "list", ~j.disturbed, pc[c] \in {"sizing", "write"}
       PROVE  /\ j.i <= n /\ s \in Sensor /\ MessageSize(m) = EntrySize(s) /\ EntrySize(s) \in Nat
              /\ m.type = SensorTag[s] /\ m.size = DataSize[s] /\ m.data = reading[s]
              /\ (pc[c] = "write" => j.length = EntrySize(s))
  <2>1. j.i <= n /\ s \in Sensor
    BY <1>2, <1>3, <1>6, <1>12 DEF EntryPoint
  <2>2. m.type = SensorTag[s] /\ m.size = DataSize[s] /\ m.data = EntryData(c)
    BY <1>5, <1>12 DEF MessageInv, EntryPoint
  <2>3. pc[c] = "write" => j.length = EntrySize(s)
    BY <1>5, <1>12 DEF MessageInv
  <2> QED BY <1>2, <1>6, <1>12, <2>1, <2>2, <2>3, SizeOfEntry
<1>13. ASSUME /\ pc[c] = "sizing" /\ pc'[c] = "write" /\ sensor_data_pb' = sensor_data_pb
              /\ k = [j EXCEPT !.length = MessageSize(sensor_data_pb)]
              /\ Prefix(MessageSize(sensor_data_pb)) + MessageSize(sensor_data_pb) <= Room(j.stream)
      PROVE  Goal
  <2>1. /\ k.type = j.type /\ k.source = j.source /\ k.i = j.i /\ k.stream = j.stream
        /\ k.disturbed = j.disturbed /\ k.length = MessageSize(m)
    BY <1>2, <1>13 DEF Job
  <2>2. /\ JobList(c)' = JobList(c) /\ \A q : EncodedUpTo(c, q)' <=> EncodedUpTo(c, q)
        /\ j.source = "list" => EntrySensor(c)' = EntrySensor(c) /\ EntryData(c)' = EntryData(c)
    BY <1>1, <2>1, SameNode
  <2>3. ~Stuck(c)
    <3> SUFFICES ASSUME Stuck(c) PROVE FALSE
      OBVIOUS
    <3>1. MessageSize(m) = EntrySize(s) /\ EntrySize(s) \in Nat
      BY <1>12, <1>13, <2>1 DEF Stuck
    <3>2. Prefix(EntrySize(s)) + EntrySize(s) > Room(j.stream)
      BY DEF Stuck
    <3>3. Prefix(EntrySize(s)) \in Nat
      BY <3>1, PrefixType
    <3>4. Room(j.stream) \in Int
      BY <1>2 DEF Room
    <3>5. Prefix(EntrySize(s)) + EntrySize(s) <= Room(j.stream)
      BY <1>13, <3>1
    <3> HIDE DEF j, s
    <3> QED BY <3>1, <3>2, <3>3, <3>4, <3>5
  <2>4. Ordered(c)'
    <3>1. Ordered(c)
      BY <1>5, <2>1, <2>3
    <3> QED BY <1>13, <2>1, <2>2, <3>1 DEF Ordered
  <2>5. MessageInv(c)'
    <3> SUFFICES ASSUME k.source = "list" PROVE MessageInv(c)'
      BY DEF MessageInv
    <3>1. /\ k.length = EntrySize(s) /\ m.type = SensorTag[s] /\ m.size = DataSize[s] /\ m.data = reading[s]
          /\ EntryData(c) = reading[s]
      BY <1>6, <1>12, <1>13, <2>1
    <3>2. /\ sensor_data_pb'.type = SensorTag[EntrySensor(c)'] /\ sensor_data_pb'.size = DataSize[EntrySensor(c)']
          /\ sensor_data_pb'.data = EntryData(c)' /\ job'[c].length = EntrySize(EntrySensor(c)')
      BY <1>13, <2>1, <2>2, <3>1
    <3> QED BY <1>13, <3>2 DEF MessageInv, EntryPoint, EntrySize
  <2> QED BY <2>4, <2>5
<1>14. ASSUME pc[c] \in {"sizing", "write"} /\ \E q \in Nat : EntryFails(c, q),
              \/ j.source = "once"
              \/ /\ pc[c] = "sizing"
                 /\ Prefix(MessageSize(sensor_data_pb)) + MessageSize(sensor_data_pb) > Room(j.stream)
      PROVE  Goal
  <2> DEFINE item == [source |-> j.source, torn |-> TRUE, type |-> 0, data |-> Unallocated]
  <2>1. PICK q \in Nat : EntryFails(c, q)
    BY <1>14
  <2>2. /\ pc'[c] = "head" /\ item \in Item /\ k.type = j.type /\ k.source = j.source /\ k.disturbed = j.disturbed
        /\ k.i = IF j.source = "list" THEN j.i ELSE j.i + 1
        /\ k.stream.items = Append(j.stream.items, item) /\ k.stream.bytes = j.stream.bytes + q
    BY <2>1, Fails
  <2>3. item.source = j.source
    OBVIOUS
  <2> HIDE DEF item
  <2>4. MessageInv(c)'
    BY <2>2 DEF MessageInv, EntryPoint
  <2>5. CASE j.source = "once"
    <3>1. Ordered(c)
      BY <1>5, <2>2, <2>5 DEF Stuck
    <3>2. Ordered(c)'
      BY <1>1, <2>2, <2>3, <2>5, <3>1, OnceItemKeepsList
    <3> QED BY <2>4, <3>2
  <2>6. CASE j.source = "list"
    <3>1. /\ j.i <= n /\ MessageSize(m) = EntrySize(s) /\ EntrySize(s) \in Nat /\ pc[c] = "sizing"
      BY <1>12, <1>14, <2>2, <2>6
    <3>2. JobList(c)' = JobList(c) /\ EntrySensor(c)' = s
      BY <1>1, <2>2, <2>6, SameNode
    <3>3. Prefix(EntrySize(s)) + EntrySize(s) > Room(k.stream)
      <4>1. Prefix(EntrySize(s)) + EntrySize(s) > BLE_GATT_MAX_SIZE - j.stream.bytes
        BY <1>14, <2>6, <3>1 DEF Room
      <4>2. Prefix(EntrySize(s)) \in Nat
        BY <3>1, PrefixType
      <4>3. Room(k.stream) = BLE_GATT_MAX_SIZE - (j.stream.bytes + q)
        BY <2>2 DEF Room
      <4> HIDE DEF j, k, s
      <4> QED BY <1>2, <3>1, <4>1, <4>2, <4>3
    <3>4. Stuck(c)'
      <4>1. EntrySize(EntrySensor(c)') = EntrySize(s)
        BY <3>2
      <4>2. EntrySize(EntrySensor(c))' = EntrySize(s)
        BY <3>2 DEF EntrySize
      <4> QED BY <2>2, <2>6, <3>1, <3>2, <3>3, <4>2 DEF Stuck, Room, Prefix, VarintLen
    <3> QED BY <2>4, <3>4
  <2> QED BY <1>2, <2>5, <2>6
<1>15. ASSUME pc[c] = "write" /\ MessageSize(sensor_data_pb) # j.length /\ \E q \in Nat : EntryFails(c, q)
       PROVE  j.source = "once"
  <2>1. ~j.disturbed
    BY <1>15, Fails
  <2> QED BY <1>2, <1>12, <1>15, <2>1
<1>16. ASSUME /\ pc[c] = "write" /\ pc'[c] = "head" /\ MessageSize(sensor_data_pb) = j.length
              /\ job' = [job EXCEPT ![c].stream = Encoded(@, job[c].source, sensor_data_pb), ![c].i = @ + 1]
      PROVE  Goal
  <2> DEFINE item == [source |-> j.source, torn |-> FALSE, type |-> sensor_data_pb.type,
                      data |-> sensor_data_pb.data]
             items == j.stream.items
             new == k.stream.items
  <2>1. /\ item \in Item /\ k.type = j.type /\ k.source = j.source /\ k.i = j.i + 1
        /\ k.disturbed = j.disturbed /\ new = Append(items, item)
    BY <1>16, Encodes
  <2>2. MessageInv(c)'
    BY <1>16 DEF MessageInv, EntryPoint
  <2>3. Ordered(c)
    BY <1>5, <1>16, <2>1 DEF Stuck
  <2>4. CASE j.source = "once"
    <3>1. item.source = "once"
      BY <2>4
    <3> HIDE DEF item
    <3>2. Ordered(c)'
      BY <1>1, <2>1, <2>3, <2>4, <3>1, OnceItemKeepsList
    <3> QED BY <2>2, <3>2
  <2>5. CASE j.source = "list"
    <3>1. j.i <= n /\ item = ListItem(c, j.i)
      BY <1>6, <1>12, <1>16, <2>1, <2>5 DEF ListItem
    <3>2. /\ Len(items) = j.i - 1 /\ Listed(items) = 1..(j.i - 1)
          /\ \A q \in 1..(j.i - 1) : items[q] = ListItem(c, q)
      BY <2>3, <2>5 DEF Ordered, EncodedUpTo
    <3>3. item.source = "list"
      BY <2>5
    <3> HIDE DEF item, items, new
    <3>4. /\ Len(new) = Len(items) + 1 /\ new[Len(items) + 1] = item
          /\ \A q \in 1..Len(items) : new[q] = items[q]
          /\ Listed(new) = Listed(items) \cup {Len(items) + 1}
      BY <1>2, <2>1, <3>3, ItemMore DEF items
    <3>5. Len(new) = j.i /\ Listed(new) = 1..j.i /\ \A q \in 1..j.i : new[q] = ListItem(c, q)
      <4> DEFINE i == j.i
      <4>1. /\ i \in Nat \ {0} /\ Len(items) = i - 1 /\ (i - 1) + 1 = i /\ 1..i = 1..(i - 1) \cup {i}
        BY <1>2, <3>2
      <4>2. Len(new) = i /\ Listed(new) = 1..i /\ new[i] = ListItem(c, i)
        BY <3>1, <3>2, <3>4, <4>1
      <4>3. \A q \in 1..(i - 1) : new[q] = ListItem(c, q)
        BY <3>2, <3>4
      <4> HIDE DEF i
      <4>4. \A q \in 1..i : new[q] = ListItem(c, q)
        BY <4>1, <4>2, <4>3
      <4> QED BY <4>2, <4>4 DEF i
    <3>6. \A q : ListItem(c, q)' = ListItem(c, q)
      BY <1>1, <2>1, SameNode
    <3>7. Len(new) = k.i - 1 /\ Listed(new) = 1..(k.i - 1) /\ \A q \in 1..(k.i - 1) : new[q] = ListItem(c, q)'
      BY <1>2, <2>1, <3>5, <3>6
    <3>8. Ordered(c)'
      BY <1>16, <2>1, <2>5, <3>7 DEF Ordered, EncodedUpTo, new
    <3> QED BY <2>2, <3>8
  <2> QED BY <1>2, <2>4, <2>5
<1>17. ASSUME /\ pc[c] = "head" /\ ~MoreEntries(c) /\ ~j.disturbed
       PROVE  EncodedUpTo(c, n)
  <2>1. CASE j.source = "list"
    <3>1. j.i - 1 = n
      BY <1>2, <1>4, <1>17, <2>1
    <3>2. ~Stuck(c)
      BY <1>2, <1>17, <2>1 DEF Stuck
    <3> QED BY <1>5, <1>17, <2>1, <3>1, <3>2 DEF Ordered
  <2>2. CASE j.source = "once"
    BY <1>5, <1>17, <2>2 DEF Ordered, Stuck
  <2> QED BY <1>2, <2>1, <2>2
<1>18. ASSUME /\ pc[c] = "head" /\ ~MoreEntries(c) /\ pc'[c] = "head" /\ j.source = "list"
              /\ k = [j EXCEPT !.source = "once", !.i = 1]
      PROVE  Goal
  <2>1. k.source = "once" /\ k.type = j.type /\ k.stream = j.stream /\ k.disturbed = j.disturbed
    BY <1>2, <1>18 DEF Job
  <2>2. JobList(c)' = JobList(c) /\ EncodedUpTo(c, n)'
    BY <1>1, <1>17, <1>18, <2>1, SameNode
  <2> QED BY <2>1, <2>2 DEF Ordered, MessageInv
<1>19. ASSUME pc[c] = "head" /\ ~MoreEntries(c) /\ pc'[c] = "publish" /\ k = j
      PROVE  Goal
  <2>1. JobList(c)' = JobList(c) /\ \A q : EncodedUpTo(c, q)' <=> EncodedUpTo(c, q)
    BY <1>1, <1>19, SameNode
  <2>2. EncodedUpTo(c, n) /\ (j.source = "list" => Len(j.stream.items) = j.i - 1 /\ j.i - 1 = n)
    BY <1>2, <1>4, <1>5, <1>17, <1>19 DEF Ordered, Stuck
  <2>3. EncodedUpTo(c, n)'
    BY <2>1, <2>2
  <2>4. j.source = "list" => k.i - 1 = n /\ Len(k.stream.items) = k.i - 1
    BY <1>19, <2>2
  <2>5. Ordered(c)'
    BY <1>19, <2>1, <2>3, <2>4 DEF Ordered
  <2> QED BY <1>19, <2>5 DEF MessageInv, EntryPoint
<1>20. pc'[c] # "idle"
  BY DEF UpdatePoint, EntryPoint
<1>21. ASSUME /\ pc[c] = "sizing" /\ \E q \in Nat : EntryFails(c, q)
              /\ Prefix(MessageSize(sensor_data_pb)) + MessageSize(sensor_data_pb) > Room(j.stream)
       PROVE  Goal
  BY <1>14, <1>21
<1>22. ASSUME pc[c] = "write" /\ MessageSize(sensor_data_pb) # j.length /\ \E q \in Nat : EntryFails(c, q)
       PROVE  Goal
  BY <1>14, <1>15, <1>22
<1> HIDE DEF Goal, j, k
<1>23. ASSUME pc[c] = "head" PROVE Goal
  BY <1>8, <1>9, <1>18, <1>19, <1>20, <1>23, StepOfUpdate DEF j, k
<1>24. ASSUME pc[c] = "sizing" PROVE Goal
  BY <1>13, <1>20, <1>21, <1>24, StepOfUpdate DEF j, k
<1>25. ASSUME pc[c] = "write" PROVE Goal
  BY <1>16, <1>20, <1>22, <1>25, StepOfUpdate DEF j, k
<1>26. Goal
  BY <1>10, <1>11, <1>20, <1>23, <1>24, <1>25, StepOfUpdate DEF j, k
<1> QED BY <1>26 DEF Goal

\* An update that begins has nothing to keep in order.
LEMMA OrderBegins ==
    ASSUME NEW c \in Context, pc'[c] = "head", NEW u \in UpdateType, job'[c] = NewJob(u)
    PROVE  (Ordered(c) /\ MessageInv(c))'
<1>1. /\ job'[c].source = "list" /\ job'[c].i = 1 /\ job'[c].stream.items = <<>>
      /\ Listed(job'[c].stream.items) = {}
  BY NothingYet
<1>2. Len(job'[c].stream.items) = job'[c].i - 1 /\ 1..(job'[c].i - 1) = {}
  BY <1>1
<1>3. Ordered(c)'
  BY <1>1, <1>2 DEF Ordered, EncodedUpTo
<1> QED BY <1>3 DEF MessageInv, EntryPoint

\* The entries keep their order in every step.
LEMMA NextOrder == TypeInv /\ CountInv /\ OrderInv /\ [Next]_vars => OrderInv'
<1> SUFFICES ASSUME TypeInv, CountInv, OrderInv, [Next]_vars PROVE OrderInv'
  OBVIOUS
<1>1. /\ pc \in [Context -> Point] /\ job \in [Context -> Job] /\ job["timer"] \in Job
      /\ "idle" \notin UpdatePoint /\ "fault" \notin UpdatePoint /\ Context = {"timer", "gpiote"}
      /\ "advertising" \in UpdateType
  BY DEF TypeInv, TypeOK, Context, UpdatePoint, EntryPoint, UpdateType
<1>2. CASE UNCHANGED vars
  <2>1. UNCHANGED <<sensor_list, reading, sensor_data_pb, once_queue, heap, pc, job>>
    BY <1>2 DEF vars, statics, control, memory
  <2>2. ASSUME NEW c \in Context
        PROVE  (Ordered(c)' <=> Ordered(c)) /\ (Stuck(c)' <=> Stuck(c)) /\ (MessageInv(c)' <=> MessageInv(c))
    <3>1. JobList(c)' = JobList(c) /\ EntrySensor(c)' = EntrySensor(c) /\ EntryData(c)' = EntryData(c)
      BY <2>1 DEF JobList, EntrySensor, EntryData
    <3>2. Ordered(c)' <=> Ordered(c)
      <4>1. \A q : EncodedUpTo(c, q)' <=> EncodedUpTo(c, q)
        BY <2>1, SameNode
      <4> QED BY <2>1, <3>1, <4>1 DEF Ordered
    <3>3. Stuck(c)' <=> Stuck(c)
      BY <2>1, <3>1 DEF Stuck, EntrySize, Room
    <3>4. MessageInv(c)' <=> MessageInv(c)
      BY <2>1, <3>1 DEF MessageInv, EntrySize
    <3> QED BY <3>2, <3>3, <3>4
  <2> QED BY <2>1, <2>2 DEF OrderInv
<1>3. CASE pc'["gpiote"] = "idle" /\ pc'["timer"] \notin UpdatePoint
  BY <1>1, <1>3 DEF OrderInv
<1>4. CASE /\ pc'["gpiote"] = "idle" /\ pc'["timer"] = "head"
           /\ \E u \in UpdateType : job'["timer"] = NewJob(u)
  <2>1. (Ordered("timer") /\ MessageInv("timer"))'
    BY <1>1, <1>4, OrderBegins
  <2> QED BY <1>1, <1>4, <2>1 DEF OrderInv
<1>5. CASE /\ pc["gpiote"] = "idle" /\ pc'["timer"] = pc["timer"] /\ sensor_list' = sensor_list
           /\ pc'["gpiote"] = "head" => job'["gpiote"] = NewJob("advertising")
           /\ pc'["gpiote"] \in {"head", "fault", "idle"}
           /\ job'["timer"] = [job["timer"] EXCEPT !.disturbed = @ \/ Disturbs]
  <2>1. pc'["timer"] \in UpdatePoint => job'["timer"].disturbed
    BY <1>1, <1>5 DEF Job, Disturbs
  <2>2. pc'["gpiote"] \in UpdatePoint => (Ordered("gpiote") /\ MessageInv("gpiote"))'
    BY <1>1, <1>5, OrderBegins
  <2> QED BY <1>1, <2>1, <2>2 DEF OrderInv
<1>6. ASSUME NEW c \in Context, UpdateStep(c)
      PROVE  OrderInv'
  <2>1. /\ Runs(c) /\ pc[c] \in UpdatePoint /\ \A d \in Context : d # c => pc'[d] = pc[d] /\ job'[d] = job[d]
    BY <1>6, UpdateFrame
  <2>2. pc'[c] \in UpdatePoint /\ ~job'[c].disturbed => ((Ordered(c) \/ Stuck(c)) /\ MessageInv(c))'
    BY <1>6, UpdateOrder
  <2>3. CASE c = "timer"
    BY <1>1, <2>1, <2>2, <2>3 DEF Runs, OrderInv
  <2>4. CASE c = "gpiote"
    BY <1>1, <2>1, <2>2, <2>4 DEF OrderInv
  <2> QED BY <1>1, <2>3, <2>4
<1> QED BY <1>2, <1>3, <1>4, <1>5, <1>6, StepOfOthers

\* The entries are in order in every reachable state.
THEOREM AlwaysOrderInv == Spec => []OrderInv
<1>1. Init => CountInv /\ OrderInv
  <2> SUFFICES ASSUME Init PROVE CountInv /\ OrderInv
    OBVIOUS
  <2>1. \A c \in Context : pc[c] \notin UpdatePoint
    BY DEF Init, UpdatePoint, EntryPoint
  <2>2. pc["gpiote"] = "idle"
    BY DEF Init, Context
  <2> QED BY <2>1, <2>2 DEF CountInv, OrderInv
<1> QED BY <1>1, NextCount, NextOrder, AlwaysTypeInv, PTL DEF Spec

\* Whatever the lists and the readings, an update that no report interrupts publishes the
\* listed sensors first and in order, each whole, with its own tag and latest reading.
THEOREM EntriesInOrder == Spec => []EncodedInOrder
<1>1. ASSUME TypeInv, OrderInv
      PROVE  EncodedInOrder
  <2> SUFFICES ASSUME NEW c \in Context, pc[c] = "publish", ~job[c].disturbed
               PROVE  /\ Listed(job[c].stream.items) = DOMAIN JobList(c)
                      /\ \A k \in DOMAIN JobList(c) : job[c].stream.items[k] = ListItem(c, k)
    BY DEF EncodedInOrder, ListItem
  <2>1. EncodedUpTo(c, Len(JobList(c)))
    BY <1>1 DEF OrderInv, Ordered, Stuck, UpdatePoint
  <2> QED BY <1>1, <2>1, ListEnds DEF EncodedUpTo
<1> QED BY <1>1, AlwaysOrderInv, AlwaysTypeInv, PTL

-----------------------------------------------------------------------------
(* The reports.                                                             *)

\* An update that no report has interrupted, and that encodes what is queued.
Clear(c) == pc[c] \in UpdatePoint /\ ~job[c].disturbed /\ ~raced /\ ~repeated

\* The block of an entry that is not freed holds what its sensor read.
HeldInv == ~repeated => \A k \in Pending : heap[once_queue[k].data] = reading[once_queue[k].sensor]

\* The message is that of the queued report the loop is at, as far as it is set.
ReportMessage(c) ==
    job[c].source = "once" =>
        /\ pc[c] \in EntryPoint => sensor_data_pb.type = SensorTag[EntrySensor(c)]
        /\ pc[c] \in {"sizing", "write"} => sensor_data_pb.data = reading[EntrySensor(c)]

\* The whole items of the queue are reports, and those that the loop has passed are there if all fit.
ReportsPassed(c) ==
    LET items == job[c].stream.items IN
    /\ \A n \in DOMAIN items : items[n].source = "once" /\ ~items[n].torn =>
            \E k \in DOMAIN once_queue : items[n] = Reported(once_queue[k])
    /\ job[c].source = "once" /\ Room(job[c].stream) > 0 /\ (\A n \in DOMAIN items : ~items[n].torn) =>
            \A k \in DOMAIN once_queue : k < job[c].i \/ pc[c] = "publish" =>
                \E n \in DOMAIN items : items[n] = Reported(once_queue[k])

ReportInv ==
    /\ HeldInv
    /\ pc["gpiote"] \in UpdatePoint /\ ~raced => pc["timer"] \notin TimeoutPoint
    /\ \A c \in Context : Clear(c) => ReportMessage(c) /\ ReportsPassed(c)

\* An update that encodes what is queued does so while no entry is freed.
LEMMA ClearIsPending ==
    ASSUME TypeInv, ReportInv, NEW c \in Context, Clear(c), NEW k \in DOMAIN once_queue
    PROVE  heap[once_queue[k].data] = reading[once_queue[k].sensor]
<1>1. pc["timer"] \notin TimeoutPoint
  BY DEF Clear, ReportInv, Context, UpdatePoint, EntryPoint, TimeoutPoint
<1>2. k \in Pending
  BY <1>1 DEF Pending, TimeoutPoint
<1> QED BY <1>2 DEF ReportInv, HeldInv, Clear

\* A step that touches neither the queue nor the heap nor a reading that is queued.
LEMMA KeepHeld ==
    ASSUME HeldInv, UNCHANGED <<once_queue, heap, repeated>>, Pending' \subseteq Pending,
           \A k \in DOMAIN once_queue : reading'[once_queue[k].sensor] = reading[once_queue[k].sensor]
    PROVE  HeldInv'
<1>1. \A k \in Pending : k \in DOMAIN once_queue
  BY DEF Pending
<1> QED BY <1>1 DEF HeldInv

\* The sensors of the queue.
LEMMA EntrySensors ==
    ASSUME TypeInv
    PROVE  \A k \in DOMAIN once_queue : once_queue[k].sensor \in OnceSensor /\ once_queue[k].data \in Block
<1> SUFFICES ASSUME NEW k \in DOMAIN once_queue
             PROVE  once_queue[k].sensor \in OnceSensor /\ once_queue[k].data \in Block
  OBVIOUS
<1>1. once_queue[k] \in Entry
  BY DEF TypeInv, TypeOK
<1> QED BY <1>1 DEF Entry

\* A report of a tag that is not queued leaves the queued sensors' readings alone.
LEMMA ReportReads ==
    ASSUME TypeInv, NEW s \in OnceSensor, NEW v \in Value, GpioteEnters(s, v), SameTag(s) = {}
    PROVE  \A k \in DOMAIN once_queue : reading'[once_queue[k].sensor] = reading[once_queue[k].sensor]
<1> SUFFICES ASSUME NEW k \in DOMAIN once_queue
             PROVE  reading'[once_queue[k].sensor] = reading[once_queue[k].sensor]
  OBVIOUS
<1>1. once_queue \in Seq(Entry) /\ reading \in [Sensor -> Value] /\ DOMAIN once_queue = 1..Len(once_queue)
  BY DEF TypeInv, TypeOK
<1>2. once_queue[k].sensor # s
  BY <1>1 DEF SameTag
<1> QED BY <1>1, <1>2, EntrySensors DEF GpioteEnters

\* A new report's block holds its reading, and no other's.
LEMMA NewReportHeld ==
    ASSUME TypeInv, BlockInv, HeldInv, NEW s \in OnceSensor, NEW v \in Value, NewReport(s, v)
    PROVE  HeldInv'
<1> SUFFICES ASSUME ~repeated', NEW k \in Pending'
             PROVE  heap'[once_queue'[k].data] = reading'[once_queue'[k].sensor]
  BY DEF HeldInv
<1>1. /\ once_queue \in Seq(Entry) /\ heap \in [Block -> Value \cup {Unallocated}] /\ reading \in [Sensor -> Value]
      /\ pc \in [Context -> Point] /\ job \in [Context -> Job] /\ job["timer"] \in Job /\ Len(once_queue) \in Nat
  BY DEF TypeInv, TypeOK, Context
<1>2. PICK b \in Available(heap, corrupt) :
         heap' = [heap EXCEPT ![b] = v] /\ once_queue' = Append(once_queue, [sensor |-> s, data |-> b])
  BY DEF NewReport
<1>3. /\ ~repeated /\ GpioteEnters(s, v) /\ SameTag(s) = {} /\ reading' = [reading EXCEPT ![s] = v]
      /\ pc'["timer"] = pc["timer"] /\ job'["timer"] = [job["timer"] EXCEPT !.disturbed = @ \/ Disturbs]
  BY <1>1 DEF NewReport, GpioteEnters, Goto, Context
<1>4. job'["timer"].i = job["timer"].i
  BY <1>1, <1>3 DEF Job
<1>5. /\ DOMAIN once_queue' = 1..(Len(once_queue) + 1) /\ DOMAIN once_queue = 1..Len(once_queue)
      /\ \A j \in DOMAIN once_queue : once_queue'[j] = once_queue[j]
      /\ once_queue'[Len(once_queue) + 1] = [sensor |-> s, data |-> b]
  BY <1>1, <1>2
<1>6. ~corrupt /\ b \in Block /\ heap[b] = Unallocated /\ \A j \in Pending : heap[once_queue[j].data] # Unallocated
  BY <1>2, <1>3 DEF BlockInv, QueueOwnsBlocks, Available
<1>7. k \in Pending \/ k = Len(once_queue) + 1
  BY <1>3, <1>4, <1>5 DEF Pending
<1>8. CASE k \in Pending
  <2>1. k \in DOMAIN once_queue
    BY <1>8 DEF Pending
  <2>2. heap'[once_queue[k].data] = heap[once_queue[k].data]
    BY <1>1, <1>2, <1>6, <1>8, <2>1, EntrySensors
  <2>3. reading'[once_queue[k].sensor] = reading[once_queue[k].sensor]
    BY <1>3, <2>1, ReportReads
  <2>4. heap[once_queue[k].data] = reading[once_queue[k].sensor]
    BY <1>3, <1>8 DEF HeldInv
  <2> QED BY <1>5, <2>1, <2>2, <2>3, <2>4
<1>9. CASE k = Len(once_queue) + 1
  <2>1. once_queue'[k].data = b /\ once_queue'[k].sensor = s
    BY <1>5, <1>9
  <2>2. heap'[b] = v
    BY <1>1, <1>2, <1>6
  <2>3. reading'[s] = v
    <3>1. s \in Sensor
      BY SensorAssumption
    <3>2. reading \in [Sensor -> Value]
      BY <1>1
    <3>3. reading' = [reading EXCEPT ![s] = v]
      BY <1>3
    <3> QED BY <3>1, <3>2, <3>3
  <2> QED BY <2>1, <2>2, <2>3
<1> QED BY <1>7, <1>8, <1>9

\* No step gives a block of the queue another content than its sensor's reading, if no queued sensor is
\* polled.
LEMMA NextHeld ==
    ASSUME OnceSensor \cap PolledSensor = {}, TypeInv, BlockInv, HeldInv, [Next]_vars
    PROVE  HeldInv'
<1>1. /\ pc \in [Context -> Point] /\ job \in [Context -> Job] /\ job["timer"] \in Job /\ once_queue \in Seq(Entry)
      /\ job["timer"].i \in Nat /\ "timer" \in Context /\ reading \in [Sensor -> Value]
      /\ heap \in [Block -> Value \cup {Unallocated}]
  BY DEF TypeInv, TypeOK, Context, Job
<1>2. CASE MainStep
  <2>1. UNCHANGED <<once_queue, heap, repeated, reading, pc, job>>
    BY <1>2 DEF MainStep, AddSensor, RemoveSensor, RemoveSensorTag, RemoveFirstOf, memory, control, history
  <2>2. Pending' = Pending
    BY <2>1 DEF Pending
  <2> QED BY <2>1, <2>2, KeepHeld
<1>3. CASE Poll
  <2>1. PICK s \in PolledSensor, u \in UpdateType, v \in Value : PollTimeout(s, u, v)
    BY <1>3 DEF Poll
  <2>2. /\ UNCHANGED <<once_queue, heap, repeated>> /\ pc["timer"] = "idle" /\ pc'["timer"] = "head"
        /\ reading' = [reading EXCEPT ![s] = v]
    BY <1>1, <2>1 DEF PollTimeout, MainRuns, Goto, memory, history
  <2>3. Pending' = Pending
    BY <2>2 DEF Pending
  <2>4. \A k \in DOMAIN once_queue : reading'[once_queue[k].sensor] = reading[once_queue[k].sensor]
    BY <1>1, <2>2, EntrySensors
  <2> QED BY <2>2, <2>3, <2>4, KeepHeld
<1>4. CASE ClearTimeout \/ ClearResponse
  <2>1. /\ UNCHANGED <<once_queue, heap, repeated, reading>>
        /\ pc["timer"] \notin {"free", "reset"} /\ pc'["timer"] \notin {"free", "reset"}
    BY <1>1, <1>4 DEF ClearTimeout, ClearResponse, MainRuns, Goto, statics, memory, history
  <2>2. Pending' = Pending
    BY <2>1 DEF Pending
  <2> QED BY <2>1, <2>2, KeepHeld
<1>5. ASSUME NEW c \in Context, UpdateStep(c)
      PROVE  HeldInv'
  <2>1. /\ pc[c] \in UpdatePoint /\ UNCHANGED <<reading, once_queue, heap>>
        /\ \A d \in Context : d # c => pc'[d] = pc[d] /\ job'[d] = job[d]
    BY <1>5, UpdateFrame
  <2>4. pc'[c] \in UpdatePoint \cup {"idle"}
    BY <1>1, <1>5 DEF UpdateStep, EntryStep, EntryHead, EntryLength, EntryCopy, EntrySizing, EntryWrite, EntryFails,
       LoopEnd, Publish, Goto, UpdatePoint, EntryPoint
  <2>2. repeated' = repeated
    BY <1>5 DEF UpdateStep, EntryStep, EntryHead, EntryLength, EntryCopy, EntrySizing, EntryWrite, LoopEnd, Publish,
       Untouched, history
  <2>3. Pending' = Pending
    BY <2>1, <2>4 DEF Pending, Context, UpdatePoint, EntryPoint
  <2> QED BY <2>1, <2>2, <2>3, KeepHeld
<1>6. CASE LatchIndex
  <2>1. UNCHANGED <<once_queue, heap, repeated, reading>> /\ pc["timer"] = "latch"
    BY <1>6 DEF LatchIndex, memory, history
  <2>2. Pending' \subseteq Pending
    BY <2>1 DEF Pending
  <2> QED BY <2>1, <2>2, KeepHeld
<1>7. CASE FreeEntry
  <2> DEFINE i == job["timer"].i
  <2>1. UNCHANGED <<once_queue, repeated, reading>> /\ pc["timer"] = "free"
    BY <1>7 DEF FreeEntry, statics, history
  <2>2. CASE i <= Len(once_queue)
    <3>1. Freed(once_queue[i].data) /\ pc' = pc /\ job' = [job EXCEPT !["timer"].i = @ + 1]
      BY <1>7, <2>2 DEF FreeEntry
    <3>2. job'["timer"] = [job["timer"] EXCEPT !.i = @ + 1]
      BY <1>1, <3>1
    <3>3. job'["timer"].i = i + 1
      BY <1>1, <3>2 DEF Job
    <3>4. /\ DOMAIN once_queue = 1..Len(once_queue) /\ Len(once_queue) \in Nat /\ i \in 1..Len(once_queue)
      BY <1>1, <2>2 DEF TypeInv, TypeOK, Job
    <3>5. \A k \in Pending' : k \in Pending /\ k # i /\ k \in DOMAIN once_queue
      BY <1>1, <2>1, <3>1, <3>3, <3>4 DEF Pending
    <3>6. i \in Pending
      BY <1>1, <2>1, <3>4 DEF Pending
    <3>7. ~repeated => \A k \in Pending' : heap'[once_queue[k].data] = heap[once_queue[k].data]
      BY <1>1, <3>1, <3>4, <3>5, <3>6, EntrySensors DEF Freed, BlockInv, QueueOwnsBlocks
    <3> QED BY <2>1, <3>5, <3>7 DEF HeldInv
  <2>3. CASE ~(i <= Len(once_queue))
    <3>1. UNCHANGED <<heap, job>> /\ pc'["timer"] = "reset"
      BY <1>1, <1>7, <2>3 DEF FreeEntry, Goto, memory
    <3>2. Pending' \subseteq Pending
      BY <2>1, <3>1 DEF Pending
    <3> QED BY <2>1, <3>1, <3>2, KeepHeld
  <2> QED BY <2>2, <2>3
<1>8. CASE ResetIndex
  <2>1. once_queue' = <<>>
    BY <1>8 DEF ResetIndex
  <2> QED BY <2>1 DEF HeldInv, Pending
<1>9. CASE Report
  <2>1. PICK s \in OnceSensor, v \in Value : RepeatReport(s, v) \/ NewReport(s, v) \/ ReportFaults(s, v)
    BY <1>9 DEF Report
  <2>2. CASE RepeatReport(s, v)
    BY <2>2 DEF RepeatReport, HeldInv
  <2>3. CASE NewReport(s, v)
    BY <2>3, NewReportHeld
  <2>4. CASE ReportFaults(s, v)
    <3>1. /\ UNCHANGED <<once_queue, heap, repeated>> /\ pc'["timer"] = pc["timer"]
          /\ job'["timer"] = [job["timer"] EXCEPT !.disturbed = @ \/ Disturbs]
      BY <1>1, <2>4 DEF ReportFaults, Goto, memory, history, Context
    <3>2. job'["timer"].i = job["timer"].i
      BY <1>1, <3>1 DEF Job
    <3>3. Pending' = Pending
      BY <3>1, <3>2 DEF Pending
    <3>4. \A k \in DOMAIN once_queue : reading'[once_queue[k].sensor] = reading[once_queue[k].sensor]
      BY <2>4, ReportReads DEF ReportFaults
    <3> QED BY <3>1, <3>3, <3>4, KeepHeld
  <2> QED BY <2>1, <2>2, <2>3, <2>4
<1>10. CASE UNCHANGED vars
  <2>1. UNCHANGED <<once_queue, heap, repeated, reading, pc, job>>
    BY <1>10 DEF vars, statics, memory, control, history
  <2>2. Pending' = Pending
    BY <2>1 DEF Pending
  <2> QED BY <2>1, <2>2, KeepHeld
<1> QED BY <1>2, <1>3, <1>4, <1>5, <1>6, <1>7, <1>8, <1>9, <1>10 DEF Next, TimeoutStep, Context

\* What a step of an update leaves as it is.
LEMMA UpdateKeeps ==
    ASSUME TypeInv, NEW c \in Context, UpdateStep(c)
    PROVE  UNCHANGED <<reading, once_queue, heap, raced, repeated>> /\ \A k : Reported(once_queue[k])' = Reported(once_queue[k])
<1>1. UNCHANGED <<reading, once_queue, heap>>
  BY UpdateFrame
<1>2. UNCHANGED <<raced, repeated>>
  BY DEF UpdateStep, EntryStep, EntryHead, EntryLength, EntryCopy, EntrySizing, EntryWrite, LoopEnd, Publish,
     Untouched, history
<1> QED BY <1>1, <1>2 DEF Reported

\* An item more: it is torn, of the list, or the report the loop is at.
LEMMA ReportMore ==
    ASSUME TypeInv, NEW c \in Context, ReportsPassed(c), pc[c] \in EntryPoint, pc'[c] = "head",
           UNCHANGED <<reading, once_queue>>, job'[c].source = job[c].source,
           NEW item \in Item, job'[c].stream.items = Append(job[c].stream.items, item),
           \/ item.torn
           \/ item.source = "list" /\ job[c].source = "list"
           \/ /\ job[c].source = "once" /\ job[c].i \in DOMAIN once_queue /\ job'[c].i = job[c].i + 1
              /\ item = Reported(once_queue[job[c].i])
    PROVE  ReportsPassed(c)'
<1> DEFINE items == job[c].stream.items
           new == job'[c].stream.items
           i == job[c].i
<1>1. /\ items \in Seq(Item) /\ i \in Nat /\ Room(job[c].stream) > 0 /\ pc[c] # "publish"
      /\ DOMAIN once_queue = 1..Len(once_queue) /\ Len(once_queue) \in Nat
  BY ListEnds DEF TypeInv, TypeOK, ControlInv, EntryInv, EntryPoint
<1>2. /\ DOMAIN items = 1..Len(items) /\ DOMAIN new = 1..(Len(items) + 1) /\ Len(items) \in Nat
      /\ new[Len(items) + 1] = item /\ \A n \in DOMAIN items : n \in DOMAIN new /\ new[n] = items[n]
  <2>1. items \in Seq(Item) /\ new = Append(items, item)
    BY <1>1
  <2> HIDE DEF items, new
  <2> QED BY <2>1
<1>3. \A k : Reported(once_queue[k])' = Reported(once_queue[k])
  BY DEF Reported
<1>4. \A n \in DOMAIN items : items[n].source = "once" /\ ~items[n].torn =>
          \E k \in DOMAIN once_queue : items[n] = Reported(once_queue[k])
  BY DEF ReportsPassed
<1>5. job[c].source = "once" /\ (\A n \in DOMAIN items : ~items[n].torn) =>
          \A k \in DOMAIN once_queue : k < i => \E n \in DOMAIN items : items[n] = Reported(once_queue[k])
  BY <1>1 DEF ReportsPassed
<1>6. \A e : Reported(e).source = "once"
  BY DEF Reported
<1> HIDE DEF items, new, i
<1>7. \A n \in DOMAIN new : new[n].source = "once" /\ ~new[n].torn =>
          \E k \in DOMAIN once_queue : new[n] = Reported(once_queue[k])
  <2> SUFFICES ASSUME NEW n \in DOMAIN new, new[n].source = "once", ~new[n].torn
               PROVE  \E k \in DOMAIN once_queue : new[n] = Reported(once_queue[k])
    OBVIOUS
  <2>1. CASE n \in DOMAIN items
    BY <1>2, <1>4, <2>1
  <2>2. CASE n = Len(items) + 1
    BY <1>2, <2>2 DEF i
  <2> QED BY <1>2, <2>1, <2>2
<1>8. job[c].source = "once" /\ (\A n \in DOMAIN new : ~new[n].torn) =>
          \A k \in DOMAIN once_queue : k < job'[c].i => \E n \in DOMAIN new : new[n] = Reported(once_queue[k])
  <2> SUFFICES ASSUME job[c].source = "once", \A n \in DOMAIN new : ~new[n].torn,
                      NEW k \in DOMAIN once_queue, k < job'[c].i
               PROVE  \E n \in DOMAIN new : new[n] = Reported(once_queue[k])
    OBVIOUS
  <2>1. ~item.torn /\ \A n \in DOMAIN items : ~items[n].torn
    BY <1>2
  <2>2. job'[c].i = i + 1 /\ item = Reported(once_queue[i])
    BY <2>1 DEF i
  <2>3. CASE k < i
    BY <1>2, <1>5, <2>1, <2>3
  <2>4. CASE k = i
    BY <1>2, <2>2, <2>4
  <2> QED BY <1>1, <2>2, <2>3, <2>4
<1>9. pc'[c] # "publish"
  OBVIOUS
<1>10. job'[c].source = job[c].source
  OBVIOUS
<1>11. /\ \A n \in DOMAIN new : new[n].source = "once" /\ ~new[n].torn =>
            \E k \in DOMAIN once_queue' : new[n] = Reported(once_queue[k])'
       /\ job'[c].source = "once" /\ (\A n \in DOMAIN new : ~new[n].torn) =>
            \A k \in DOMAIN once_queue' : k < job'[c].i \/ pc'[c] = "publish" =>
                \E n \in DOMAIN new : new[n] = Reported(once_queue[k])'
  BY <1>3, <1>7, <1>8, <1>9, <1>10
<1> QED BY <1>11 DEF ReportsPassed, new

\* What an update that is not interrupted encodes of the queue is what was reported.
LEMMA UpdateReports ==
    ASSUME TypeInv, ReportInv, NEW c \in Context, UpdateStep(c),
           pc'[c] \in UpdatePoint, ~job'[c].disturbed, ~raced, ~repeated
    PROVE  (ReportMessage(c) /\ ReportsPassed(c))'
<1> DEFINE j == job[c]
           k == job'[c]
           m == sensor_data_pb
           s == EntrySensor(c)
           Goal == (ReportMessage(c) /\ ReportsPassed(c))'
<1>1. /\ pc[c] \in UpdatePoint /\ pc'[c] \in UpdatePoint
      /\ UNCHANGED <<reading, once_queue, heap, raced, repeated>>
      /\ \A q : Reported(once_queue[q])' = Reported(once_queue[q])
      /\ ~k.disturbed /\ ~raced /\ ~repeated
  BY UpdateFrame, UpdateKeeps DEF Clear
<1>2. /\ j \in Job /\ j.i \in Nat \ {0} /\ j.stream.items \in Seq(Item) /\ j.source \in {"list", "once"} /\ m \in Message
      /\ DOMAIN once_queue = 1..Len(once_queue) /\ Len(once_queue) \in Nat
  BY ListEnds DEF TypeInv, TypeOK
<1>3. /\ pc[c] \in EntryPoint => Room(j.stream) > 0
      /\ j.source = "once" => (MoreEntries(c) <=> j.i <= Len(once_queue)) /\ s = once_queue[j.i].sensor
      /\ j.source = "once" /\ pc[c] \in EntryPoint => j.i \in DOMAIN once_queue
  BY <1>2 DEF TypeInv, ControlInv, EntryInv, MoreEntries, EntrySensor
<1>4. ASSUME ~j.disturbed
      PROVE  Clear(c) /\ ReportMessage(c) /\ ReportsPassed(c)
  BY <1>1, <1>4 DEF Clear, ReportInv
<1>5. ASSUME k.source = j.source, k.i = j.i, k.stream = j.stream, k.disturbed = j.disturbed,
             pc[c] # "publish", pc'[c] # "publish"
      PROVE  ReportsPassed(c)' /\ (j.source = "once" => EntrySensor(c)' = s)
  <2>1. ReportsPassed(c)
    BY <1>1, <1>4, <1>5
  <2>2. ReportsPassed(c)'
    BY <1>1, <1>5, <2>1 DEF ReportsPassed, Room
  <2>3. j.source = "once" => EntrySensor(c)' = s
    BY <1>1, <1>5 DEF EntrySensor
  <2> QED BY <2>2, <2>3
<1>6. ASSUME /\ pc[c] = "head" /\ pc'[c] = "size" /\ k = j
             /\ sensor_data_pb' = [sensor_data_pb EXCEPT !.type = SensorTag[EntrySensor(c)]]
      PROVE  Goal
  <2>1. ReportsPassed(c)' /\ (j.source = "once" => EntrySensor(c)' = s)
    BY <1>5, <1>6
  <2>2. sensor_data_pb'.type = SensorTag[s]
    BY <1>2, <1>6 DEF Message
  <2> QED BY <1>6, <2>1, <2>2 DEF ReportMessage
<1>7. ASSUME /\ pc[c] = "head" /\ pc'[c] = "head" /\ j.source = "once" /\ k = [j EXCEPT !.i = @ + 1]
             /\ Room(j.stream) = 0
      PROVE  Goal
  <2>1. k.source = "once" /\ k.stream = j.stream /\ k.disturbed = j.disturbed
    BY <1>2, <1>7 DEF Job
  <2>2. ReportsPassed(c) /\ ~(Room(k.stream) > 0)
    BY <1>1, <1>4, <1>7, <2>1
  <2>3. ReportsPassed(c)'
    BY <1>1, <2>1, <2>2 DEF ReportsPassed, Room
  <2> QED BY <1>7, <2>3 DEF ReportMessage, EntryPoint
<1>8. ASSUME /\ pc[c] = "size" /\ pc'[c] = "copy" /\ k = j
             /\ sensor_data_pb' = [sensor_data_pb EXCEPT !.size = DataSize[EntrySensor(c)]]
      PROVE  Goal
  <2>1. ReportsPassed(c)' /\ (j.source = "once" => EntrySensor(c)' = s)
    BY <1>5, <1>8
  <2>2. j.source = "once" => m.type = SensorTag[s] /\ sensor_data_pb'.type = m.type
    BY <1>1, <1>2, <1>4, <1>8 DEF ReportMessage, EntryPoint, Message
  <2> QED BY <1>8, <2>1, <2>2 DEF ReportMessage
<1>9. ASSUME /\ pc[c] = "copy" /\ pc'[c] = "sizing" /\ k = j
             /\ sensor_data_pb' = [sensor_data_pb EXCEPT !.data = EntryData(c)]
      PROVE  Goal
  <2>1. ReportsPassed(c)' /\ (j.source = "once" => EntrySensor(c)' = s)
    BY <1>5, <1>9
  <2>2. j.source = "once" => m.type = SensorTag[s] /\ sensor_data_pb'.type = m.type
    BY <1>1, <1>2, <1>4, <1>9 DEF ReportMessage, EntryPoint, Message
  <2>3. ASSUME j.source = "once"
        PROVE  sensor_data_pb'.data = reading[s]
    <3>1. j.i \in DOMAIN once_queue /\ Clear(c)
      BY <1>1, <1>3, <1>4, <1>9, <2>3 DEF EntryPoint
    <3>2. EntryData(c) = reading[s]
      BY <1>3, <2>3, <3>1, ClearIsPending DEF EntryData
    <3> QED BY <1>2, <1>9, <3>2 DEF Message
  <2> QED BY <1>1, <1>9, <2>1, <2>2, <2>3 DEF ReportMessage
<1>10. ASSUME /\ pc[c] = "sizing" /\ pc'[c] = "write" /\ sensor_data_pb' = sensor_data_pb
              /\ k = [j EXCEPT !.length = MessageSize(sensor_data_pb)]
      PROVE  Goal
  <2>1. k.source = j.source /\ k.i = j.i /\ k.stream = j.stream /\ k.disturbed = j.disturbed
    BY <1>2, <1>10 DEF Job
  <2>2. ReportsPassed(c)' /\ (j.source = "once" => EntrySensor(c)' = s)
    BY <1>5, <1>10, <2>1
  <2>3. j.source = "once" => m.type = SensorTag[s] /\ m.data = reading[s]
    BY <1>1, <1>4, <1>10, <2>1 DEF ReportMessage, EntryPoint
  <2> QED BY <1>1, <1>10, <2>1, <2>2, <2>3 DEF ReportMessage
<1>11. ASSUME pc[c] \in {"sizing", "write"} /\ \E q \in Nat : EntryFails(c, q)
      PROVE  Goal
  <2> DEFINE item == [source |-> j.source, torn |-> TRUE, type |-> 0, data |-> Unallocated]
  <2>1. /\ pc'[c] = "head" /\ item \in Item /\ k.source = j.source /\ k.disturbed = j.disturbed
        /\ k.stream.items = Append(j.stream.items, item)
    BY <1>11, Fails
  <2>2. item.torn
    OBVIOUS
  <2> HIDE DEF item
  <2>3. ReportsPassed(c)'
    BY <1>1, <1>4, <1>11, <2>1, <2>2, ReportMore DEF EntryPoint
  <2> QED BY <2>1, <2>3 DEF ReportMessage, EntryPoint
<1>12. ASSUME /\ pc[c] = "write" /\ pc'[c] = "head"
            /\ job' = [job EXCEPT ![c].stream = Encoded(@, job[c].source, sensor_data_pb), ![c].i = @ + 1]
      PROVE  Goal
  <2> DEFINE item == [source |-> j.source, torn |-> FALSE, type |-> sensor_data_pb.type,
                      data |-> sensor_data_pb.data]
  <2>1. /\ item \in Item /\ k.source = j.source /\ k.disturbed = j.disturbed /\ k.i = j.i + 1
        /\ k.stream.items = Append(j.stream.items, item)
    BY <1>12, Encodes
  <2>2. ReportMessage(c) /\ ReportsPassed(c)
    BY <1>1, <1>4, <2>1
  <2>3. item.source = j.source
    OBVIOUS
  <2>4. j.source = "once" => item = Reported(once_queue[j.i]) /\ j.i \in DOMAIN once_queue
    <3> SUFFICES ASSUME j.source = "once"
                 PROVE  item = Reported(once_queue[j.i]) /\ j.i \in DOMAIN once_queue
      OBVIOUS
    <3>1. j.i \in DOMAIN once_queue /\ s = once_queue[j.i].sensor
      BY <1>3, <1>12 DEF EntryPoint
    <3>2. m.type = SensorTag[s] /\ m.data = reading[s]
      BY <1>12, <2>2 DEF ReportMessage, EntryPoint
    <3> HIDE DEF j, m, s
    <3> QED BY <3>1, <3>2 DEF Reported, m
  <2> HIDE DEF item
  <2>5. \/ item.source = "list" /\ j.source = "list"
        \/ /\ j.source = "once" /\ j.i \in DOMAIN once_queue /\ k.i = j.i + 1 /\ item = Reported(once_queue[j.i])
    BY <1>2, <2>1, <2>3, <2>4
  <2>6. pc[c] \in EntryPoint /\ pc'[c] = "head" /\ UNCHANGED <<reading, once_queue>>
    BY <1>1, <1>12 DEF EntryPoint
  <2>7. ReportsPassed(c)'
    BY <2>1, <2>2, <2>5, <2>6, ReportMore
  <2> QED BY <1>12, <2>7 DEF ReportMessage, EntryPoint
<1>13. ASSUME pc[c] = "head" /\ pc'[c] = "head" /\ j.source = "list" /\ k = [j EXCEPT !.source = "once", !.i = 1]
      PROVE  Goal
  <2>1. k.source = "once" /\ k.stream = j.stream /\ k.disturbed = j.disturbed /\ k.i = 1
    BY <1>2, <1>13 DEF Job
  <2>2. ReportsPassed(c)
    BY <1>1, <1>4, <2>1
  <2>3. \A q \in DOMAIN once_queue : ~(q < k.i)
    BY <1>2, <2>1
  <2>4. ReportsPassed(c)'
    BY <1>1, <1>13, <2>1, <2>2, <2>3 DEF ReportsPassed
  <2> QED BY <1>13, <2>4 DEF ReportMessage, EntryPoint
<1>14. ASSUME pc[c] = "head" /\ ~MoreEntries(c) /\ pc'[c] = "publish" /\ k = j
      PROVE  Goal
  <2>1. ReportsPassed(c)
    BY <1>1, <1>4, <1>14
  <2>2. j.source = "once" => \A q \in DOMAIN once_queue : q < j.i
    BY <1>2, <1>3, <1>14
  <2>3. ReportsPassed(c)'
    BY <1>1, <1>14, <2>1, <2>2 DEF ReportsPassed
  <2> QED BY <1>14, <2>3 DEF ReportMessage, EntryPoint
<1>15. pc'[c] # "idle"
  BY <1>1 DEF UpdatePoint, EntryPoint
<1> SUFFICES Goal
  OBVIOUS
<1> HIDE DEF Goal
<1>16. pc[c] \in UpdatePoint
  BY <1>1
<1>17. CASE pc[c] = "head"
  <2>1. \/ /\ pc'[c] = "size" /\ k = j
           /\ sensor_data_pb' = [sensor_data_pb EXCEPT !.type = SensorTag[EntrySensor(c)]]
        \/ pc'[c] = "head" /\ j.source = "once" /\ k = [j EXCEPT !.i = @ + 1] /\ Room(j.stream) = 0
        \/ pc'[c] = "head" /\ j.source = "list" /\ k = [j EXCEPT !.source = "once", !.i = 1]
        \/ ~MoreEntries(c) /\ pc'[c] = "publish" /\ k = j
    BY <1>17, StepOfUpdate, Zenon
  <2> QED BY <1>6, <1>7, <1>13, <1>14, <1>17, <2>1
<1>18. CASE pc[c] = "size"
  BY <1>8, <1>18, StepOfUpdate, Zenon
<1>19. CASE pc[c] = "copy"
  BY <1>9, <1>19, StepOfUpdate, Zenon
<1>20. CASE pc[c] = "sizing"
  BY <1>10, <1>11, <1>20, StepOfUpdate, Zenon
<1>21. CASE pc[c] = "write"
  BY <1>11, <1>12, <1>21, StepOfUpdate, Zenon
<1>22. pc[c] # "publish"
  BY <1>15, StepOfUpdate, Zenon
<1> HIDE DEF j, k
<1> QED BY <1>16, <1>17, <1>18, <1>19, <1>20, <1>21, <1>22 DEF UpdatePoint, EntryPoint

\* An update that begins has no report yet.
LEMMA ReportsBegin ==
    ASSUME NEW c \in Context, pc'[c] = "head", NEW u \in UpdateType, job'[c] = NewJob(u)
    PROVE  (ReportMessage(c) /\ ReportsPassed(c))'
<1>1. job'[c].source = "list" /\ job'[c].stream.items = <<>>
  BY NothingYet
<1> QED BY <1>1 DEF ReportMessage, ReportsPassed

\* Every step keeps what updates encode of the queue.
LEMMA NextReports ==
    ASSUME OnceSensor \cap PolledSensor = {}, TypeInv, BlockInv, OrderInv, ReportInv, [Next]_vars
    PROVE  ReportInv'
<1>1. /\ pc \in [Context -> Point] /\ job \in [Context -> Job] /\ job["timer"] \in Job
      /\ "idle" \notin UpdatePoint /\ "fault" \notin UpdatePoint /\ Context = {"timer", "gpiote"}
      /\ "advertising" \in UpdateType /\ UpdatePoint \cap TimeoutPoint = {} /\ "idle" \notin TimeoutPoint
  BY DEF TypeInv, TypeOK, Context, UpdatePoint, EntryPoint, TimeoutPoint, UpdateType
<1>2. HeldInv'
  BY NextHeld DEF ReportInv
<1>3. CASE UNCHANGED vars
  <2>1. UNCHANGED <<sensor_list, reading, sensor_data_pb, once_queue, heap, pc, job, raced, repeated>>
    BY <1>3 DEF vars, statics, control, memory, history
  <2>2. ASSUME NEW c \in Context
        PROVE  /\ Clear(c)' <=> Clear(c)
               /\ ReportMessage(c)' <=> ReportMessage(c)
               /\ ReportsPassed(c)' <=> ReportsPassed(c)
    <3>1. EntrySensor(c)' = EntrySensor(c)
      BY <2>1 DEF JobList, EntrySensor
    <3>2. \A k : Reported(once_queue[k])' = Reported(once_queue[k])
      BY <2>1 DEF Reported
    <3>3. ReportsPassed(c)' <=> ReportsPassed(c)
      BY <2>1, <3>2 DEF ReportsPassed, Room
    <3> QED BY <2>1, <3>1, <3>3 DEF Clear, ReportMessage
  <2> QED BY <1>2, <2>1, <2>2 DEF ReportInv
<1>4. CASE pc'["gpiote"] = "idle" /\ pc'["timer"] \notin UpdatePoint
  BY <1>1, <1>2, <1>4 DEF ReportInv, Clear
<1>5. CASE /\ pc'["gpiote"] = "idle" /\ pc'["timer"] = "head"
           /\ \E u \in UpdateType : job'["timer"] = NewJob(u)
  <2>1. (ReportMessage("timer") /\ ReportsPassed("timer"))'
    BY <1>1, <1>5, ReportsBegin
  <2> QED BY <1>1, <1>2, <1>5, <2>1 DEF ReportInv, Clear
<1>6. CASE /\ pc["gpiote"] = "idle" /\ pc'["timer"] = pc["timer"]
           /\ pc'["gpiote"] = "head" => job'["gpiote"] = NewJob("advertising")
           /\ pc'["gpiote"] \in {"head", "fault", "idle"}
           /\ job'["timer"] = [job["timer"] EXCEPT !.disturbed = @ \/ Disturbs]
           /\ pc'["gpiote"] = "head" => raced' = (pc["timer"] \in TimeoutPoint)
  <2>1. pc'["timer"] \in UpdatePoint => job'["timer"].disturbed
    BY <1>1, <1>6 DEF Job, Disturbs
  <2>2. pc'["gpiote"] \in UpdatePoint => (ReportMessage("gpiote") /\ ReportsPassed("gpiote"))'
    BY <1>1, <1>6, ReportsBegin
  <2>3. pc'["gpiote"] \in UpdatePoint /\ ~raced' => pc'["timer"] \notin TimeoutPoint
    BY <1>1, <1>6
  <2> QED BY <1>1, <1>2, <2>1, <2>2, <2>3 DEF ReportInv, Clear
<1>7. ASSUME NEW c \in Context, UpdateStep(c)
      PROVE  ReportInv'
  <2>1. /\ Runs(c) /\ pc[c] \in UpdatePoint /\ \A d \in Context : d # c => pc'[d] = pc[d] /\ job'[d] = job[d]
    BY <1>7, UpdateFrame
  <2>2. raced' = raced /\ repeated' = repeated
    BY <1>7, UpdateKeeps
  <2>3. Clear(c)' => (ReportMessage(c) /\ ReportsPassed(c))'
    BY <1>7, <2>2, UpdateReports DEF Clear
  <2>4. pc'[c] \in UpdatePoint \cup {"idle"}
    BY <1>1, <1>7 DEF UpdateStep, EntryStep, EntryHead, EntryLength, EntryCopy, EntrySizing, EntryWrite, EntryFails,
       LoopEnd, Publish, Goto, UpdatePoint, EntryPoint
  <2>5. CASE c = "timer"
    <3>1. pc'["gpiote"] = "idle"
      BY <1>1, <2>1, <2>5 DEF Runs
    <3> QED BY <1>1, <1>2, <2>3, <2>5, <3>1 DEF ReportInv, Clear
  <2>6. CASE c = "gpiote"
    <3>1. pc'["timer"] = pc["timer"] /\ job'["timer"] = job["timer"]
      BY <1>1, <2>1, <2>6
    <3>2. pc'["gpiote"] \in UpdatePoint /\ ~raced' => pc'["timer"] \notin TimeoutPoint
      BY <2>1, <2>2, <2>6, <3>1 DEF ReportInv
    <3>3. ~Clear("timer")'
      BY <1>1, <2>1, <2>6, <3>1 DEF OrderInv, Clear
    <3> QED BY <1>1, <1>2, <2>3, <2>6, <3>2, <3>3 DEF ReportInv
  <2> QED BY <1>1, <2>5, <2>6
<1> QED BY <1>3, <1>4, <1>5, <1>6, <1>7, StepOfOthers

\* Whatever the queue and the readings, and whatever blocks were freed and handed out
\* meanwhile, an update that encodes the queue publishes what its sensors read when they
\* were reported, and all of it when it fits: with no report of a queued tag, none that
\* interrupts the update or the timeout handler, and no timer that polls a reported sensor.
THEOREM ReportsAreAsMade ==
    ASSUME OnceSensor \cap PolledSensor = {}
    PROVE  Spec => []ReportsAreReadings
<1>1. Init => ReportInv
  <2> SUFFICES ASSUME Init PROVE ReportInv
    OBVIOUS
  <2>1. \A c \in Context : pc[c] \notin UpdatePoint
    BY DEF Init, UpdatePoint, EntryPoint
  <2>2. once_queue = <<>>
    BY DEF Init
  <2> QED BY <2>1, <2>2 DEF ReportInv, HeldInv, Pending, Clear, Context
<1>2. ASSUME ReportInv
      PROVE  ReportsAreReadings
  <2> SUFFICES ASSUME NEW c \in Context, pc[c] = "publish", job[c].source = "once", ~job[c].disturbed,
                      ~raced, ~repeated
               PROVE  LET items   == job[c].stream.items
                          whole   == {n \in DOMAIN items : ~items[n].torn}
                          encoded == {items[n] : n \in {n \in whole : items[n].source = "once"}}
                          reports == {Reported(once_queue[k]) : k \in DOMAIN once_queue}
                      IN  /\ encoded \subseteq reports
                          /\ Room(job[c].stream) > 0 /\ whole = DOMAIN items => reports \subseteq encoded
    BY DEF ReportsAreReadings
  <2> DEFINE items == job[c].stream.items
  <2>1. ReportsPassed(c)
    BY <1>2 DEF ReportInv, Clear, UpdatePoint
  <2>2. \A n \in DOMAIN items : items[n].source = "once" /\ ~items[n].torn =>
            \E k \in DOMAIN once_queue : items[n] = Reported(once_queue[k])
    BY <2>1 DEF ReportsPassed
  <2>3. Room(job[c].stream) > 0 /\ (\A n \in DOMAIN items : ~items[n].torn) =>
            \A k \in DOMAIN once_queue : \E n \in DOMAIN items : items[n] = Reported(once_queue[k])
    BY <2>1 DEF ReportsPassed
  <2>4. \A e : Reported(e).source = "once"
    BY DEF Reported
  <2> HIDE DEF items
  <2> QED BY <2>2, <2>3, <2>4 DEF items
<1>3. ASSUME TypeInv, BlockInv, OrderInv, ReportInv, [Next]_vars
      PROVE  ReportInv'
  BY <1>3, NextReports
<1> QED BY <1>1, <1>2, <1>3, AlwaysTypeInv, AlwaysBlockInv, AlwaysOrderInv, PTL DEF Spec

=============================================================================
