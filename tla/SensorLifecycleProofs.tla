----------------------- MODULE SensorLifecycleProofs -----------------------
(***************************************************************************)
(* No pointer to a sensor dangles and no sensor is lost, for every number  *)
(* of drivers, pins and heap blocks, but through the get that clears       *)
(* another driver's static; what a pin's channel does; and that app_timer  *)
(* polls what sems_sensor.c says it polls.                                 *)
(***************************************************************************)
EXTENDS SensorLifecycle, SequenceTheorems, TLAPS

\* The points at which a call works on the sensor it was given.
Working == {"clear", "start", "store", "event", "no_event"}

\* Only a sensor has a driver, a state and handlers, and only a TSL2561's static is ever left dangling.
Blocks ==
    /\ \A b \in Block : heap[b].use = "free" => heap[b] = Free
    /\ \A b \in Block : heap[b].use = "report" => heap[b] = Report
    /\ \A b \in Block : IsSensor(b) => heap[b].driver \in Driver
    /\ misnulled \subseteq Tsl

\* A static that a failed get did not leave points to a sensor of its driver.  p_sensor_0 always does:
\* it is the first that is looked up.
Own(d) == instance[d] # NULL => IsSensor(instance[d]) /\ heap[instance[d]].driver = d

Statics == \A d \in Driver : d \notin misnulled \ {Default} => Own(d)

\* A sensor is not freed while a call works on it, and not by two calls at once.
Calls ==
    /\ \A c \in Context : pc[c] \in Working => call[c].sensor \in Block /\ IsSensor(call[c].sensor)
    /\ pc["timer"] \in {"clear", "start", "store"} /\ pc["main"] # "idle" =>
        call["timer"].sensor # call["main"].sensor
    /\ pc["timer"] \notin {"event", "no_event"}
    /\ pc["main"] \notin {"test", "handler", "handled", "leaving"}

\* A pin that is given an event, or loses it, has its channel before its sensor has the handler.
Channels ==
    LET Changes(d) == pc["main"] \in {"event", "no_event"} /\ call["main"].sensor = instance[d] IN
    /\ \A d \in Pins : Changes(d) => instance[d] # NULL
    /\ \A d \in Pins : d \in gpiote <=>
        instance[d] # NULL /\ IF Changes(d) THEN pc["main"] = "event" ELSE heap[instance[d]].event

\* What sems_sensor_uninit is still to store into is free, or was taken by a report since, and no sensor.
Stores ==
    \A c \in Context : pc[c] = "uninited" => call[c].sensor \in Block /\ ~IsSensor(call[c].sensor)

MemoryInv ==
    TypeOK /\ Blocks /\ Statics /\ Calls /\ Channels /\ Stores
    /\ HeldIsLive /\ SensorsAreRemembered

-----------------------------------------------------------------------------
(* Types.                                                                    *)

Content == [use : {"free", "report", "sensor"}, driver : Driver \cup {NULL},
            sensor_state : State, polled : BOOLEAN, event : BOOLEAN]

Requested == [op : {"start", "stop"}, timer : Driver \cup Block, sensor : Block]

Arguments == [sensor : Block \cup {NULL}, poll : BOOLEAN]

\* What a block, a request and a context's arguments can be.
LEMMA TypesUsed ==
    ASSUME TypeOK
    PROVE  /\ heap \in [Block -> Content] /\ op_queue \in Seq(Requested)
           /\ call \in [Context -> Arguments]
  BY DEF TypeOK, Content, Requested, Arguments

\* The contents the actions write are contents.
LEMMA Contents ==
    /\ Free \in Content /\ Report \in Content /\ None \in Arguments
    /\ Free.use = "free" /\ Report.use = "report"
    /\ \A d \in Driver : Setup(d) \in Content /\ Setup(d).use = "sensor" /\ Setup(d).driver = d
                         /\ Setup(d).event = FALSE
  BY DEF Content, Arguments, Free, Report, Setup, State, None

\* Timers are told apart by their drivers, and those of pins by their blocks.
LEMMA Timers ==
    ASSUME TypeOK, Blocks, NEW b \in Block, IsSensor(b)
    PROVE  Timer(b) \in Driver \cup Block /\ heap[b].driver \in Driver
  BY DEF TypeOK, Blocks, Timer

\* A context that moves is at a point of a call.
LEMMA Moves ==
    ASSUME TypeOK, NEW c \in Context, NEW p \in Point, NEW q \in Point,
           Return(c, p) \/ Goto(c, q) \/ Proceed(c, q)
    PROVE  pc' \in [Context -> Point]
  BY DEF TypeOK, Return, Proceed, Goto, Point, Context

\* A call that returns leaves both contexts at points, with arguments.
LEMMA Returns ==
    ASSUME TypeOK, NEW c \in Context, NEW p \in Point, Return(c, p)
    PROVE  call' \in [Context -> Arguments] /\ pc' \in [Context -> Point]
  BY DEF TypeOK, Return, Goto, Arguments, None, Point

\* So does one whose polling is off.
LEMMA Offs ==
    ASSUME TypeOK, NEW c \in Context, NEW a \in Arguments, Off(c, a)
    PROVE  call' \in [Context -> Arguments] /\ pc' \in [Context -> Point]
  BY Returns DEF TypeOK, Off, Goto, Arguments, Context, Point

\* A state, a polling or an event handler that is set changes one block, and no driver.
LEMMA NewStates ==
    ASSUME TypeOK, NEW b, NEW s \in State, NEW p \in BOOLEAN,
           \/ heap' = [heap EXCEPT ![b].sensor_state = s]
           \/ heap' = [heap EXCEPT ![b].sensor_state = s, ![b].polled = p]
           \/ heap' = [heap EXCEPT ![b].event = p]
    PROVE  /\ heap' \in [Block -> Content]
           /\ \A x \in Block : /\ heap'[x].use = heap[x].use /\ heap'[x].driver = heap[x].driver
                               /\ x # b => heap'[x] = heap[x]
<1>1. heap \in [Block -> Content]
  BY TypesUsed
<1>2. CASE b \notin Block
  BY <1>1, <1>2
<1>3. CASE b \in Block
  <2>1. CASE heap' = [heap EXCEPT ![b].sensor_state = s]
    BY <1>1, <1>3, <2>1 DEF Content
  <2>2. CASE heap' = [heap EXCEPT ![b].sensor_state = s, ![b].polled = p]
    <3> DEFINE first == [heap EXCEPT ![b].sensor_state = s]
    <3>1. heap' = [first EXCEPT ![b].polled = p]
      BY <2>2
    <3>2. /\ first \in [Block -> Content]
          /\ \A x \in Block : /\ first[x].use = heap[x].use /\ first[x].driver = heap[x].driver
                              /\ x # b => first[x] = heap[x]
      BY <1>1, <1>3 DEF Content
    <3> HIDE DEF first
    <3> QED BY <1>3, <3>1, <3>2 DEF Content
  <2>3. CASE heap' = [heap EXCEPT ![b].event = p]
    BY <1>1, <1>3, <2>3 DEF Content
  <2> QED BY <2>1, <2>2, <2>3
<1> QED BY <1>2, <1>3

\* A block that is given or taken is the only one that changes.
LEMMA NewContent ==
    ASSUME TypeOK, NEW b \in Block, NEW content \in Content, heap' = [heap EXCEPT ![b] = content]
    PROVE  /\ heap' \in [Block -> Content] /\ heap'[b] = content
           /\ \A x \in Block : x # b => heap'[x] = heap[x]
  BY DEF TypeOK, Content

\* A request for the timer of a sensor is a request.
LEMMA NewRequest ==
    ASSUME TypeOK, NEW r \in Requested, op_queue' = Append(op_queue, r)
    PROVE  op_queue' \in Seq(Requested)
  BY AppendProperties DEF TypeOK, Requested

\* The types of what a step leaves alone are kept.
LEMMA TypesKept ==
    ASSUME TypeOK,
           heap' \in [Block -> Content], instance' \in [Driver -> Block \cup {NULL}],
           linked' = linked, op_queue' \in Seq(Requested), gpiote' \subseteq Pins,
           held' \in [Driver -> Block \cup {NULL}], pc' \in [Context -> Point],
           call' \in [Context -> Arguments], misnulled' \subseteq Driver, failed' \subseteq Driver,
           raced' \in BOOLEAN
    PROVE  TypeOK'
  BY DEF TypeOK, Content, Requested, Arguments


\* The static that is cleared is the one the sensor was found in.
LEMMA Forgets ==
    ASSUME TypeOK, Blocks, NEW b \in Block, IsSensor(b), Remembered(b), Forget(b)
    PROVE  /\ Forgotten(b) \in Driver /\ instance[Forgotten(b)] = b
           /\ instance' = [instance EXCEPT ![Forgotten(b)] = NULL]
           /\ instance' \in [Driver -> Block \cup {NULL}] /\ misnulled' \subseteq Driver
<1>1. heap[b].driver \in Driver
  BY DEF Blocks
<1>2. Forgotten(b) \in Driver /\ instance[Forgotten(b)] = b
  <2>1. CASE heap[b].driver \notin Tsl
    <3>1. Forgotten(b) = heap[b].driver
      BY <2>1 DEF Forgotten
    <3> QED BY <1>1, <2>1, <3>1 DEF Remembered
  <2>2. CASE heap[b].driver \in Tsl /\ instance[Default] = b
    <3>1. Forgotten(b) = Default
      BY <2>2 DEF Forgotten
    <3> QED BY <2>2, <3>1, DriverAssumption DEF Driver
  <2>3. CASE heap[b].driver \in Tsl /\ instance[Default] # b
    <3>1. Forgotten(b) = CHOOSE d \in Found(b) : TRUE
      BY <2>3 DEF Forgotten
    <3>2. Found(b) # {}
      BY <2>3 DEF Remembered
    <3>3. Forgotten(b) \in Found(b)
      BY <3>1, <3>2
    <3> QED BY <3>3 DEF Found, Driver
  <2> QED BY <2>1, <2>2, <2>3
<1> QED BY <1>1, <1>2 DEF Forget, TypeOK

-----------------------------------------------------------------------------
(* Steps.                                                                    *)

\* A step that frees nothing, allocates nothing and hands out nothing.
SameBlocks ==
    \A x \in Block : /\ heap'[x].use = heap[x].use /\ heap'[x].driver = heap[x].driver
                     /\ heap[x].use # "sensor" => heap'[x] = heap[x]

\* A step that changes no driver of a sensor and no pointer keeps what the pointers point to.
LEMMA PointersKept ==
    ASSUME MemoryInv, SameBlocks, UNCHANGED <<instance, held, misnulled, failed>>
    PROVE  Blocks' /\ Statics' /\ HeldIsLive' /\ SensorsAreRemembered'
<1>0. TypeOK /\ Blocks /\ Statics /\ HeldIsLive /\ SensorsAreRemembered
  BY DEF MemoryInv
<1>1. Blocks'
  BY <1>0 DEF Blocks, SameBlocks, IsSensor
<1>2. Statics'
  BY <1>0 DEF Statics, Own, SameBlocks, IsSensor, TypeOK
<1>3. HeldIsLive'
  BY <1>0 DEF HeldIsLive, SameBlocks, IsSensor, TypeOK
<1>4. SensorsAreRemembered'
  BY <1>0 DEF SensorsAreRemembered, SameBlocks, IsSensor
<1> QED BY <1>1, <1>2, <1>3, <1>4

\* A block that is no sensor's is given to a report, or taken from it.
LEMMA ReportsKept ==
    ASSUME MemoryInv, NEW b \in Block, ~IsSensor(b), NEW content \in {Free, Report},
           heap' = [heap EXCEPT ![b] = content], UNCHANGED <<instance, held, misnulled, failed>>
    PROVE  /\ Blocks' /\ Statics' /\ HeldIsLive' /\ SensorsAreRemembered'
           /\ heap'[b] = content /\ ~IsSensor(b)' /\ \A x \in Block : x # b => heap'[x] = heap[x]
<1>0. TypeOK /\ Blocks /\ Statics /\ HeldIsLive /\ SensorsAreRemembered
  BY DEF MemoryInv
<1>1. /\ heap'[b] = content /\ heap'[b].use # "sensor"
      /\ \A x \in Block : x # b => heap'[x] = heap[x]
  BY <1>0, Contents, NewContent
<1>2. Blocks'
  BY <1>0, <1>1, Contents DEF Blocks, IsSensor
<1>3. Statics'
  BY <1>0, <1>1 DEF Statics, Own, IsSensor, TypeOK
<1>4. HeldIsLive'
  BY <1>0, <1>1 DEF HeldIsLive, IsSensor, TypeOK
<1>5. SensorsAreRemembered'
  BY <1>0, <1>1 DEF SensorsAreRemembered, IsSensor
<1> QED BY <1>1, <1>2, <1>3, <1>4, <1>5 DEF IsSensor

\* A driver frees a sensor.  The static it clears is the sensor's own, or one that a failed get left.
LEMMA Freed ==
    ASSUME MemoryInv, NEW b \in Block, IsSensor(b), Remembered(b), FreeSensor(b), Forget(b),
           \/ held' = [held EXCEPT ![heap[b].driver] = NULL] /\ failed' = failed
           \/ held' = held /\ failed' = failed \cup {heap[b].driver}
    PROVE  /\ Blocks' /\ Statics' /\ HeldIsLive' /\ SensorsAreRemembered'
           /\ heap' \in [Block -> Content] /\ instance' \in [Driver -> Block \cup {NULL}]
           /\ held' \in [Driver -> Block \cup {NULL}] /\ misnulled' \subseteq Driver
           /\ failed' \subseteq Driver
           /\ heap'[b] = Free /\ \A x \in Block : x # b => heap'[x] = heap[x]
           /\ \A d \in Pins : instance'[d] = IF instance[d] = b THEN NULL ELSE instance[d]
<1>0. TypeOK /\ Blocks /\ Statics /\ HeldIsLive /\ SensorsAreRemembered
  BY DEF MemoryInv
<1> DEFINE f == Forgotten(b)
<1>1. /\ f \in Driver /\ instance[f] = b /\ instance' = [instance EXCEPT ![f] = NULL]
      /\ instance' \in [Driver -> Block \cup {NULL}] /\ misnulled' \subseteq Driver
  BY <1>0, Forgets
<1>2. heap' \in [Block -> Content] /\ heap'[b] = Free /\ \A x \in Block : x # b => heap'[x] = heap[x]
  BY <1>0, Contents, NewContent DEF FreeSensor
<1>3. heap[b].driver \in Driver /\ NULL \notin Driver \cup Block
  BY <1>0, DriverAssumption DEF Blocks
<1>4. misnulled' = misnulled \cup {d \in {heap[b].driver} : f \in misnulled}
  BY DEF Forget
<1>5. \* The sensor's own static is cleared too, unless the driver is one of those it may be lost to.
      f = heap[b].driver \/ heap[b].driver \in misnulled'
  BY <1>0, <1>1, <1>3, <1>4 DEF Statics, Own
<1>6. instance[Default] = b /\ Default \in Driver => f = Default
  <2>1. SUFFICES ASSUME instance[Default] = b, Default \in Driver PROVE f = Default
    OBVIOUS
  <2>2. heap[b].driver = Default
    BY <1>0, <1>3, <2>1 DEF Statics, Own
  <2> QED BY <2>1, <2>2 DEF Forgotten
<1> HIDE DEF f
<1>7. Blocks'
  <2>1. misnulled' \subseteq Tsl
    <3>1. f \in misnulled => heap[b].driver \in Tsl
      BY <1>0 DEF Blocks, f, Forgotten
    <3> QED BY <1>0, <1>4, <3>1 DEF Blocks
  <2> QED BY <1>0, <1>2, <2>1, Contents DEF Blocks, IsSensor
<1>8. Statics'
  <2> SUFFICES ASSUME NEW d \in Driver, d \notin misnulled' \ {Default}, instance'[d] # NULL
               PROVE  IsSensor(instance[d])' /\ heap'[instance'[d]].driver = d
    BY DEF Statics, Own
  <2>1. d # f /\ instance'[d] = instance[d] /\ instance[d] \in Block /\ d \notin misnulled \ {Default}
    BY <1>0, <1>1, <1>4 DEF TypeOK
  <2>2. IsSensor(instance[d]) /\ heap[instance[d]].driver = d
    BY <1>0, <2>1 DEF Statics, Own
  <2>3. instance[d] # b
    BY <1>5, <1>6, <2>1, <2>2
  <2> QED BY <1>2, <2>1, <2>2, <2>3 DEF IsSensor
<1>9. HeldIsLive'
  <2> SUFFICES ASSUME NEW d \in Driver, d \notin misnulled', d \notin failed', held'[d] # NULL
               PROVE  IsSensor(held[d])' /\ heap'[held'[d]].driver = d
    BY DEF HeldIsLive
  <2>1. d # heap[b].driver /\ held'[d] = held[d] /\ d \notin misnulled \cup failed /\ held[d] \in Block
    BY <1>0, <1>3, <1>4 DEF TypeOK
  <2>2. IsSensor(held[d]) /\ heap[held[d]].driver = d
    BY <1>0, <2>1 DEF HeldIsLive
  <2> QED BY <1>2, <2>1, <2>2 DEF IsSensor
<1>10. SensorsAreRemembered'
  <2> SUFFICES ASSUME NEW x \in Block, IsSensor(x)', heap'[x].driver \notin misnulled'
               PROVE  instance'[heap'[x].driver] = x
    BY DEF SensorsAreRemembered
  <2>1. x # b /\ heap'[x] = heap[x]
    BY <1>2, Contents DEF IsSensor
  <2>2. IsSensor(x) /\ heap[x].driver \in Driver /\ instance[heap[x].driver] = x
    BY <1>0, <1>4, <2>1 DEF SensorsAreRemembered, Blocks, IsSensor
  <2> QED BY <1>0, <1>1, <2>1, <2>2 DEF TypeOK
<1>11. \A d \in Pins : instance'[d] = IF instance[d] = b THEN NULL ELSE instance[d]
  <2> SUFFICES ASSUME NEW d \in Pins PROVE instance'[d] = IF instance[d] = b THEN NULL ELSE instance[d]
    OBVIOUS
  <2>1. d \in Driver /\ d \notin misnulled
    BY <1>0, DriverAssumption DEF Driver, Blocks
  <2>2. instance[d] = b => heap[b].driver = d
    BY <1>0, <1>3, <2>1 DEF Statics, Own
  <2>3. instance[d] = b => f = d
    BY <2>2, DriverAssumption DEF f, Forgotten
  <2> QED BY <1>0, <1>1, <2>1, <2>3 DEF TypeOK
<1>12. held' \in [Driver -> Block \cup {NULL}] /\ failed' \subseteq Driver
  BY <1>0, <1>3 DEF TypeOK
<1> QED BY <1>1, <1>2, <1>7, <1>8, <1>9, <1>10, <1>11, <1>12

Events == {"event", "no_event"}

\* Main is not giving a pin an event, before or after, or goes on with it.
MainKept ==
    \/ pc["main"] \notin Events /\ pc'["main"] \notin Events
    \/ pc'["main"] = pc["main"] /\ call'["main"] = call["main"]

\* A step that changes no event handler keeps the channels in agreement with them.
LEMMA ChannelsKept ==
    ASSUME MemoryInv, MainKept, gpiote' = gpiote,
           \A d \in Pins : instance'[d] = instance[d],
           \A x \in Block : IsSensor(x) => heap'[x].event = heap[x].event
    PROVE  Channels'
<1>0. TypeOK /\ Statics /\ Channels /\ Blocks
  BY DEF MemoryInv
<1>1. ASSUME NEW d \in Pins, instance[d] # NULL
      PROVE  heap'[instance[d]].event = heap[instance[d]].event
  <2>1. d \in Driver /\ d \notin misnulled
    BY <1>0, DriverAssumption DEF Driver, Blocks
  <2>2. instance[d] \in Block /\ IsSensor(instance[d])
    BY <1>0, <1>1, <2>1 DEF Statics, Own, TypeOK
  <2> QED BY <2>2
<1> QED BY <1>0, <1>1 DEF Channels, MainKept, Events

\* A pin's driver that frees its sensor gives the channel back too.
LEMMA ChannelsFreed ==
    ASSUME MemoryInv, MainKept, NEW b \in Block, IsSensor(b),
           gpiote' = gpiote \ {heap[b].driver},
           \A d \in Pins : instance'[d] = (IF instance[d] = b THEN NULL ELSE instance[d]),
           \A x \in Block : x # b => heap'[x] = heap[x],
           pc["main"] \in Events => call["main"].sensor # b
    PROVE  Channels'
<1>0. TypeOK /\ Statics /\ Channels /\ Calls /\ Blocks /\ SensorsAreRemembered /\ NULL \notin Block
  BY DriverAssumption DEF MemoryInv
<1>1. ASSUME NEW d \in Pins
      PROVE  /\ instance[d] # NULL => instance[d] \in Block
             /\ instance[d] = b <=> heap[b].driver = d
  <2>1. d \in Driver /\ d \notin misnulled
    BY <1>0, DriverAssumption DEF Driver, Blocks
  <2> QED BY <1>0, <2>1 DEF Statics, Own, TypeOK, SensorsAreRemembered
<1>2. SUFFICES ASSUME NEW d \in Pins
                PROVE  LET Changes == pc'["main"] \in Events /\ call'["main"].sensor = instance'[d] IN
                       /\ Changes => instance'[d] # NULL
                       /\ d \in gpiote' <=> instance'[d] # NULL /\ IF Changes THEN pc'["main"] = "event"
                                                                   ELSE heap'[instance'[d]].event
  BY DEF Channels, Events
<1>3. CASE instance[d] = b
  <2>1. instance'[d] = NULL /\ d \notin gpiote'
    BY <1>1, <1>3
  <2>2. ~(pc'["main"] \in Events /\ call'["main"].sensor = NULL)
    BY <1>0 DEF MainKept, Calls, Events, Working, Context
  <2> QED BY <2>1, <2>2
<1>4. CASE instance[d] # b
  <2>1. instance'[d] = instance[d] /\ (d \in gpiote' <=> d \in gpiote)
    BY <1>1, <1>4
  <2>2. instance[d] # NULL => heap'[instance[d]] = heap[instance[d]]
    BY <1>1, <1>4
  <2> QED BY <1>0, <1>1, <1>4 DEF Channels, MainKept, Events
<1> QED BY <1>3, <1>4

\* A get that finds its sensor hands out a pointer that is live.
LEMMA GetAgainMemory ==
    ASSUME MemoryInv, NEW d \in Driver, GetAgain(d)
    PROVE  MemoryInv'
<1>0. /\ TypeOK /\ Blocks /\ Statics /\ Calls /\ Channels /\ Stores
      /\ HeldIsLive /\ SensorsAreRemembered
  BY DEF MemoryInv
<1>2. Blocks' /\ Statics' /\ HeldIsLive' /\ SensorsAreRemembered'
  BY <1>0 DEF Blocks, Statics, Own, HeldIsLive, SensorsAreRemembered, IsSensor, TypeOK, GetAgain
<1>3. Calls'
  BY <1>0 DEF Calls, IsSensor, GetAgain
<1>4. Channels'
  BY <1>0 DEF Channels, GetAgain
<1>5. Stores'
  BY <1>0 DEF Stores, IsSensor, GetAgain
<1>1. TypeOK'
  BY <1>0 DEF TypeOK, GetAgain
<1> QED BY <1>1, <1>2, <1>3, <1>4, <1>5 DEF MemoryInv

\* A get that allocates takes a block no static, pointer or call has.
LEMMA GetNewMemory ==
    ASSUME MemoryInv, NEW d \in Driver, GetNew(d)
    PROVE  MemoryInv'
<1>0. /\ TypeOK /\ Blocks /\ Statics /\ Calls /\ Channels /\ Stores
      /\ HeldIsLive /\ SensorsAreRemembered
  BY DEF MemoryInv
<1>2. Blocks' /\ Statics' /\ HeldIsLive' /\ SensorsAreRemembered'
  <2>1. PICK b \in Block : /\ heap[b] = Free /\ heap' = [heap EXCEPT ![b] = Setup(d)]
                           /\ instance' = [instance EXCEPT ![d] = b] /\ held' = [held EXCEPT ![d] = b]
    BY DEF GetNew
  <2>2. /\ heap'[b] = Setup(d) /\ heap'[b].use = "sensor" /\ heap'[b].driver = d /\ ~IsSensor(b)
        /\ \A x \in Block : x # b => heap'[x] = heap[x]
    BY <1>0, <2>1, Contents, NewContent DEF IsSensor
  <2>3. instance[d] = NULL /\ misnulled' = misnulled /\ failed' = failed \ {d}
    BY DEF GetNew
  <2>4. Blocks'
    BY <1>0, <2>2, <2>3 DEF Blocks, IsSensor
  <2>5. Statics'
    BY <1>0, <2>1, <2>2, <2>3 DEF Statics, Own, IsSensor
  <2>6. HeldIsLive'
    BY <1>0, <2>1, <2>2, <2>3 DEF HeldIsLive, IsSensor, TypeOK
  <2>7. SensorsAreRemembered'
    BY <1>0, <2>1, <2>2, <2>3, DriverAssumption DEF SensorsAreRemembered, IsSensor, TypeOK
  <2> QED BY <2>4, <2>5, <2>6, <2>7
<1>3. Calls'
  BY <1>0, Contents DEF Calls, IsSensor, GetNew
<1>4. Channels'
  <2>1. PICK b \in Block : /\ heap[b] = Free /\ heap' = [heap EXCEPT ![b] = Setup(d)]
                           /\ instance' = [instance EXCEPT ![d] = b]
    BY DEF GetNew
  <2>2. /\ heap'[b].event = FALSE /\ ~IsSensor(b)
        /\ \A x \in Block : x # b => heap'[x] = heap[x]
    BY <1>0, <2>1, Contents, NewContent DEF IsSensor
  <2>3. instance[d] = NULL /\ gpiote' = gpiote /\ pc["main"] = "idle" /\ pc'["main"] = "idle"
    BY DEF GetNew, At
  <2>4. ASSUME NEW p \in Pins, p # d, instance[p] # NULL
        PROVE  instance[p] \in Block /\ heap'[instance[p]] = heap[instance[p]]
    <3>1. p \in Driver /\ p \notin misnulled
      BY <1>0, DriverAssumption DEF Driver, Blocks
    <3> QED BY <1>0, <2>2, <2>4, <3>1 DEF Statics, Own, TypeOK
  <2> QED BY <1>0, <2>1, <2>2, <2>3, <2>4 DEF Channels
<1>5. Stores'
  BY <1>0 DEF Stores, IsSensor, GetNew, At, Runs, Context
<1>1. TypeOK'
  <2>1. PICK b \in Block : /\ heap' = [heap EXCEPT ![b] = Setup(d)]
                           /\ instance' = [instance EXCEPT ![d] = b] /\ held' = [held EXCEPT ![d] = b]
    BY DEF GetNew
  <2>2. heap' \in [Block -> Content]
    BY <1>0, <2>1, Contents, NewContent
  <2>3. UNCHANGED <<linked, op_queue, gpiote, pc, call, misnulled, raced>> /\ failed' \subseteq Driver
    BY <1>0 DEF GetNew, TypeOK
  <2> QED BY <1>0, <2>1, <2>2, <2>3 DEF TypeOK, Content
<1> QED BY <1>1, <1>2, <1>3, <1>4, <1>5 DEF MemoryInv

\* A get that fails clears the pointer it returns.
LEMMA GetFailsMemory ==
    ASSUME MemoryInv, NEW d \in Driver, GetFails(d)
    PROVE  MemoryInv'
<1>0. /\ TypeOK /\ Blocks /\ Statics /\ Calls /\ Channels /\ Stores
      /\ HeldIsLive /\ SensorsAreRemembered
  BY DEF MemoryInv
<1>2. Blocks' /\ Statics' /\ HeldIsLive' /\ SensorsAreRemembered'
  BY <1>0 DEF Blocks, Statics, Own, HeldIsLive, SensorsAreRemembered, IsSensor, TypeOK, GetFails
<1>3. Calls'
  BY <1>0 DEF Calls, IsSensor, GetFails
<1>4. Channels'
  BY <1>0 DEF Channels, GetFails
<1>5. Stores'
  BY <1>0 DEF Stores, IsSensor, GetFails
<1>1. TypeOK'
  BY <1>0 DEF TypeOK, GetFails
<1> QED BY <1>1, <1>2, <1>3, <1>4, <1>5 DEF MemoryInv

\* A get of another TSL2561 that fails is recorded in misnulled, with p_sensor_0.
LEMMA GetFailsOtherMemory ==
    ASSUME MemoryInv, NEW d \in Driver, GetFailsOther(d)
    PROVE  MemoryInv'
<1>0. /\ TypeOK /\ Blocks /\ Statics /\ Calls /\ Channels /\ Stores
      /\ HeldIsLive /\ SensorsAreRemembered
  BY DEF MemoryInv
<1>2. Blocks' /\ Statics' /\ HeldIsLive' /\ SensorsAreRemembered'
  BY <1>0, DriverAssumption DEF Blocks, Statics, Own, HeldIsLive, SensorsAreRemembered, IsSensor,
      TypeOK, GetFailsOther
<1>3. Calls'
  BY <1>0 DEF Calls, IsSensor, GetFailsOther
<1>4. Channels'
  <2>1. \A p \in Pins : instance'[p] = instance[p]
    BY <1>0, DriverAssumption DEF GetFailsOther, TypeOK, Driver
  <2> QED BY <2>1, ChannelsKept DEF GetFailsOther, MainKept
<1>5. Stores'
  BY <1>0 DEF Stores, IsSensor, GetFailsOther
<1>1. TypeOK'
  <2>1. Default \in Driver
    BY DriverAssumption DEF GetFailsOther, Driver
  <2>2. instance' \in [Driver -> Block \cup {NULL}] /\ misnulled' \subseteq Driver
    BY <1>0, <2>1 DEF GetFailsOther, TypeOK
  <2> QED BY <1>0, <2>2 DEF GetFailsOther, TypeOK
<1> QED BY <1>1, <1>2, <1>3, <1>4, <1>5 DEF MemoryInv

\* A pin change takes a free block for its report.
LEMMA PinEventMemory ==
    ASSUME MemoryInv, NEW d \in Driver, PinEvent(d)
    PROVE  MemoryInv'
<1>0. /\ TypeOK /\ Blocks /\ Statics /\ Calls /\ Channels /\ Stores
      /\ HeldIsLive /\ SensorsAreRemembered
  BY DEF MemoryInv
<1>2. Blocks' /\ Statics' /\ HeldIsLive' /\ SensorsAreRemembered'
  <2>1. PICK b \in Block : heap[b] = Free /\ heap' = [heap EXCEPT ![b] = Report]
    BY DEF PinEvent
  <2>2. ~IsSensor(b)
    BY <2>1, Contents DEF IsSensor
  <2> QED BY <2>1, <2>2, ReportsKept DEF PinEvent
<1>3. Calls'
  BY <1>0, Contents DEF Calls, IsSensor, PinEvent
<1>4. Channels'
  BY <1>0 DEF Channels, PinEvent, Report
<1>5. Stores'
  <2>1. PICK b \in Block : heap' = [heap EXCEPT ![b] = Report]
    BY DEF PinEvent
  <2>2. heap'[b].use = "report" /\ \A x \in Block : x # b => heap'[x] = heap[x]
    BY <1>0, <2>1, Contents, NewContent
  <2> QED BY <1>0, <2>2 DEF PinEvent, Stores, IsSensor
<1>1. TypeOK'
  BY <1>0, Contents DEF TypeOK, Content, PinEvent
<1> QED BY <1>1, <1>2, <1>3, <1>4, <1>5 DEF MemoryInv

\* An init that succeeds changes the state of a sensor only.
LEMMA InitOkMemory ==
    ASSUME MemoryInv, NEW b \in Block, InitOk(b)
    PROVE  MemoryInv'
<1>0. /\ TypeOK /\ Blocks /\ Statics /\ Calls /\ Channels /\ Stores
      /\ HeldIsLive /\ SensorsAreRemembered
  BY DEF MemoryInv
<1>p. SameBlocks /\ UNCHANGED <<instance, held, misnulled, failed>> /\ heap' \in [Block -> Content]
  BY <1>0, NewStates DEF InitOk, SameBlocks, world, CanInit, State, Passed, IsSensor
<1>2. Blocks' /\ Statics' /\ HeldIsLive' /\ SensorsAreRemembered'
  BY <1>p, PointersKept
<1>3. Calls'
  BY <1>0 DEF Calls, IsSensor, InitOk
<1>4. Channels'
  BY <1>0 DEF Channels, InitOk, world
<1>5. Stores'
  BY <1>0, <1>p DEF Stores, IsSensor, SameBlocks, InitOk, world
<1>1. TypeOK'
  BY <1>0, <1>p, TypesKept, TypesUsed DEF TypeOK, InitOk, world
<1> QED BY <1>1, <1>2, <1>3, <1>4, <1>5 DEF MemoryInv

\* An init that fails has its driver free the sensor, and records that the caller still has it.
LEMMA InitFailsMemory ==
    ASSUME MemoryInv, NEW b \in Block, InitFails(b)
    PROVE  MemoryInv'
<1>0. /\ TypeOK /\ Blocks /\ Statics /\ Calls /\ Channels /\ Stores
      /\ HeldIsLive /\ SensorsAreRemembered
  BY DEF MemoryInv
<1>2. Blocks' /\ Statics' /\ HeldIsLive' /\ SensorsAreRemembered'
  <2>1. b \in Block /\ IsSensor(b) /\ Remembered(b) /\ held' = held
    BY DEF InitFails, CanInit, Passed
  <2> QED BY <2>1, Freed DEF InitFails
<1>3. Calls'
  BY DEF Calls, InitFails, At, Runs, Passed, Context, Working, CanInit
<1>4. Channels'
  <2>1. b \in Block /\ IsSensor(b) /\ Remembered(b) /\ held' = held /\ pc["main"] = "idle"
    BY DEF InitFails, CanInit, Passed, At
  <2>2. gpiote' = gpiote \ {heap[b].driver}
    BY <1>0, DriverAssumption DEF InitFails, TypeOK
  <2>3. /\ \A d \in Pins : instance'[d] = (IF instance[d] = b THEN NULL ELSE instance[d])
        /\ \A x \in Block : x # b => heap'[x] = heap[x]
    BY <2>1, Freed DEF InitFails
  <2> QED BY <2>1, <2>2, <2>3, ChannelsFreed DEF InitFails, MainKept, Events
<1>5. Stores'
  BY <1>0 DEF Stores, IsSensor, InitFails, At, Runs, Passed, Context, CanInit
<1>1. TypeOK'
  <2>1. b \in Block /\ IsSensor(b) /\ Remembered(b) /\ held' = held
    BY DEF InitFails, CanInit, Passed
  <2>2. /\ heap' \in [Block -> Content] /\ instance' \in [Driver -> Block \cup {NULL}]
        /\ held' \in [Driver -> Block \cup {NULL}] /\ misnulled' \subseteq Driver /\ failed' \subseteq Driver
    BY <2>1, Freed DEF InitFails
  <2> QED BY <1>0, <2>2 DEF InitFails, TypeOK, Content
<1> QED BY <1>1, <1>2, <1>3, <1>4, <1>5 DEF MemoryInv

\* Setting an event handler gives, or takes, the channel before the handler is stored.
LEMMA SetEventMemory ==
    ASSUME MemoryInv, NEW b \in Block, NEW enable \in BOOLEAN, SetEvent(b, enable)
    PROVE  MemoryInv'
<1>0. /\ TypeOK /\ Blocks /\ Statics /\ Calls /\ Channels /\ Stores
      /\ HeldIsLive /\ SensorsAreRemembered
  BY DEF MemoryInv
<1>p. SameBlocks /\ UNCHANGED <<heap, instance, held, misnulled, failed>>
  BY DEF SetEvent, SameBlocks, world, history
<1>2. Blocks' /\ Statics' /\ HeldIsLive' /\ SensorsAreRemembered'
  BY <1>p, PointersKept
<1>3. Calls'
  BY <1>0 DEF Calls, IsSensor, TypeOK, SetEvent, Goto, At, Runs, Passed
<1>4. Channels'
  <2> DEFINE pin == heap[b].driver
  <2>1. /\ pin \in Pins /\ instance[pin] = b /\ b \in Block /\ IsSensor(b) /\ pc["main"] = "idle"
        /\ (pin \in gpiote) = ~enable
        /\ gpiote' = IF enable THEN gpiote \cup {pin} ELSE gpiote \ {pin}
        /\ call'["main"].sensor = b /\ pc'["main"] = (IF enable THEN "event" ELSE "no_event")
        /\ UNCHANGED <<heap, instance>>
    BY <1>0, DriverAssumption DEF SetEvent, Remembered, Passed, At, Goto, TypeOK, Context
  <2>2. ASSUME NEW d \in Pins, d # pin
        PROVE  instance[d] # b
    <3>1. d \in Driver /\ d \notin misnulled
      BY <1>0, DriverAssumption DEF Driver, Blocks
    <3> QED BY <1>0, <2>2, <3>1, DriverAssumption DEF Statics, Own
  <2> HIDE DEF pin
  <2> QED BY <1>0, <2>1, <2>2, DriverAssumption DEF Channels
<1>5. Stores'
  BY <1>0 DEF Stores, IsSensor, TypeOK, SetEvent, Goto, history
<1>1. TypeOK'
  BY <1>0 DEF TypeOK, Point, SetEvent, Goto, history, Context
<1> QED BY <1>1, <1>2, <1>3, <1>4, <1>5 DEF MemoryInv

\* A poll that is entered works on a live sensor.
LEMMA PollEnterMemory ==
    ASSUME MemoryInv, NEW c \in Context, NEW b \in Block, PollEnter(c, b)
    PROVE  MemoryInv'
<1>0. /\ TypeOK /\ Blocks /\ Statics /\ Calls /\ Channels /\ Stores
      /\ HeldIsLive /\ SensorsAreRemembered
  BY DEF MemoryInv
<1>p. SameBlocks /\ UNCHANGED <<heap, instance, held, misnulled, failed>>
  BY DEF PollEnter, SameBlocks, world, history
<1>2. Blocks' /\ Statics' /\ HeldIsLive' /\ SensorsAreRemembered'
  BY <1>p, PointersKept
<1>3. Calls'
  BY <1>0 DEF Calls, IsSensor, TypeOK, PollEnter, Goto, Return, At, Runs, Passed, Context,
      Working, Off
<1>4. Channels'
  BY <1>0 DEF Channels, TypeOK, PollEnter, Goto, Return, At, Passed, world, Context, Off
<1>5. Stores'
  BY <1>0 DEF Stores, IsSensor, TypeOK, PollEnter, Goto, Return, world, Context, Off
<1>1. TypeOK'
  <2>1. PICK poll \in BOOLEAN :
            LET arguments == [sensor |-> b, poll |-> poll] IN
            /\ \/ Off(c, arguments) \/ Return(c, "handled")
               \/ Goto(c, "clear") /\ call' = [call EXCEPT ![c] = arguments]
            /\ \/ op_queue' = op_queue
               \/ op_queue' = Append(op_queue, [op |-> "stop", timer |-> Timer(b), sensor |-> b])
    BY DEF PollEnter
  <2>2. b \in Block /\ IsSensor(b) /\ [sensor |-> b, poll |-> poll] \in Arguments
    BY DEF PollEnter, Passed, Arguments
  <2>3. call' \in [Context -> Arguments] /\ pc' \in [Context -> Point]
    BY <1>0, <2>1, <2>2, Offs, Returns, Moves, TypesUsed DEF Point
  <2>4. [op |-> "stop", timer |-> Timer(b), sensor |-> b] \in Requested
    BY <1>0, <2>2, Timers DEF Requested
  <2>5. op_queue' \in Seq(Requested)
    BY <1>0, <2>1, <2>4, NewRequest, TypesUsed
  <2> QED BY <1>0, <2>3, <2>5, TypesKept, TypesUsed DEF PollEnter, world, TypeOK
<1> QED BY <1>1, <1>2, <1>3, <1>4, <1>5 DEF MemoryInv

\* An uninit has the driver free the sensor, while no other call works on it.
LEMMA UninitFreeMemory ==
    ASSUME MemoryInv, NEW c \in Context, NEW b \in Block, UninitFree(c, b)
    PROVE  MemoryInv'
<1>0. /\ TypeOK /\ Blocks /\ Statics /\ Calls /\ Channels /\ Stores
      /\ HeldIsLive /\ SensorsAreRemembered
  BY DEF MemoryInv
<1>2. Blocks' /\ Statics' /\ HeldIsLive' /\ SensorsAreRemembered'
  <2>1. b \in Block /\ IsSensor(b) /\ Remembered(b)
    BY DEF UninitFree, Release, Passed
  <2> QED BY <2>1, Freed DEF UninitFree, Release
<1>3. Calls'
  BY <1>0 DEF Calls, IsSensor, UninitFree, Goto, At, Runs, Passed, Context, Working, Release,
      FreeSensor
<1>4. Channels'
  <2>1. b \in Block /\ IsSensor(b) /\ Remembered(b)
    BY DEF UninitFree, Release, Passed
  <2>2. gpiote' = gpiote \ {heap[b].driver}
    BY DEF UninitFree, Release
  <2>3. /\ \A d \in Pins : instance'[d] = (IF instance[d] = b THEN NULL ELSE instance[d])
        /\ \A x \in Block : x # b => heap'[x] = heap[x]
    BY <2>1, Freed DEF UninitFree, Release
  <2>4. MainKept /\ (pc["main"] \in Events => call["main"].sensor # b)
    BY DEF UninitFree, Passed, At, Goto, MainKept, Events
  <2> QED BY <2>1, <2>2, <2>3, <2>4, ChannelsFreed
<1>5. Stores'
  BY <1>0, Contents DEF Stores, IsSensor, TypeOK, UninitFree, Goto, Release, FreeSensor
<1>1. TypeOK'
  <2>1. b \in Block /\ IsSensor(b) /\ Remembered(b)
    BY DEF UninitFree, Release, Passed
  <2>2. /\ heap' \in [Block -> Content] /\ instance' \in [Driver -> Block \cup {NULL}]
        /\ held' \in [Driver -> Block \cup {NULL}] /\ misnulled' \subseteq Driver /\ failed' \subseteq Driver
    BY <2>1, Freed DEF UninitFree, Release
  <2>3. pc' \in [Context -> Point] /\ call' \in [Context -> Arguments] /\ gpiote' \subseteq Pins
    BY <1>0 DEF UninitFree, Release, Goto, TypeOK, Point, Arguments
  <2> QED BY <1>0, <2>2, <2>3, TypesKept, TypesUsed DEF UninitFree, TypeOK
<1> QED BY <1>1, <1>2, <1>3, <1>4, <1>5 DEF MemoryInv

\* Clearing the polling handler keeps the sensor a sensor.
LEMMA PollClearMemory ==
    ASSUME MemoryInv, NEW c \in Context, PollClear(c)
    PROVE  MemoryInv'
<1>0. /\ TypeOK /\ Blocks /\ Statics /\ Calls /\ Channels /\ Stores
      /\ HeldIsLive /\ SensorsAreRemembered
  BY DEF MemoryInv
<1>p. SameBlocks /\ UNCHANGED <<instance, held, misnulled, failed>> /\ heap' \in [Block -> Content]
  BY <1>0, NewStates DEF PollClear, SameBlocks, world, State, At, Calls, Working, IsSensor
<1>2. Blocks' /\ Statics' /\ HeldIsLive' /\ SensorsAreRemembered'
  BY <1>p, PointersKept
<1>3. Calls'
  BY <1>0, DriverAssumption, Contents DEF Calls, IsSensor, TypeOK, PollClear, Goto, Return, At,
      Runs, world, None, Context, Working, Off
<1>4. Channels'
  <2>1. \A x \in Block : heap'[x].event = heap[x].event
    BY <1>0, TypesUsed DEF PollClear, Content
  <2>2. MainKept
    BY <1>0 DEF PollClear, Off, Return, Goto, At, MainKept, Events, TypeOK, Context
  <2> QED BY <2>1, <2>2, ChannelsKept DEF PollClear, world
<1>5. Stores'
  BY <1>0, DriverAssumption, Contents DEF Stores, IsSensor, Calls, TypeOK,
      PollClear, Goto, Return, At, Runs, world, None, Context, Working, Off
<1>1. TypeOK'
  <2>1. call' \in [Context -> Arguments] /\ pc' \in [Context -> Point]
    BY <1>0, Offs, TypesUsed DEF PollClear
  <2> QED BY <1>0, <1>p, <2>1, TypesKept, TypesUsed DEF PollClear, world, TypeOK
<1> QED BY <1>1, <1>2, <1>3, <1>4, <1>5 DEF MemoryInv

\* Requesting a start of the timer changes no sensor.
LEMMA PollStartMemory ==
    ASSUME MemoryInv, NEW c \in Context, PollStart(c)
    PROVE  MemoryInv'
<1>0. /\ TypeOK /\ Blocks /\ Statics /\ Calls /\ Channels /\ Stores
      /\ HeldIsLive /\ SensorsAreRemembered
  BY DEF MemoryInv
<1>p. SameBlocks /\ UNCHANGED <<heap, instance, held, misnulled, failed>>
  BY DEF PollStart, SameBlocks, world, history
<1>2. Blocks' /\ Statics' /\ HeldIsLive' /\ SensorsAreRemembered'
  BY <1>p, PointersKept
<1>3. Calls'
  BY <1>0 DEF Calls, IsSensor, TypeOK, PollStart, Goto, Proceed, Return, At, Context, Working
<1>4. Channels'
  BY <1>0 DEF Channels, TypeOK, PollStart, Goto, Proceed, Return, At, world, Context
<1>5. Stores'
  BY <1>0 DEF Stores, IsSensor, TypeOK, PollStart, Goto, Proceed, Return, world, Context
<1>1. TypeOK'
  <2>1. /\ Return(c, "handled") \/ (Proceed(c, "store") /\ call' = call)
        /\ \/ op_queue' = op_queue
           \/ op_queue' = Append(op_queue, [op |-> "start", timer |-> Timer(call[c].sensor),
                                            sensor |-> call[c].sensor])
    BY DEF PollStart, Proceed
  <2>2. call[c].sensor \in Block /\ IsSensor(call[c].sensor)
    BY <1>0 DEF Calls, Working, PollStart, At
  <2>3. call' \in [Context -> Arguments] /\ pc' \in [Context -> Point]
    BY <1>0, <2>1, Returns, Moves, TypesUsed DEF Point
  <2>4. [op |-> "start", timer |-> Timer(call[c].sensor), sensor |-> call[c].sensor] \in Requested
    BY <1>0, <2>2, Timers DEF Requested
  <2>5. op_queue' \in Seq(Requested)
    BY <1>0, <2>1, <2>4, NewRequest, TypesUsed
  <2> QED BY <1>0, <2>3, <2>5, TypesKept, TypesUsed DEF PollStart, world, TypeOK
<1> QED BY <1>1, <1>2, <1>3, <1>4, <1>5 DEF MemoryInv

\* The state that a poll stores is that of a live sensor.
LEMMA PollStoreMemory ==
    ASSUME MemoryInv, NEW c \in Context, PollStore(c)
    PROVE  MemoryInv'
<1>0. /\ TypeOK /\ Blocks /\ Statics /\ Calls /\ Channels /\ Stores
      /\ HeldIsLive /\ SensorsAreRemembered
  BY DEF MemoryInv
<1>p. SameBlocks /\ UNCHANGED <<instance, held, misnulled, failed>> /\ heap' \in [Block -> Content]
  BY <1>0, NewStates DEF PollStore, SameBlocks, world, State, At, Calls, Working, IsSensor
<1>2. Blocks' /\ Statics' /\ HeldIsLive' /\ SensorsAreRemembered'
  BY <1>p, PointersKept
<1>3. Calls'
  BY <1>0 DEF Calls, IsSensor, TypeOK, PollStore, Goto, Return, At, Runs, world, None, Context,
      Working
<1>4. Channels'
  <2>1. \A x \in Block : heap'[x].event = heap[x].event
    BY <1>0, TypesUsed DEF PollStore, Content
  <2>2. MainKept
    BY DEF PollStore, Return, Goto, At, MainKept, Events
  <2> QED BY <2>1, <2>2, ChannelsKept DEF PollStore, world
<1>5. Stores'
  BY <1>0 DEF Stores, IsSensor, Calls, TypeOK, PollStore, Goto, Return, At,
      Runs, world, None, Context, Working
<1>1. TypeOK'
  <2>1. call' \in [Context -> Arguments] /\ pc' \in [Context -> Point]
    BY <1>0, Returns DEF PollStore, Point
  <2> QED BY <1>0, <1>p, <2>1, TypesKept, TypesUsed DEF PollStore, world, TypeOK
<1> QED BY <1>1, <1>2, <1>3, <1>4, <1>5 DEF MemoryInv

\* The state that an uninit stores is that of a block that is no sensor: it changes nothing.
LEMMA LateStore ==
    ASSUME MemoryInv, NEW c \in Context, UninitStore(c)
    PROVE  heap' = heap
<1>1. call[c].sensor \in Block /\ ~IsSensor(call[c].sensor) /\ heap \in [Block -> Content]
  BY TypesUsed DEF MemoryInv, Stores, UninitStore, At
<1>2. heap[call[c].sensor] \in {Free, Report}
  BY <1>1 DEF MemoryInv, Blocks, IsSensor, Content
<1>3. heap[call[c].sensor].sensor_state = "UNINITED"
  BY <1>2 DEF Free, Report
<1> QED BY <1>1, <1>3 DEF UninitStore, Content

\* So all that an uninit's store does is to return.
LEMMA UninitStoreMemory ==
    ASSUME MemoryInv, NEW c \in Context, UninitStore(c)
    PROVE  MemoryInv'
<1>0. /\ TypeOK /\ Blocks /\ Statics /\ Calls /\ Channels /\ Stores
      /\ HeldIsLive /\ SensorsAreRemembered
  BY DEF MemoryInv
<1>p. SameBlocks /\ UNCHANGED <<heap, instance, held, misnulled, failed>>
  BY LateStore DEF UninitStore, SameBlocks, world
<1>2. Blocks' /\ Statics' /\ HeldIsLive' /\ SensorsAreRemembered'
  BY <1>p, PointersKept
<1>3. Calls'
  BY <1>0, <1>p DEF Calls, IsSensor, TypeOK, UninitStore, Goto, Return, Working
<1>4. Channels'
  BY <1>0, <1>p DEF Channels, UninitStore, Goto, Return, At, world
<1>5. Stores'
  BY <1>0, <1>p DEF Stores, IsSensor, TypeOK, UninitStore, Goto, Return, At
<1>1. TypeOK'
  BY <1>0, <1>p, Contents DEF TypeOK, Arguments, Point, UninitStore, Goto, Return, world
<1> QED BY <1>1, <1>2, <1>3, <1>4, <1>5 DEF MemoryInv

\* The handler is stored in the sensor whose channel was given or taken.
LEMMA EventStoreMemory ==
    ASSUME MemoryInv, EventStore
    PROVE  MemoryInv'
<1>0. /\ TypeOK /\ Blocks /\ Statics /\ Calls /\ Channels /\ Stores
      /\ HeldIsLive /\ SensorsAreRemembered
  BY DEF MemoryInv
<1>p. SameBlocks /\ UNCHANGED <<instance, held, misnulled, failed>> /\ heap' \in [Block -> Content]
  BY <1>0, NewStates DEF EventStore, SameBlocks, world, State, At, Calls, Working, IsSensor, Context
<1>2. Blocks' /\ Statics' /\ HeldIsLive' /\ SensorsAreRemembered'
  BY <1>p, PointersKept
<1>3. Calls'
  BY <1>0 DEF Calls, IsSensor, TypeOK, EventStore, Goto, Return, Working
<1>4. Channels'
  <2> DEFINE s == call["main"].sensor
  <2>1. s \in Block /\ pc["main"] \in Events /\ pc'["main"] = "idle"
    BY <1>0 DEF EventStore, At, Calls, Working, Events, Return, Goto, TypeOK, Context
  <2>2. /\ heap'[s].event = (pc["main"] = "event")
        /\ \A x \in Block : x # s => heap'[x] = heap[x]
    BY <1>0, <2>1, TypesUsed DEF EventStore, Content
  <2>3. ASSUME NEW d \in Pins, instance[d] # NULL PROVE instance[d] \in Block
    BY <1>0, <2>3 DEF TypeOK, Driver
  <2> HIDE DEF s
  <2>4. UNCHANGED <<instance, gpiote>> /\ s = call["main"].sensor
    BY DEF EventStore, world, s
  <2> QED BY <1>0, <2>1, <2>2, <2>3, <2>4 DEF Channels, Events
<1>5. Stores'
  BY <1>0 DEF Stores, IsSensor, TypeOK, EventStore, Goto, Return, world
<1>1. TypeOK'
  <2>1. call' \in [Context -> Arguments] /\ pc' \in [Context -> Point]
    BY <1>0, Returns DEF EventStore, Point, Context
  <2> QED BY <1>0, <1>p, <2>1, TypesKept, TypesUsed DEF EventStore, world, TypeOK
<1> QED BY <1>1, <1>2, <1>3, <1>4, <1>5 DEF MemoryInv

\* app_timer carries out a request on its own list.
LEMMA CarryOutMemory ==
    ASSUME MemoryInv, CarryOut
    PROVE  MemoryInv'
<1>0. /\ TypeOK /\ Blocks /\ Statics /\ Calls /\ Channels /\ Stores
      /\ HeldIsLive /\ SensorsAreRemembered
  BY DEF MemoryInv
<1>p. SameBlocks /\ UNCHANGED <<heap, instance, held, misnulled, failed>>
  BY DEF CarryOut, SameBlocks, world, history
<1>2. Blocks' /\ Statics' /\ HeldIsLive' /\ SensorsAreRemembered'
  BY <1>p, PointersKept
<1>3. Calls'
  BY <1>0 DEF Calls, IsSensor, CarryOut
<1>4. Channels'
  BY <1>0 DEF Channels, CarryOut
<1>5. Stores'
  BY <1>0 DEF Stores, IsSensor, CarryOut, history
<1>1. TypeOK'
  <2>1. op_queue \in Seq(Requested) /\ op_queue # <<>>
    BY <1>0, TypesUsed DEF CarryOut
  <2>2. Head(op_queue) \in Requested /\ op_queue' \in Seq(Requested)
    BY <2>1, HeadTailProperties DEF CarryOut
  <2>3. linked' \subseteq [timer : Driver \cup Block, sensor : Block]
    BY <1>0, <2>2 DEF CarryOut, Does, TypeOK, Requested
  <2> QED BY <1>0, <2>3 DEF CarryOut, history, TypeOK
<1> QED BY <1>1, <1>2, <1>3, <1>4, <1>5 DEF MemoryInv

\* The handler of a sensor that is polled is called.
LEMMA TimeoutCallMemory ==
    ASSUME MemoryInv, TimeoutCall
    PROVE  MemoryInv'
<1>0. /\ TypeOK /\ Blocks /\ Statics /\ Calls /\ Channels /\ Stores
      /\ HeldIsLive /\ SensorsAreRemembered
  BY DEF MemoryInv
<1>p. SameBlocks /\ UNCHANGED <<heap, instance, held, misnulled, failed>>
  BY DEF TimeoutCall, SameBlocks, world, history
<1>2. Blocks' /\ Statics' /\ HeldIsLive' /\ SensorsAreRemembered'
  BY <1>p, PointersKept
<1>3. Calls'
  BY <1>0 DEF Calls, IsSensor, TimeoutCall, Goto, Proceed, Working
<1>4. Channels'
  BY <1>0 DEF Channels, TimeoutCall, Goto, Proceed, world
<1>5. Stores'
  BY <1>0 DEF Stores, IsSensor, TimeoutCall, Goto, Proceed, world
<1>1. TypeOK'
  BY <1>0 DEF TypeOK, Point, TimeoutCall, Goto, Proceed, world
<1> QED BY <1>1, <1>2, <1>3, <1>4, <1>5 DEF MemoryInv

\* timeout_handler returns.
LEMMA TimeoutReturnsMemory ==
    ASSUME MemoryInv, TimeoutReturns
    PROVE  MemoryInv'
<1>0. /\ TypeOK /\ Blocks /\ Statics /\ Calls /\ Channels /\ Stores
      /\ HeldIsLive /\ SensorsAreRemembered
  BY DEF MemoryInv
<1>p. SameBlocks /\ UNCHANGED <<heap, instance, held, misnulled, failed>>
  BY DEF TimeoutReturns, SameBlocks, world, history
<1>2. Blocks' /\ Statics' /\ HeldIsLive' /\ SensorsAreRemembered'
  BY <1>p, PointersKept
<1>3. Calls'
  BY <1>0 DEF Calls, IsSensor, TimeoutReturns, Goto, Working
<1>4. Channels'
  BY <1>0 DEF Channels, TimeoutReturns, Goto, world
<1>5. Stores'
  BY <1>0 DEF Stores, IsSensor, TimeoutReturns, Goto, world
<1>1. TypeOK'
  BY <1>0, Contents DEF TypeOK, Arguments, Point, TimeoutReturns, Goto, world
<1> QED BY <1>1, <1>2, <1>3, <1>4, <1>5 DEF MemoryInv

\* A timer that expires runs timeout_handler, which changes no sensor.
LEMMA ExpireMemory ==
    ASSUME MemoryInv, NEW l \in linked, Expire(l)
    PROVE  MemoryInv'
<1>0. /\ TypeOK /\ Blocks /\ Statics /\ Calls /\ Channels /\ Stores
      /\ HeldIsLive /\ SensorsAreRemembered
  BY DEF MemoryInv
<1>p. SameBlocks /\ UNCHANGED <<heap, instance, held, misnulled, failed>>
  BY DEF Expire, SameBlocks, world, history
<1>2. Blocks' /\ Statics' /\ HeldIsLive' /\ SensorsAreRemembered'
  BY <1>p, PointersKept
<1>3. Calls'
  BY <1>0 DEF Calls, IsSensor, Expire, Goto, Working
<1>4. Channels'
  BY <1>0 DEF Channels, Expire, Goto, world
<1>5. Stores'
  BY <1>0 DEF Stores, IsSensor, Expire, Goto, world
<1>1. TypeOK'
  BY <1>0 DEF TypeOK, Point, Expire, Goto, world
<1> QED BY <1>1, <1>2, <1>3, <1>4, <1>5 DEF MemoryInv

\* A report's block is freed.
LEMMA ReportFreedMemory ==
    ASSUME MemoryInv, NEW b \in Block, ReportFreed(b)
    PROVE  MemoryInv'
<1>0. /\ TypeOK /\ Blocks /\ Statics /\ Calls /\ Channels /\ Stores
      /\ HeldIsLive /\ SensorsAreRemembered
  BY DEF MemoryInv
<1>2. Blocks' /\ Statics' /\ HeldIsLive' /\ SensorsAreRemembered'
  <2>1. b \in Block /\ ~IsSensor(b) /\ heap' = [heap EXCEPT ![b] = Free]
    BY Contents DEF ReportFreed, IsSensor
  <2> QED BY <2>1, ReportsKept DEF ReportFreed, world
<1>3. Calls'
  BY <1>0, Contents DEF Calls, IsSensor, ReportFreed
<1>4. Channels'
  <2>1. b \in Block /\ ~IsSensor(b) /\ heap' = [heap EXCEPT ![b] = Free]
    BY Contents DEF ReportFreed, IsSensor
  <2>2. \A x \in Block : IsSensor(x) => heap'[x].event = heap[x].event
    BY <1>0, <2>1, Contents, NewContent
  <2> QED BY <2>2, ChannelsKept DEF ReportFreed, world, MainKept
<1>5. Stores'
  BY <1>0, Contents DEF Stores, IsSensor, ReportFreed, world
<1>1. TypeOK'
  BY <1>0, Contents DEF TypeOK, Content, ReportFreed, world
<1> QED BY <1>1, <1>2, <1>3, <1>4, <1>5 DEF MemoryInv

-----------------------------------------------------------------------------
(* The theorems.                                                             *)

\* Nothing is allocated when main starts,
LEMMA InitMemoryInv == Init => MemoryInv
<1> SUFFICES ASSUME Init PROVE MemoryInv
  OBVIOUS
<1>1. TypeOK
  <2>1. heap \in [Block -> Content] /\ call \in [Context -> Arguments]
    BY Contents DEF Init
  <2>2. op_queue \in Seq(Requested)
    BY DEF Init
  <2> QED BY <2>1, <2>2 DEF Init, TypeOK, Content, Arguments, Requested, Point
<1>2. \A b \in Block : heap[b] = Free /\ ~IsSensor(b)
  BY Contents DEF Init, IsSensor
<1>3. Blocks /\ Statics /\ HeldIsLive /\ SensorsAreRemembered
  BY <1>2, Contents DEF Init, Blocks, Statics, Own, HeldIsLive, SensorsAreRemembered
<1>4. Calls /\ Channels /\ Stores
  BY DEF Init, Calls, Channels, Stores, Working, Context, Driver
<1> QED BY <1>1, <1>3, <1>4 DEF MemoryInv

\* and every step keeps the order of what is, by the lemma of its action.
LEMMA NextMemoryInv == MemoryInv /\ [Next]_vars => MemoryInv'
<1> SUFFICES ASSUME MemoryInv, [Next]_vars PROVE MemoryInv'
  OBVIOUS
<1>1. ASSUME NEW d \in Driver,
             GetAgain(d) \/ GetNew(d) \/ GetFails(d) \/ GetFailsOther(d) \/ PinEvent(d)
      PROVE  MemoryInv'
  BY <1>1, GetAgainMemory, GetNewMemory, GetFailsMemory, GetFailsOtherMemory, PinEventMemory
<1>2. ASSUME NEW b \in Block,
             InitOk(b) \/ InitFails(b) \/ SetEvent(b, TRUE) \/ SetEvent(b, FALSE) \/ ReportFreed(b)
      PROVE  MemoryInv'
  BY <1>2, InitOkMemory, InitFailsMemory, SetEventMemory, ReportFreedMemory
<1>3. ASSUME NEW c \in Context, NEW b \in Block, PollEnter(c, b) \/ UninitFree(c, b)
      PROVE  MemoryInv'
  BY <1>3, PollEnterMemory, UninitFreeMemory
<1>4. ASSUME NEW c \in Context, CallStep(c) PROVE MemoryInv'
  BY <1>4, PollClearMemory, PollStartMemory, PollStoreMemory, UninitStoreMemory DEF CallStep
<1>5. CASE EventStore \/ CarryOut \/ TimeoutCall \/ TimeoutReturns
  BY <1>5, EventStoreMemory, CarryOutMemory, TimeoutCallMemory, TimeoutReturnsMemory
<1>6. ASSUME NEW l \in linked, Expire(l) PROVE MemoryInv'
  BY <1>6, ExpireMemory
<1>7. CASE UNCHANGED vars
  <2>1. SameBlocks
    BY <1>7 DEF vars, SameBlocks
  <2>2. Blocks' /\ Statics' /\ HeldIsLive' /\ SensorsAreRemembered'
    BY <1>7, <2>1, PointersKept DEF vars
  <2>3. TypeOK' /\ Calls' /\ Channels' /\ Stores'
    BY <1>7 DEF vars, MemoryInv, TypeOK, Calls, IsSensor, Channels, Stores
  <2> QED BY <2>2, <2>3 DEF MemoryInv
<1> QED BY <1>1, <1>2, <1>3, <1>4, <1>5, <1>6, <1>7 DEF Next

\* Blocks, statics, held pointers, calls and channels agree, always.
THEOREM MemoryInvHolds == Spec => []MemoryInv
<1>1. Init => MemoryInv
  BY InitMemoryInv
<1>2. MemoryInv /\ [Next]_vars => MemoryInv'
  BY NextMemoryInv
<1> QED BY <1>1, <1>2, PTL DEF Spec

\* The types of sems_sensor.c and its drivers.
THEOREM LifecycleTypeCorrect == Spec => []TypeOK
<1>1. MemoryInv => TypeOK
  BY DEF MemoryInv
<1> QED BY <1>1, MemoryInvHolds, PTL

\* What get returned is a sensor of that driver, until uninit takes it back.
THEOREM HeldPointersAreLive == Spec => []HeldIsLive
<1>1. MemoryInv => HeldIsLive
  BY DEF MemoryInv
<1> QED BY <1>1, MemoryInvHolds, PTL

\* A block in use as a sensor is the one its driver remembers.
THEOREM NoSensorIsLost == Spec => []SensorsAreRemembered
<1>1. MemoryInv => SensorsAreRemembered
  BY DEF MemoryInv
<1> QED BY <1>1, MemoryInvHolds, PTL

\* A pin's channel is enabled exactly when its sensor has an event handler.
THEOREM ChannelsAgree == Spec => []EventsAgree
<1>1. MemoryInv => EventsAgree
  BY DEF MemoryInv, Channels, EventsAgree
<1> QED BY <1>1, MemoryInvHolds, PTL

-----------------------------------------------------------------------------
(* What app_timer does and what sems_sensor.c says of it agree: through the *)
(* queue of requests, which are carried out later, and the calls that make  *)
(* them, which may be preempted in between.                                 *)

\* A sensor is to be polled from the moment its start is requested until its stop is.
CalledAt(b, point) == \E c \in Context : pc[c] = point /\ call[c].sensor = b

Polls(b) ==
    \/ heap[b].sensor_state = "POLLING" /\ ~CalledAt(b, "clear")
    \/ CalledAt(b, "store")

Stopped(t) == \E i \in DOMAIN op_queue : op_queue[i].op = "stop" /\ op_queue[i].timer = t

\* Requests for a timer are a stop, a start, or both in that order.
QueueInv ==
    \A i, j \in DOMAIN op_queue : i < j /\ op_queue[i].timer = op_queue[j].timer =>
        op_queue[i].op = "stop" /\ op_queue[j].op = "start"

\* The sensor whose handler runs has no request, but those that the handler made.
HandlerInv ==
    LET b == call["timer"].sensor IN
    /\ pc["timer"] \in {"test", "handler"} => b \in Block /\ IsSensor(b) /\ Requests(Timer(b)) = {}
    /\ pc["timer"] \in {"clear", "start"} => \A i \in Requests(Timer(b)) : op_queue[i].op = "stop"

\* A timer is to be started for a sensor that is to be polled, and runs for one unless its stop waits.
StartInv == \A i \in DOMAIN op_queue : op_queue[i].op = "start" =>
    LET b == op_queue[i].sensor IN Polls(b) /\ IsSensor(b) /\ op_queue[i].timer = Timer(b)

LinkedInv == \A l \in linked :
    \/ Polls(l.sensor) /\ IsSensor(l.sensor) /\ l.timer = Timer(l.sensor)
    \/ Stopped(l.timer)

\* A report that takes the memory of a timer still linked is noted.
LateInv == \A l \in linked : l.timer \in Block /\ heap[l.timer].use = "report" => raced

StateInv == \A b \in Block : heap[b].polled = (heap[b].sensor_state = "POLLING")

\* Two sensors do not share a timer, unless a get that failed cleared their driver's static.
WillInv == \A b \in Block : IsSensor(b) /\ heap[b].driver \notin misnulled /\ Polls(b) => WillPoll(b)

PollInv == QueueInv /\ HandlerInv /\ StartInv /\ LinkedInv /\ LateInv /\ StateInv /\ WillInv

-----------------------------------------------------------------------------
(* The queue and the timers.                                                 *)

\* What is in app_timer's queue is a request, at one of its places.
LEMMA QueuePlaces ==
    ASSUME MemoryInv
    PROVE  /\ op_queue \in Seq(Requested) /\ Len(op_queue) \in Nat /\ DOMAIN op_queue = 1..Len(op_queue)
           /\ \A i \in DOMAIN op_queue : op_queue[i] \in Requested /\ op_queue[i].sensor \in Block
<1>1. op_queue \in Seq(Requested)
  BY TypesUsed DEF MemoryInv
<1>2. Len(op_queue) \in Nat /\ DOMAIN op_queue = 1..Len(op_queue)
  BY <1>1, LenProperties
<1>3. \A i \in DOMAIN op_queue : op_queue[i] \in Requested
  BY <1>1, <1>2, ElementOfSeq
<1> QED BY <1>1, <1>2, <1>3 DEF Requested

\* A request comes behind the others.
LEMMA Appended ==
    ASSUME MemoryInv, NEW r \in Requested, op_queue' = Append(op_queue, r)
    PROVE  \E new \in DOMAIN op_queue' :
            /\ op_queue'[new] = r /\ new \notin DOMAIN op_queue
            /\ \A i \in DOMAIN op_queue : i \in DOMAIN op_queue' /\ op_queue'[i] = op_queue[i] /\ i < new
            /\ \A i \in DOMAIN op_queue' : i \in Nat /\ (i = new \/ i \in DOMAIN op_queue)
<1>1. op_queue \in Seq(Requested) /\ Len(op_queue) \in Nat /\ DOMAIN op_queue = 1..Len(op_queue)
  BY QueuePlaces
<1>2. /\ op_queue' \in Seq(Requested) /\ Len(op_queue') = Len(op_queue) + 1
      /\ op_queue'[Len(op_queue) + 1] = r
      /\ \A i \in 1..Len(op_queue) : op_queue'[i] = op_queue[i]
  BY <1>1, AppendProperties
<1>3. DOMAIN op_queue' = 1..(Len(op_queue) + 1)
  BY <1>1, <1>2, LenProperties
<1> QED BY <1>1, <1>2, <1>3

\* The first one is carried out.
LEMMA CarriedOut ==
    ASSUME MemoryInv, CarryOut
    PROVE  /\ 1 \in DOMAIN op_queue /\ Head(op_queue) = op_queue[1]
           /\ \A i \in DOMAIN op_queue' :
                /\ i \in Nat \ {0} /\ i + 1 \in DOMAIN op_queue
                /\ op_queue'[i] = op_queue[i + 1]
           /\ \A i \in DOMAIN op_queue :
                i \in Nat /\ (i # 1 => /\ i - 1 \in DOMAIN op_queue' /\ i > 1
                                       /\ op_queue'[i - 1] = op_queue[i])
<1>1. op_queue \in Seq(Requested) /\ Len(op_queue) \in Nat /\ DOMAIN op_queue = 1..Len(op_queue)
  BY QueuePlaces
<1>2. op_queue # <<>> /\ op_queue' = Tail(op_queue)
  BY DEF CarryOut
<1>3. Len(op_queue) # 0
  BY <1>1, <1>2, EmptySeq
<1>4. /\ op_queue' \in Seq(Requested) /\ Len(op_queue') = Len(op_queue) - 1
      /\ \A i \in 1..Len(op_queue') : op_queue'[i] = op_queue[i + 1]
  BY <1>1, <1>2, HeadTailProperties
<1>5. DOMAIN op_queue' = 1..(Len(op_queue) - 1)
  BY <1>1, <1>4, LenProperties
<1>6. Head(op_queue) = op_queue[1]
  BY <1>1, <1>3
<1> QED BY <1>1, <1>3, <1>4, <1>5, <1>6

\* A pin's timer is in its block, another sensor's is its driver's.
LEMMA OwnTimer ==
    ASSUME MemoryInv, NEW b \in Block, IsSensor(b)
    PROVE  Timer(b) \in Block => Timer(b) = b /\ heap[b].driver \in Pins
<1>1. heap[b].driver \in Driver
  BY DEF MemoryInv, Blocks
<1> QED BY <1>1, DriverAssumption DEF Timer

\* Two sensors have two timers.
LEMMA DistinctTimers ==
    ASSUME MemoryInv, NEW a \in Block, NEW b \in Block, IsSensor(a), IsSensor(b),
           heap[a].driver \notin misnulled, Timer(a) = Timer(b)
    PROVE  a = b
<1>1. heap[a].driver \in Driver /\ heap[b].driver \in Driver
  BY DEF MemoryInv, Blocks
<1>2. CASE heap[a].driver \in Pins \/ heap[b].driver \in Pins
  BY <1>1, <1>2, DriverAssumption DEF Timer
<1>3. CASE heap[a].driver \notin Pins /\ heap[b].driver \notin Pins
  <2>1. heap[a].driver = heap[b].driver
    BY <1>3 DEF Timer
  <2> QED BY <2>1 DEF MemoryInv, SensorsAreRemembered
<1> QED BY <1>2, <1>3

\* Only sensors are to be polled.
LEMMA PollsAreSensors ==
    ASSUME MemoryInv, NEW b \in Block, Polls(b)
    PROVE  IsSensor(b)
<1>1. CASE CalledAt(b, "store")
  BY <1>1 DEF MemoryInv, Calls, Working, CalledAt
<1>2. CASE heap[b].sensor_state = "POLLING"
  <2>1. Free.sensor_state # "POLLING" /\ Report.sensor_state # "POLLING"
    BY DEF Free, Report
  <2>2. heap[b].use \in {"free", "report", "sensor"}
    BY TypesUsed DEF MemoryInv, Content
  <2> QED BY <1>2, <2>1, <2>2 DEF MemoryInv, Blocks, IsSensor
<1> QED BY <1>1, <1>2 DEF Polls

\* Main calls when app_timer has nothing to do, and a handler when nothing is asked of its timer.
LEMMA NothingAsked ==
    ASSUME MemoryInv, PollInv, NEW c \in Context, NEW b \in Block, Passed(c, b), pc[c] # "handled"
    PROVE  /\ IsSensor(b) /\ Requests(Timer(b)) = {}
           /\ c = "main" => pc["timer"] = "idle" /\ pc["main"] = "idle"
           /\ c = "timer" => pc["timer"] = "handler" /\ call["timer"].sensor = b
                             /\ (pc["main"] = "idle" \/ call["main"].sensor # b)
<1>1. CASE c = "main"
  <2>1. op_queue = <<>> /\ pc["timer"] = "idle" /\ pc["main"] = "idle" /\ IsSensor(b)
    BY <1>1 DEF Passed, At, Runs
  <2>2. DOMAIN op_queue = {}
    BY <2>1, QueuePlaces, EmptySeq
  <2> QED BY <1>1, <2>1, <2>2 DEF Requests
<1>2. CASE c = "timer"
  BY <1>2 DEF Passed, PollInv, HandlerInv
<1> QED BY <1>1, <1>2 DEF Context

-----------------------------------------------------------------------------
(* Steps.                                                                    *)

\* The handler that runs goes on, or calls, or returns.
HandlerKept ==
    /\ pc'["timer"] \in {"test", "handler"} =>
        pc["timer"] \in {"test", "handler"} /\ call'["timer"].sensor = call["timer"].sensor
    /\ pc'["timer"] \in {"clear", "start"} =>
        /\ pc["timer"] \in {"test", "handler", "clear", "start"}
        /\ call'["timer"].sensor = call["timer"].sensor

\* What is to be polled stays as it is.
PollsKept ==
    \A b \in Block : /\ Polls(b)' <=> Polls(b)
                     /\ Polls(b) => IsSensor(b)' /\ heap'[b].driver = heap[b].driver

\* A step that changes no polling, queue or list keeps the invariant if it keeps the parts about calls.
LEMMA PollingKept ==
    ASSUME MemoryInv, MemoryInv', PollInv, PollsKept, HandlerInv', LateInv', StateInv',
           UNCHANGED <<op_queue, linked>>, misnulled \subseteq misnulled'
    PROVE  PollInv'
<1>1. QueueInv'
  BY DEF PollInv, QueueInv
<1>2. StartInv'
  <2> SUFFICES ASSUME NEW i \in DOMAIN op_queue, op_queue[i].op = "start"
               PROVE  /\ Polls(op_queue[i].sensor)' /\ IsSensor(op_queue[i].sensor)'
                      /\ op_queue[i].timer = Timer(op_queue[i].sensor)'
    BY DEF StartInv
  <2>1. op_queue[i].sensor \in Block
    BY QueuePlaces
  <2>2. /\ Polls(op_queue[i].sensor) /\ IsSensor(op_queue[i].sensor)
        /\ op_queue[i].timer = Timer(op_queue[i].sensor)
    BY DEF PollInv, StartInv
  <2> QED BY <2>1, <2>2 DEF PollsKept, Timer
<1>3. LinkedInv'
  <2> SUFFICES ASSUME NEW l \in linked, ~Stopped(l.timer)
               PROVE  Polls(l.sensor)' /\ IsSensor(l.sensor)' /\ l.timer = Timer(l.sensor)'
    BY DEF LinkedInv, Stopped
  <2>1. l.sensor \in Block
    BY DEF MemoryInv, TypeOK
  <2>2. Polls(l.sensor) /\ IsSensor(l.sensor) /\ l.timer = Timer(l.sensor)
    BY DEF PollInv, LinkedInv
  <2> QED BY <2>1, <2>2 DEF PollsKept, Timer
<1>4. WillInv'
  <2> SUFFICES ASSUME NEW b \in Block, IsSensor(b)', heap'[b].driver \notin misnulled', Polls(b)'
               PROVE  WillPoll(b)'
    BY DEF WillInv
  <2>1. Polls(b) /\ heap'[b].driver = heap[b].driver
    BY DEF PollsKept
  <2>2. IsSensor(b)
    BY <2>1, PollsAreSensors
  <2>3. WillPoll(b)
    BY <2>1, <2>2 DEF PollInv, WillInv
  <2>4. Timer(b)' = Timer(b)
    BY <2>1 DEF Timer
  <2> QED BY <2>3, <2>4 DEF WillPoll, Requests
<1> QED BY <1>1, <1>2, <1>3, <1>4 DEF PollInv

\* A step that leaves the queue and the handler's sensor alone keeps what its requests are.
LEMMA HandlerInvKept ==
    ASSUME MemoryInv, PollInv, HandlerKept, op_queue' = op_queue,
           NEW b, b = call["timer"].sensor,
           pc'["timer"] \in {"test", "handler", "clear", "start"} =>
                b \in Block /\ (IsSensor(b) => IsSensor(b)') /\ heap'[b].driver = heap[b].driver
    PROVE  HandlerInv'
<1>1. Requests(Timer(b))' = Requests(Timer(b))
      \/ pc'["timer"] \notin {"test", "handler", "clear", "start"}
  BY DEF Requests, Timer
<1> QED BY <1>1 DEF HandlerInv, HandlerKept, PollInv

\* A step of a poll's context that does not touch a call's sensor: the calls are where they were.
CallsKept ==
    \A c \in Context, point \in {"clear", "store"}, b \in Block :
        pc'[c] = point /\ call'[c].sensor = b <=> pc[c] = point /\ call[c].sensor = b

\* The same of all calls but those on one sensor, which is not to be polled.
OthersKept(b) ==
    /\ \A c \in Context, point \in {"clear", "store"}, x \in Block \ {b} :
        pc'[c] = point /\ call'[c].sensor = x <=> pc[c] = point /\ call[c].sensor = x
    /\ \A c \in Context : ~(pc'[c] = "store" /\ call'[c].sensor = b)

\* If no call changes, none on another sensor does.
LEMMA OthersToo ==
    ASSUME CallsKept, NEW b \in Block, ~Polls(b)
    PROVE  OthersKept(b)
  BY DEF CallsKept, OthersKept, Polls, CalledAt

\* A sensor that a step does not touch polls as before.
LEMMA OthersPoll ==
    ASSUME NEW b, OthersKept(b), NEW x \in Block, x # b, heap'[x] = heap[x]
    PROVE  Polls(x)' <=> Polls(x)
  BY DEF Polls, CalledAt, OthersKept

\* If no call changes, a sensor whose state is kept polls as before.
LEMMA PollsSame ==
    ASSUME MemoryInv, CallsKept, NEW b \in Block,
           heap'[b].sensor_state = "POLLING" <=> heap[b].sensor_state = "POLLING"
    PROVE  Polls(b)' <=> Polls(b)
  BY DEF Polls, CalledAt, CallsKept

\* Nothing that polling is about changes.
LEMMA QuietPolling ==
    ASSUME MemoryInv, MemoryInv', PollInv, CallsKept, HandlerKept,
           UNCHANGED <<heap, op_queue, linked, raced>>, misnulled \subseteq misnulled'
    PROVE  PollInv'
<1>1. PollsKept
  BY PollsSame, PollsAreSensors DEF PollsKept, IsSensor
<1>2. HandlerInv'
  <2>1. pc'["timer"] \in {"test", "handler", "clear", "start"} => call["timer"].sensor \in Block
    BY DEF HandlerKept, PollInv, HandlerInv, MemoryInv, Calls, Working, Context
  <2> QED BY <2>1, HandlerInvKept DEF IsSensor
<1>3. LateInv' /\ StateInv'
  BY DEF PollInv, LateInv, StateInv
<1> QED BY <1>1, <1>2, <1>3, PollingKept

\* Gets, failures of gets, and a call that sets an event or returns.
LEMMA CallsPolling ==
    ASSUME MemoryInv, MemoryInv', PollInv,
           \/ \E d \in Driver : GetAgain(d) \/ GetFails(d) \/ GetFailsOther(d)
           \/ \E b \in Block : SetEvent(b, TRUE) \/ SetEvent(b, FALSE)
           \/ \E c \in Context : UninitStore(c)
           \/ TimeoutCall \/ TimeoutReturns
    PROVE  PollInv'
<1>0. TypeOK /\ Calls
  BY DEF MemoryInv
<1>1. CASE \E d \in Driver : GetAgain(d) \/ GetFails(d) \/ GetFailsOther(d)
  <2>1. UNCHANGED <<heap, op_queue, linked, raced, pc, call>> /\ misnulled \subseteq misnulled'
    BY <1>1 DEF GetAgain, GetFails, GetFailsOther
  <2> QED BY <2>1, QuietPolling DEF CallsKept, HandlerKept
<1>2. CASE \E b \in Block : SetEvent(b, TRUE) \/ SetEvent(b, FALSE)
  <2>1. /\ UNCHANGED <<heap, op_queue, linked, raced, misnulled>> /\ pc["main"] = "idle"
        /\ pc'["timer"] = pc["timer"] /\ call'["timer"] = call["timer"]
        /\ pc'["main"] \in {"event", "no_event"}
    BY <1>0, <1>2 DEF SetEvent, Passed, At, Goto, history, TypeOK, Context
  <2> QED BY <2>1, QuietPolling DEF CallsKept, HandlerKept, Context
<1>3. CASE \E c \in Context : UninitStore(c)
  <2>1. PICK c \in Context : UninitStore(c)
    BY <1>3
  <2>2. /\ UNCHANGED <<heap, op_queue, linked, raced, misnulled>>
        /\ pc[c] = "uninited" /\ pc'[c] \in {"idle", "leaving"}
        /\ \A x \in Context : x # c => pc'[x] = pc[x] /\ call'[x] = call[x]
    BY <1>0, <2>1, LateStore DEF UninitStore, At, Return, Goto, world, TypeOK, Context
  <2> QED BY <2>2, QuietPolling DEF CallsKept, HandlerKept, Context
<1>4. CASE TimeoutCall
  <2>1. /\ UNCHANGED <<heap, op_queue, linked, raced, misnulled, call>>
        /\ pc["timer"] = "test" /\ pc'["timer"] = "handler" /\ pc'["main"] = pc["main"]
    BY <1>0, <1>4 DEF TimeoutCall, Proceed, Goto, world, TypeOK, Context
  <2> QED BY <2>1, QuietPolling DEF CallsKept, HandlerKept, Context
<1>5. CASE TimeoutReturns
  <2>1. /\ UNCHANGED <<heap, op_queue, linked, raced, misnulled>> /\ call'["main"] = call["main"]
        /\ pc["timer"] \notin {"clear", "store"} /\ pc'["timer"] = "idle" /\ pc'["main"] = pc["main"]
    BY <1>0, <1>5 DEF TimeoutReturns, Goto, world, TypeOK, Context
  <2> QED BY <2>1, QuietPolling DEF CallsKept, HandlerKept, Context
<1> QED BY <1>1, <1>2, <1>3, <1>4, <1>5

\* A step that takes or frees blocks, or changes a sensor, that are not to be polled.
LEMMA BlockPolling ==
    ASSUME MemoryInv, MemoryInv', PollInv, HandlerKept,
           UNCHANGED <<op_queue, linked>>, misnulled \subseteq misnulled', raced => raced',
           NEW b \in Block, ~Polls(b),
           OthersKept(b),
           \A x \in Block : x # b => heap'[x] = heap[x],
           heap'[b].sensor_state # "POLLING" /\ ~heap'[b].polled,
           (IsSensor(b)' /\ heap'[b].driver = heap[b].driver)
                \/ ~(pc["timer"] \in {"test", "handler", "clear", "start"} /\ call["timer"].sensor = b)
                \/ pc'["timer"] \notin {"test", "handler", "clear", "start"},
           heap'[b].use = "report" => raced' \/ (\A l \in linked : l.timer # b)
    PROVE  PollInv'
<1>0. \A x \in Block : x # b => (Polls(x)' <=> Polls(x))
  BY OthersPoll
<1>1. ~Polls(b)'
  BY DEF Polls, OthersKept, CalledAt
<1>2. PollsKept
  BY <1>0, <1>1, PollsAreSensors DEF PollsKept, IsSensor
<1>3. HandlerInv'
  <2>1. pc'["timer"] \in {"test", "handler", "clear", "start"} => call["timer"].sensor \in Block
    BY DEF HandlerKept, PollInv, HandlerInv, MemoryInv, Calls, Working, Context
  <2>2. pc'["timer"] \in {"test", "handler", "clear", "start"} =>
            pc["timer"] \in {"test", "handler", "clear", "start"}
    BY DEF HandlerKept
  <2> QED BY <2>1, <2>2, HandlerInvKept DEF IsSensor
<1>4. LateInv'
  <2> SUFFICES ASSUME NEW l \in linked, l.timer \in Block, heap'[l.timer].use = "report"
               PROVE  raced'
    BY DEF LateInv
  <2>1. CASE l.timer = b
    BY <2>1
  <2>2. CASE l.timer # b
    BY <2>2 DEF PollInv, LateInv
  <2> QED BY <2>1, <2>2
<1>5. StateInv'
  <2> SUFFICES ASSUME NEW x \in Block
               PROVE  heap'[x].polled = (heap'[x].sensor_state = "POLLING")
    BY DEF StateInv
  <2>1. CASE x = b
    <3>1. heap'[b].polled \in BOOLEAN
      BY DEF MemoryInv, TypeOK
    <3> QED BY <2>1, <3>1
  <2>2. CASE x # b
    BY <2>2 DEF PollInv, StateInv
  <2> QED BY <2>1, <2>2
<1> QED BY <1>2, <1>3, <1>4, <1>5, PollingKept

\* Blocks that are taken or freed, and sensors that are initialised.
LEMMA BlocksPolling ==
    ASSUME MemoryInv, MemoryInv', PollInv,
           \/ \E d \in Driver : GetNew(d) \/ PinEvent(d)
           \/ \E b \in Block : InitOk(b) \/ InitFails(b) \/ ReportFreed(b)
    PROVE  PollInv'
<1>0. TypeOK /\ heap \in [Block -> Content]
  BY TypesUsed DEF MemoryInv
<1>1. UNCHANGED <<op_queue, linked, pc, call>> /\ misnulled \subseteq misnulled' /\ (raced => raced')
  <2>1. CASE \E d \in Driver : GetNew(d) \/ PinEvent(d)
    <3>1. PICK d \in Driver : GetNew(d) \/ PinEvent(d)
      BY <2>1
    <3>2. CASE GetNew(d)
      BY <3>2 DEF GetNew
    <3>3. CASE PinEvent(d)
      <4>1. UNCHANGED <<op_queue, linked, pc, call, misnulled>>
        BY <3>3 DEF PinEvent
      <4>2. PICK late \in BOOLEAN : raced' = (raced \/ late)
        BY <3>3 DEF PinEvent, Late
      <4> QED BY <1>0, <4>1, <4>2 DEF TypeOK
    <3> QED BY <3>1, <3>2, <3>3
  <2>2. CASE \E b \in Block : InitOk(b) \/ InitFails(b) \/ ReportFreed(b)
    <3>1. PICK b \in Block : InitOk(b) \/ InitFails(b) \/ ReportFreed(b)
      BY <2>2
    <3>2. CASE InitOk(b) \/ ReportFreed(b)
      BY <3>2 DEF InitOk, ReportFreed, world
    <3>3. CASE InitFails(b)
      BY <3>3 DEF InitFails, Forget
    <3> QED BY <3>1, <3>2, <3>3
  <2> QED BY <2>1, <2>2
<1>2. CallsKept /\ HandlerKept
  BY <1>1 DEF CallsKept, HandlerKept
<1>3. \A b \in Block : heap[b] \in {Free, Report} => ~Polls(b) /\ ~IsSensor(b)
  BY PollsAreSensors, Contents DEF IsSensor
<1>4. /\ Free.sensor_state = "UNINITED" /\ ~Free.polled
      /\ Report.sensor_state = "UNINITED" /\ ~Report.polled
      /\ \A d : Setup(d).sensor_state = "UNINITED" /\ ~Setup(d).polled
  BY DEF Free, Report, Setup
<1>5. pc["timer"] \in {"test", "handler", "clear", "start"} => IsSensor(call["timer"].sensor)
  BY DEF PollInv, HandlerInv, MemoryInv, Calls, Working, Context
<1>6. CASE \E d \in Driver : GetNew(d)
  <2>1. PICK d \in Driver, b \in Block : heap[b] = Free /\ heap' = [heap EXCEPT ![b] = Setup(d)]
    BY <1>6 DEF GetNew
  <2>2. heap'[b] = Setup(d) /\ \A x \in Block : x # b => heap'[x] = heap[x]
    BY <1>0, <2>1, Contents, NewContent
  <2>3. heap'[b].use = "sensor"
    BY <2>2, Contents
  <2>4. ~Polls(b) /\ ~IsSensor(b) /\ heap'[b].sensor_state # "POLLING" /\ ~heap'[b].polled
    BY <1>3, <1>4, <2>1, <2>2
  <2> QED BY <1>1, <1>2, <1>5, <2>2, <2>3, <2>4, BlockPolling, OthersToo
<1>7. CASE \E d \in Driver : PinEvent(d)
  <2>1. PICK b \in Block : /\ heap[b] = Free /\ heap' = [heap EXCEPT ![b] = Report]
                           /\ raced' = (raced \/ Late(b))
    BY <1>7 DEF PinEvent
  <2>2. heap'[b] = Report /\ \A x \in Block : x # b => heap'[x] = heap[x]
    BY <1>0, <2>1, Contents, NewContent
  <2>3. raced' \/ \A l \in linked : l.timer # b
    BY <2>1 DEF Late
  <2>4. ~Polls(b) /\ ~IsSensor(b) /\ heap'[b].sensor_state # "POLLING" /\ ~heap'[b].polled
    BY <1>3, <1>4, <2>1, <2>2
  <2> QED BY <1>1, <1>2, <1>5, <2>2, <2>3, <2>4, BlockPolling, OthersToo
<1>8. CASE \E b \in Block : ReportFreed(b)
  <2>1. PICK b \in Block : heap[b] = Report /\ heap' = [heap EXCEPT ![b] = Free]
    BY <1>8 DEF ReportFreed
  <2>2. heap'[b] = Free /\ \A x \in Block : x # b => heap'[x] = heap[x]
    BY <1>0, <2>1, Contents, NewContent
  <2>3. heap'[b].use # "report"
    BY <2>2, Contents
  <2>4. ~Polls(b) /\ ~IsSensor(b) /\ heap'[b].sensor_state # "POLLING" /\ ~heap'[b].polled
    BY <1>3, <1>4, <2>1, <2>2
  <2> QED BY <1>1, <1>2, <1>5, <2>2, <2>3, <2>4, BlockPolling, OthersToo
<1>9. CASE \E b \in Block : InitOk(b) \/ InitFails(b)
  <2>1. PICK b \in Block : InitOk(b) \/ InitFails(b)
    BY <1>9
  <2>2. /\ pc["timer"] = "idle" /\ pc["main"] = "idle" /\ IsSensor(b)
        /\ heap[b].sensor_state = "UNINITED"
    BY <2>1 DEF InitOk, InitFails, CanInit, Passed, At, Runs
  <2>3. ~Polls(b) /\ ~heap[b].polled
    BY <2>2 DEF Polls, CalledAt, Context, PollInv, StateInv
  <2>4. CASE InitOk(b)
    <3>1. /\ heap' = [heap EXCEPT ![b].sensor_state = "INITED"] /\ "INITED" \in State
          /\ \A x \in Block : x # b => heap'[x] = heap[x]
      BY <1>0, <2>4, NewStates DEF InitOk, State
    <3>2. /\ heap'[b].sensor_state # "POLLING" /\ ~heap'[b].polled /\ heap'[b].use # "report"
      BY <1>0, <2>2, <2>3, <3>1 DEF Content, IsSensor
    <3> QED BY <1>1, <1>2, <2>2, <2>3, <3>1, <3>2, BlockPolling, OthersToo
  <2>5. CASE InitFails(b)
    <3>1. heap'[b] = Free /\ \A x \in Block : x # b => heap'[x] = heap[x]
      BY <1>0, <2>5, Contents, NewContent DEF InitFails, FreeSensor
    <3>2. heap'[b].sensor_state # "POLLING" /\ ~heap'[b].polled /\ heap'[b].use # "report"
      BY <1>4, <3>1, Contents
    <3> QED BY <1>1, <1>2, <2>2, <2>3, <3>1, <3>2, BlockPolling, OthersToo
  <2> QED BY <2>1, <2>4, <2>5
<1> QED BY <1>6, <1>7, <1>8, <1>9

\* A sensor is freed.
LEMMA UninitPolling ==
    ASSUME MemoryInv, MemoryInv', PollInv, NEW c \in Context, NEW b \in Block, UninitFree(c, b)
    PROVE  PollInv'
<1>0. TypeOK /\ heap \in [Block -> Content]
  BY TypesUsed DEF MemoryInv
<1>1. /\ UNCHANGED <<op_queue, linked, raced>> /\ misnulled \subseteq misnulled'
      /\ IsSensor(b) /\ heap[b].sensor_state = "INITED" /\ Passed(c, b)
  BY DEF UninitFree, Release, Forget, Passed
<1>2. /\ pc'[c] = "uninited" /\ pc[c] \in {"idle", "handler", "handled"}
      /\ \A x \in Context : x # c => pc'[x] = pc[x] /\ call'[x] = call[x]
  BY <1>0 DEF UninitFree, Passed, At, Goto, TypeOK, Context
<1>3. CallsKept
  BY <1>2 DEF CallsKept
<1>4. HandlerKept
  BY <1>2 DEF HandlerKept, Context
<1>5. \A x \in Context : pc[x] \in {"clear", "store"} => call[x].sensor # b
  BY <1>1, <1>2 DEF Passed, At, Runs, Context
<1>6. ~Polls(b)
  BY <1>1, <1>5 DEF Polls, CalledAt
<1>7. heap'[b] = Free /\ \A x \in Block : x # b => heap'[x] = heap[x]
  BY <1>0, Contents, NewContent DEF UninitFree, Release, FreeSensor
<1>8. heap'[b].sensor_state # "POLLING" /\ ~heap'[b].polled /\ heap'[b].use # "report"
  BY <1>7 DEF Free
<1>9. pc["timer"] = "idle" \/ pc'["timer"] = "uninited"
  BY <1>1, <1>2 DEF Passed, At, Runs, Context
<1> QED BY <1>1, <1>3, <1>4, <1>6, <1>7, <1>8, <1>9, BlockPolling, OthersToo

\* A handler for events is set.
LEMMA EventPolling ==
    ASSUME MemoryInv, MemoryInv', PollInv, EventStore
    PROVE  PollInv'
<1>0. TypeOK /\ heap \in [Block -> Content]
  BY TypesUsed DEF MemoryInv
<1>1. UNCHANGED <<op_queue, linked, raced, misnulled>>
  BY DEF EventStore, world
<1>2. \A x \in Block : /\ heap'[x].use = heap[x].use /\ heap'[x].driver = heap[x].driver
                       /\ heap'[x].polled = heap[x].polled
                       /\ heap'[x].sensor_state = heap[x].sensor_state
  <2> SUFFICES ASSUME NEW x \in Block
               PROVE  /\ heap'[x].use = heap[x].use /\ heap'[x].driver = heap[x].driver
                      /\ heap'[x].polled = heap[x].polled
                      /\ heap'[x].sensor_state = heap[x].sensor_state
    OBVIOUS
  <2>1. heap[x] \in Content
    BY <1>0
  <2>2. \E event \in BOOLEAN : heap'[x] = [heap[x] EXCEPT !.event = event] \/ heap'[x] = heap[x]
    BY <1>0 DEF EventStore
  <2> QED BY <2>1, <2>2 DEF Content
<1>3. /\ pc["main"] \in {"event", "no_event"} /\ pc'["main"] = "idle"
      /\ pc'["timer"] = pc["timer"] /\ call'["timer"] = call["timer"]
  BY <1>0 DEF EventStore, At, Return, Goto, TypeOK, Context
<1>4. CallsKept
  BY <1>3 DEF CallsKept, Context
<1>5. HandlerKept
  BY <1>3 DEF HandlerKept
<1>6. PollsKept
  BY <1>2, <1>4, PollsSame, PollsAreSensors DEF PollsKept, IsSensor
<1>7. HandlerInv'
  <2>1. pc'["timer"] \in {"test", "handler", "clear", "start"} => call["timer"].sensor \in Block
    BY <1>3 DEF PollInv, HandlerInv, MemoryInv, Calls, Working, Context
  <2> QED BY <1>1, <1>2, <1>5, <2>1, HandlerInvKept DEF IsSensor
<1>8. LateInv' /\ StateInv'
  BY <1>1, <1>2 DEF PollInv, LateInv, StateInv
<1> QED BY <1>1, <1>6, <1>7, <1>8, PollingKept

\* sems_sensor_polling: a stop is requested, or the sensor is not polled, or it stays as it is.
LEMMA EnterPolling ==
    ASSUME MemoryInv, MemoryInv', PollInv, NEW c \in Context, NEW b \in Block, PollEnter(c, b)
    PROVE  PollInv'
<1>0. TypeOK
  BY DEF MemoryInv
<1>1. /\ UNCHANGED <<heap, linked, raced, misnulled>> /\ heap[b].sensor_state \in {"INITED", "POLLING"}
      /\ Passed(c, b) /\ pc[c] # "handled"
  BY DEF PollEnter, world
<1>2. /\ IsSensor(b) /\ Requests(Timer(b)) = {}
      /\ c = "main" => pc["timer"] = "idle" /\ pc["main"] = "idle"
      /\ c = "timer" => pc["timer"] = "handler" /\ call["timer"].sensor = b
                        /\ (pc["main"] = "idle" \/ call["main"].sensor # b)
  BY <1>1, NothingAsked
<1>3. \A x \in Context : x # c => pc'[x] = pc[x] /\ call'[x] = call[x]
  BY <1>0 DEF PollEnter, Off, Return, Goto, TypeOK
<1>4. PICK poll \in BOOLEAN : LET arguments == [sensor |-> b, poll |-> poll] IN
        \/ /\ Off(c, arguments)
           /\ UNCHANGED op_queue
        \/ /\ heap[b].sensor_state = "POLLING"
           /\ Goto(c, "clear")
           /\ call' = [call EXCEPT ![c] = arguments]
           /\ op_queue' = Append(op_queue, [op |-> "stop", timer |-> Timer(b), sensor |-> b])
        \/ /\ Return(c, "handled")
           /\ UNCHANGED op_queue
  BY DEF PollEnter
<1> DEFINE arguments == [sensor |-> b, poll |-> poll]
<1>5. CASE op_queue' = op_queue /\ (Off(c, arguments) \/ Return(c, "handled"))
  <2>1. \/ pc'[c] = "start" /\ call'[c].sensor = b
        \/ pc'[c] = "idle" /\ c = "main"
        \/ pc'[c] = "handled" /\ call'[c] = call[c]
    BY <1>0, <1>5 DEF Off, Return, Goto, TypeOK, Context
  <2>2. pc[c] \in {"idle", "handler"}
    BY <1>2 DEF Context
  <2>3. CallsKept
    BY <1>3, <2>1, <2>2 DEF CallsKept
  <2>4. HandlerKept
    BY <1>2, <1>3, <2>1, <2>2 DEF HandlerKept, Context
  <2> QED BY <1>1, <1>5, <2>3, <2>4, QuietPolling
<1>6. CASE /\ heap[b].sensor_state = "POLLING"
           /\ Goto(c, "clear")
           /\ call' = [call EXCEPT ![c] = arguments]
           /\ op_queue' = Append(op_queue, [op |-> "stop", timer |-> Timer(b), sensor |-> b])
  <2> DEFINE r == [op |-> "stop", timer |-> Timer(b), sensor |-> b]
  <2>1. r \in Requested
    BY <1>0, <1>2, Timers DEF MemoryInv, Requested
  <2>2. PICK new \in DOMAIN op_queue' :
            /\ op_queue'[new] = r /\ new \notin DOMAIN op_queue
            /\ \A i \in DOMAIN op_queue : i \in DOMAIN op_queue' /\ op_queue'[i] = op_queue[i] /\ i < new
            /\ \A i \in DOMAIN op_queue' : i \in Nat /\ (i = new \/ i \in DOMAIN op_queue)
    BY <1>6, <2>1, Appended
  <2>3. r.op = "stop" /\ r.timer = Timer(b)
    OBVIOUS
  <2> HIDE DEF r
  <2>4. pc'[c] = "clear" /\ call'[c].sensor = b
    BY <1>0, <1>6 DEF Goto, TypeOK
  <2>5. \A x \in Block : Polls(x) /\ x # b => Polls(x)'
    BY <1>1, <1>2, <1>3, <2>4 DEF Polls, CalledAt, Context
  <2>6. \A x \in Block : Polls(x)' => Polls(x) /\ x # b
    BY <1>1, <1>2, <1>3, <2>4 DEF Polls, CalledAt, Context
  <2>7. \A i \in DOMAIN op_queue : op_queue[i].timer # Timer(b)
    BY <1>2 DEF Requests
  <2>8. QueueInv'
    BY <2>2, <2>3, <2>7 DEF PollInv, QueueInv
  <2>9. HandlerInv'
    <3>1. CASE c = "timer"
      <4>1. \A i \in DOMAIN op_queue' : op_queue'[i].timer = Timer(b) => op_queue'[i].op = "stop"
        BY <2>2, <2>3, <2>7
      <4>2. pc'["timer"] = "clear" /\ call'["timer"].sensor = b /\ Timer(b)' = Timer(b)
        BY <1>1, <2>4, <3>1 DEF Timer
      <4> QED BY <4>1, <4>2 DEF HandlerInv, Requests
    <3>2. CASE c = "main"
      BY <1>2, <1>3, <3>2 DEF HandlerInv, Context
    <3> QED BY <3>1, <3>2 DEF Context
  <2>10. StartInv'
    <3> SUFFICES ASSUME NEW i \in DOMAIN op_queue', op_queue'[i].op = "start",
                        NEW x, x = op_queue'[i].sensor
                 PROVE  Polls(x)' /\ IsSensor(x)' /\ op_queue'[i].timer = Timer(x)'
      BY DEF StartInv
    <3>1. i \in DOMAIN op_queue /\ op_queue'[i] = op_queue[i]
      BY <2>2, <2>3
    <3>2. x \in Block
      BY <3>1, QueuePlaces
    <3>3. Polls(x) /\ IsSensor(x) /\ op_queue[i].timer = Timer(x)
      BY <3>1 DEF PollInv, StartInv
    <3>4. x # b
      BY <2>7, <3>1, <3>3
    <3> QED BY <1>1, <2>5, <3>1, <3>2, <3>3, <3>4 DEF IsSensor, Timer
  <2>11. LinkedInv'
    <3> SUFFICES ASSUME NEW l \in linked
                 PROVE  \/ Polls(l.sensor)' /\ IsSensor(l.sensor)' /\ l.timer = Timer(l.sensor)'
                        \/ Stopped(l.timer)'
      BY <1>1 DEF LinkedInv
    <3>1. l.sensor \in Block
      BY <1>0 DEF TypeOK
    <3>2. CASE Stopped(l.timer)
      BY <2>2, <3>2 DEF Stopped
    <3>3. CASE Polls(l.sensor) /\ IsSensor(l.sensor) /\ l.timer = Timer(l.sensor)
      <4>1. CASE l.sensor = b
        BY <2>2, <2>3, <3>3, <4>1 DEF Stopped
      <4>2. CASE l.sensor # b
        BY <1>1, <2>5, <3>1, <3>3, <4>2 DEF IsSensor, Timer
      <4> QED BY <4>1, <4>2
    <3> QED BY <3>2, <3>3 DEF PollInv, LinkedInv
  <2>12. LateInv' /\ StateInv'
    BY <1>1 DEF PollInv, LateInv, StateInv
  <2>13. WillInv'
    <3> SUFFICES ASSUME NEW x \in Block, IsSensor(x), heap[x].driver \notin misnulled, Polls(x)'
                 PROVE  WillPoll(x)'
      BY <1>1 DEF WillInv, IsSensor
    <3>1. WillPoll(x) /\ x # b
      BY <2>6 DEF PollInv, WillInv
    <3>2. Timer(x) # Timer(b) /\ Timer(x)' = Timer(x)
      BY <1>1, <1>2, <3>1, DistinctTimers DEF Timer
    <3>3. Requests(Timer(x))' = Requests(Timer(x))
      BY <2>2, <2>3, <3>2 DEF Requests
    <3>4. \A i \in Requests(Timer(x)) : op_queue'[i] = op_queue[i]
      BY <2>2 DEF Requests
    <3> QED BY <1>1, <3>1, <3>2, <3>3, <3>4 DEF WillPoll
  <2> QED BY <2>8, <2>9, <2>10, <2>11, <2>12, <2>13 DEF PollInv
<1> QED BY <1>4, <1>5, <1>6

\* ... and the handler is cleared, which may be before the stop is carried out.
LEMMA ClearPolling ==
    ASSUME MemoryInv, MemoryInv', PollInv, NEW c \in Context, PollClear(c)
    PROVE  PollInv'
<1> SUFFICES ASSUME NEW b, b = call[c].sensor PROVE PollInv'
  OBVIOUS
<1>0. TypeOK /\ heap \in [Block -> Content] /\ "INITED" \in State
  BY TypesUsed DEF MemoryInv, State
<1>1. b \in Block /\ IsSensor(b) /\ pc[c] = "clear"
  BY DEF PollClear, At, MemoryInv, Calls, Working
<1>2. /\ UNCHANGED <<op_queue, linked, raced, misnulled>>
      /\ heap' = [heap EXCEPT ![b].sensor_state = "INITED", ![b].polled = FALSE]
  BY DEF PollClear, world
<1>3. /\ \A x \in Context : x # c => pc'[x] = pc[x] /\ call'[x] = call[x]
      /\ \/ pc'[c] = "start" /\ call'[c].sensor = b
         \/ pc'[c] \in {"idle", "handled"}
  BY <1>0 DEF PollClear, Off, Return, Goto, TypeOK, Context
<1>4. /\ heap'[b].use = heap[b].use /\ heap'[b].driver = heap[b].driver
      /\ \A x \in Block : x # b => heap'[x] = heap[x]
  BY <1>0, <1>1, <1>2, NewStates
<1>5. heap'[b].sensor_state # "POLLING" /\ ~heap'[b].polled /\ heap'[b].use # "report"
  BY <1>0, <1>1, <1>2 DEF Content, IsSensor
<1>6. \A x \in Context : ~(pc[x] = "store" /\ call[x].sensor = b)
  BY <1>1 DEF MemoryInv, Calls, Context
<1>7. ~Polls(b)
  BY <1>1, <1>6 DEF Polls, CalledAt
<1>8. OthersKept(b)
  BY <1>1, <1>3, <1>6 DEF OthersKept
<1>9. HandlerKept
  BY <1>1, <1>3 DEF HandlerKept, Context
<1> QED BY <1>1, <1>2, <1>4, <1>5, <1>7, <1>8, <1>9, BlockPolling DEF IsSensor

\* A start is requested, or there is no room for it.
LEMMA StartPolling ==
    ASSUME MemoryInv, MemoryInv', PollInv, NEW c \in Context, PollStart(c)
    PROVE  PollInv'
<1> SUFFICES ASSUME NEW b, b = call[c].sensor PROVE PollInv'
  OBVIOUS
<1>0. TypeOK
  BY DEF MemoryInv
<1>1. b \in Block /\ IsSensor(b) /\ pc[c] = "start"
  BY DEF PollStart, At, MemoryInv, Calls, Working
<1>2. UNCHANGED <<heap, linked, raced, misnulled>>
  BY DEF PollStart, world
<1>3. \A x \in Context : x # c => pc'[x] = pc[x] /\ call'[x] = call[x]
  BY <1>0 DEF PollStart, Return, Proceed, Goto, TypeOK
<1>4. CASE Return(c, "handled") /\ op_queue' = op_queue
  <2>1. pc'[c] \in {"idle", "handled"}
    BY <1>0, <1>4 DEF Return, Goto, TypeOK
  <2>2. CallsKept
    BY <1>1, <1>3, <2>1 DEF CallsKept
  <2>3. HandlerKept
    BY <1>3, <2>1 DEF HandlerKept, Context
  <2> QED BY <1>2, <1>4, <2>2, <2>3, QuietPolling
<1>5. CASE /\ Proceed(c, "store")
           /\ op_queue' = Append(op_queue, [op |-> "start", timer |-> Timer(b), sensor |-> b])
  <2> DEFINE r == [op |-> "start", timer |-> Timer(b), sensor |-> b]
  <2>1. r \in Requested
    BY <1>0, <1>1, Timers DEF MemoryInv, Requested
  <2>2. PICK new \in DOMAIN op_queue' :
            /\ op_queue'[new] = r /\ new \notin DOMAIN op_queue
            /\ \A i \in DOMAIN op_queue : i \in DOMAIN op_queue' /\ op_queue'[i] = op_queue[i] /\ i < new
            /\ \A i \in DOMAIN op_queue' : i \in Nat /\ (i = new \/ i \in DOMAIN op_queue)
    BY <1>5, <2>1, Appended
  <2>3. r.op = "start" /\ r.timer = Timer(b) /\ r.sensor = b
    OBVIOUS
  <2> HIDE DEF r
  <2>4. pc'[c] = "store" /\ call' = call
    BY <1>0, <1>5 DEF Proceed, Goto, TypeOK
  <2>5. \A x \in Block : /\ Polls(x) => Polls(x)'
                         /\ Polls(x)' => Polls(x) \/ x = b
    BY <1>1, <1>2, <1>3, <2>4 DEF Polls, CalledAt, Context
  <2>6. Polls(b)'
    BY <2>4 DEF Polls, CalledAt
  <2>7. \A i \in DOMAIN op_queue : op_queue[i].timer = Timer(b) => op_queue[i].op = "stop"
    <3>1. CASE c = "timer"
      BY <1>1, <3>1 DEF PollInv, HandlerInv, Requests
    <3>2. CASE c = "main"
      <4>1. op_queue = <<>>
        BY <1>1, <3>2 DEF PollStart, At, Runs
      <4> QED BY <4>1, QueuePlaces, EmptySeq
    <3> QED BY <3>1, <3>2 DEF Context
  <2>8. QueueInv'
    <3> SUFFICES ASSUME NEW i \in DOMAIN op_queue', NEW j \in DOMAIN op_queue', i < j,
                        op_queue'[i].timer = op_queue'[j].timer
                 PROVE  op_queue'[i].op = "stop" /\ op_queue'[j].op = "start"
      BY DEF QueueInv
    <3>1. i \in DOMAIN op_queue /\ op_queue'[i] = op_queue[i]
      BY <2>2, QueuePlaces
    <3>2. CASE j = new
      BY <2>2, <2>3, <2>7, <3>1, <3>2
    <3>3. CASE j # new
      BY <2>2, <3>1, <3>3 DEF PollInv, QueueInv
    <3> QED BY <3>2, <3>3
  <2>9. HandlerInv'
    <3>1. pc'["timer"] \notin {"test", "handler", "clear", "start"}
      BY <1>3, <2>4 DEF PollStart, At, Runs, Context
    <3> QED BY <3>1 DEF HandlerInv
  <2>10. StartInv'
    <3> SUFFICES ASSUME NEW i \in DOMAIN op_queue', op_queue'[i].op = "start",
                        NEW x, x = op_queue'[i].sensor
                 PROVE  Polls(x)' /\ IsSensor(x)' /\ op_queue'[i].timer = Timer(x)'
      BY DEF StartInv
    <3>1. CASE i = new
      BY <1>1, <1>2, <2>2, <2>3, <2>6, <3>1 DEF IsSensor, Timer
    <3>2. CASE i # new
      <4>1. i \in DOMAIN op_queue /\ op_queue'[i] = op_queue[i]
        BY <2>2, <3>2
      <4>2. x \in Block
        BY <4>1, QueuePlaces
      <4>3. Polls(x) /\ IsSensor(x) /\ op_queue[i].timer = Timer(x)
        BY <4>1 DEF PollInv, StartInv
      <4> QED BY <1>2, <2>5, <4>1, <4>2, <4>3 DEF IsSensor, Timer
    <3> QED BY <3>1, <3>2
  <2>11. LinkedInv'
    <3> SUFFICES ASSUME NEW l \in linked
                 PROVE  \/ Polls(l.sensor)' /\ IsSensor(l.sensor)' /\ l.timer = Timer(l.sensor)'
                        \/ Stopped(l.timer)'
      BY <1>2 DEF LinkedInv
    <3>1. l.sensor \in Block
      BY <1>0 DEF TypeOK
    <3>2. CASE Stopped(l.timer)
      BY <2>2, <3>2 DEF Stopped
    <3>3. CASE Polls(l.sensor) /\ IsSensor(l.sensor) /\ l.timer = Timer(l.sensor)
      BY <1>2, <2>5, <3>1, <3>3 DEF IsSensor, Timer
    <3> QED BY <3>2, <3>3 DEF PollInv, LinkedInv
  <2>12. LateInv' /\ StateInv'
    BY <1>2 DEF PollInv, LateInv, StateInv
  <2>13. WillInv'
    <3> SUFFICES ASSUME NEW x \in Block, IsSensor(x), heap[x].driver \notin misnulled, Polls(x)'
                 PROVE  WillPoll(x)'
      BY <1>2 DEF WillInv, IsSensor
    <3>0. Timer(x)' = Timer(x)
      BY <1>2 DEF Timer
    <3>1. CASE x = b
      <4>1. new \in Requests(Timer(x))' /\ \A i \in Requests(Timer(x))' : i <= new
        BY <2>2, <2>3, <3>0, <3>1, QueuePlaces DEF Requests
      <4>2. op_queue'[new].op = "start" /\ op_queue'[new].sensor = x
        BY <2>2, <2>3, <3>1
      <4> QED BY <4>1, <4>2 DEF WillPoll
    <3>2. CASE x # b
      <4>1. WillPoll(x)
        BY <2>5, <3>2 DEF PollInv, WillInv
      <4>2. Timer(x) # Timer(b)
        BY <1>1, <3>2, DistinctTimers
      <4>3. Requests(Timer(x))' = Requests(Timer(x))
        BY <2>2, <2>3, <3>0, <4>2 DEF Requests
      <4>4. \A i \in Requests(Timer(x)) : op_queue'[i] = op_queue[i]
        BY <2>2 DEF Requests
      <4> QED BY <1>2, <3>0, <4>1, <4>3, <4>4 DEF WillPoll
    <3> QED BY <3>1, <3>2
  <2> QED BY <2>8, <2>9, <2>10, <2>11, <2>12, <2>13 DEF PollInv
<1> QED BY <1>4, <1>5 DEF PollStart

\* ... and the handler is stored, before or after the start is carried out.
LEMMA StorePolling ==
    ASSUME MemoryInv, MemoryInv', PollInv, NEW c \in Context, PollStore(c)
    PROVE  PollInv'
<1> SUFFICES ASSUME NEW b, b = call[c].sensor PROVE PollInv'
  OBVIOUS
<1>0. TypeOK /\ heap \in [Block -> Content] /\ "POLLING" \in State
  BY TypesUsed DEF MemoryInv, State
<1>1. b \in Block /\ IsSensor(b) /\ pc[c] = "store"
  BY DEF PollStore, At, MemoryInv, Calls, Working
<1>2. /\ UNCHANGED <<op_queue, linked, raced, misnulled>>
      /\ heap' = [heap EXCEPT ![b].sensor_state = "POLLING", ![b].polled = TRUE]
  BY DEF PollStore, world
<1>3. /\ \A x \in Context : x # c => pc'[x] = pc[x] /\ call'[x] = call[x]
      /\ pc'[c] \in {"idle", "handled"}
  BY <1>0 DEF PollStore, Return, Goto, TypeOK, Context
<1>4. /\ \A x \in Block : /\ heap'[x].use = heap[x].use /\ heap'[x].driver = heap[x].driver
                          /\ x # b => heap'[x] = heap[x]
  BY <1>0, <1>1, <1>2, NewStates
<1>5. heap'[b].sensor_state = "POLLING" /\ heap'[b].polled = TRUE
  BY <1>0, <1>1, <1>2 DEF Content
<1>6. \A x \in Context : x # c => ~(pc[x] \in {"clear", "store"} /\ call[x].sensor = b)
  BY <1>1 DEF MemoryInv, Calls, Context
<1>7. Polls(b) /\ Polls(b)'
  BY <1>1, <1>3, <1>5, <1>6 DEF Polls, CalledAt, Context
<1>8. \A x \in Block : x # b => (Polls(x)' <=> Polls(x))
  BY <1>1, <1>3, <1>4 DEF Polls, CalledAt, Context
<1>9. PollsKept
  BY <1>4, <1>7, <1>8, PollsAreSensors DEF PollsKept, IsSensor
<1>10. HandlerKept
  BY <1>3 DEF HandlerKept, Context
<1>11. HandlerInv'
  <2>1. pc'["timer"] \in {"test", "handler", "clear", "start"} => call["timer"].sensor \in Block
    BY <1>10 DEF HandlerKept, PollInv, HandlerInv, MemoryInv, Calls, Working, Context
  <2> QED BY <1>2, <1>4, <1>10, <2>1, HandlerInvKept DEF IsSensor
<1>12. LateInv' /\ StateInv'
  BY <1>2, <1>4, <1>5 DEF PollInv, LateInv, StateInv
<1> QED BY <1>2, <1>9, <1>11, <1>12, PollingKept

-----------------------------------------------------------------------------
(* The app_timer interrupt.                                                  *)

\* A request is carried out.
LEMMA CarryOutPolling ==
    ASSUME MemoryInv, MemoryInv', PollInv, CarryOut
    PROVE  PollInv'
<1>0. TypeOK
  BY DEF MemoryInv
<1>1. /\ UNCHANGED <<heap, pc, call, raced, misnulled>> /\ pc["timer"] = "idle"
  BY DEF CarryOut, history
<1> DEFINE r == op_queue[1]
<1>2. /\ 1 \in DOMAIN op_queue /\ linked' = Does(linked, r)
      /\ \A i \in DOMAIN op_queue' :
            i \in Nat \ {0} /\ i + 1 \in DOMAIN op_queue /\ op_queue'[i] = op_queue[i + 1]
      /\ \A i \in DOMAIN op_queue :
            i \in Nat /\ (i # 1 => /\ i - 1 \in DOMAIN op_queue' /\ i > 1
                                   /\ op_queue'[i - 1] = op_queue[i])
  BY CarriedOut DEF CarryOut
<1>3. \A x \in Block : /\ Polls(x)' <=> Polls(x)
                       /\ IsSensor(x)' <=> IsSensor(x)
                       /\ Timer(x)' = Timer(x)
  BY <1>1 DEF Polls, CalledAt, IsSensor, Timer
<1>4. r.sensor \in Block /\ r \in Requested
  BY <1>2, QueuePlaces
<1>5. \* What is linked was, or is what a start asks for.
      \A l \in linked' : \/ l \in linked /\ (r.op = "stop" => l.timer # r.timer)
                         \/ r.op = "start" /\ l.timer = r.timer /\ l.sensor = r.sensor
  BY <1>2, <1>4 DEF Does, Requested
<1>6. \* A stop that waits is not the first, unless its timer is not linked any more.
      \A t : Stopped(t) /\ ~(r.op = "stop" /\ r.timer = t) => Stopped(t)'
  <2> SUFFICES ASSUME NEW t, NEW i \in DOMAIN op_queue, op_queue[i].op = "stop",
                      op_queue[i].timer = t, ~(r.op = "stop" /\ r.timer = t)
               PROVE  Stopped(t)'
    BY DEF Stopped
  <2>1. i - 1 \in DOMAIN op_queue' /\ op_queue'[i - 1] = op_queue[i]
    BY <1>2
  <2> QED BY <2>1 DEF Stopped
<1>7. QueueInv'
  <2> SUFFICES ASSUME NEW i \in DOMAIN op_queue', NEW j \in DOMAIN op_queue', i < j,
                      op_queue'[i].timer = op_queue'[j].timer
               PROVE  op_queue'[i].op = "stop" /\ op_queue'[j].op = "start"
    BY DEF QueueInv
  <2>1. /\ i + 1 \in DOMAIN op_queue /\ op_queue'[i] = op_queue[i + 1]
        /\ j + 1 \in DOMAIN op_queue /\ op_queue'[j] = op_queue[j + 1] /\ i + 1 < j + 1
    BY <1>2
  <2> QED BY <2>1 DEF PollInv, QueueInv
<1>8. HandlerInv'
  BY <1>1 DEF HandlerInv
<1>9. StartInv'
  <2> SUFFICES ASSUME NEW i \in DOMAIN op_queue', op_queue'[i].op = "start",
                      NEW x, x = op_queue'[i].sensor
               PROVE  Polls(x)' /\ IsSensor(x)' /\ op_queue'[i].timer = Timer(x)'
    BY DEF StartInv
  <2>1. i + 1 \in DOMAIN op_queue /\ op_queue'[i] = op_queue[i + 1]
    BY <1>2
  <2>2. x \in Block
    BY <2>1, QueuePlaces
  <2>3. Polls(x) /\ IsSensor(x) /\ op_queue[i + 1].timer = Timer(x)
    BY <2>1 DEF PollInv, StartInv
  <2> QED BY <1>3, <2>1, <2>2, <2>3
<1>10. r.op = "start" => Polls(r.sensor) /\ IsSensor(r.sensor) /\ r.timer = Timer(r.sensor)
  BY <1>2 DEF PollInv, StartInv
<1>11. LinkedInv'
  <2> SUFFICES ASSUME NEW l \in linked'
               PROVE  \/ Polls(l.sensor)' /\ IsSensor(l.sensor)' /\ l.timer = Timer(l.sensor)'
                      \/ Stopped(l.timer)'
    BY DEF LinkedInv
  <2>1. CASE l \in linked /\ (r.op = "stop" => l.timer # r.timer)
    <3>1. l.sensor \in Block
      BY <1>0, <2>1 DEF TypeOK
    <3>2. CASE Stopped(l.timer)
      BY <1>6, <2>1, <3>2
    <3>3. CASE Polls(l.sensor) /\ IsSensor(l.sensor) /\ l.timer = Timer(l.sensor)
      BY <1>3, <3>1, <3>3
    <3> QED BY <2>1, <3>2, <3>3 DEF PollInv, LinkedInv
  <2>2. CASE r.op = "start" /\ l.timer = r.timer /\ l.sensor = r.sensor
    BY <1>3, <1>4, <1>10, <2>2
  <2> QED BY <1>5, <2>1, <2>2
<1>12. LateInv'
  <2> SUFFICES ASSUME NEW l \in linked', l.timer \in Block, heap[l.timer].use = "report"
               PROVE  raced
    BY <1>1 DEF LateInv
  <2>1. CASE l \in linked
    BY <2>1 DEF PollInv, LateInv
  <2>2. CASE r.op = "start" /\ l.timer = r.timer /\ l.sensor = r.sensor
    <3>1. Timer(r.sensor) = r.sensor /\ IsSensor(r.sensor)
      BY <1>4, <1>10, <2>2, OwnTimer
    <3> QED BY <1>10, <2>2, <3>1 DEF IsSensor
  <2> QED BY <1>5, <2>1, <2>2
<1>13. StateInv'
  BY <1>1 DEF PollInv, StateInv
<1>14. WillInv'
  <2> SUFFICES ASSUME NEW x \in Block, IsSensor(x), heap[x].driver \notin misnulled, Polls(x)
               PROVE  WillPoll(x)'
    BY <1>1, <1>3 DEF WillInv
  <2>1. WillPoll(x)
    BY DEF PollInv, WillInv
  <2> DEFINE t == Timer(x)
  <2>2. \A i \in Requests(t)' : i + 1 \in Requests(t) /\ i \in Nat \ {0}
    BY <1>2, <1>3 DEF Requests
  <2>3. CASE Requests(t) = {}
    <3>1. [timer |-> t, sensor |-> x] \in linked
      BY <2>1, <2>3 DEF WillPoll
    <3>2. r.timer # t
      BY <1>2, <2>3 DEF Requests
    <3>3. [timer |-> t, sensor |-> x] \in linked'
      BY <1>2, <3>1, <3>2 DEF Does
    <3>4. Requests(t)' = {}
      BY <2>2, <2>3
    <3> QED BY <1>3, <3>3, <3>4 DEF WillPoll
  <2>4. CASE Requests(t) # {}
    <3>1. PICK last \in Requests(t) : /\ \A i \in Requests(t) : i <= last
                                      /\ op_queue[last].op = "start" /\ op_queue[last].sensor = x
      BY <2>1, <2>4 DEF WillPoll
    <3>2. last \in DOMAIN op_queue /\ last \in Nat /\ op_queue[last].timer = t
      BY <1>2, <3>1 DEF Requests
    <3>3. CASE last = 1
      <4>1. Requests(t)' = {}
        BY <2>2, <3>1, <3>3
      <4>2. r.op = "start" /\ r.sensor = x /\ r.timer = t
        BY <3>1, <3>2, <3>3
      <4>3. [timer |-> t, sensor |-> x] \in linked'
        <5>1. CASE \E l \in linked : l.timer = t
          <6>1. PICK l \in linked : l.timer = t
            BY <5>1
          <6>2. ~Stopped(t)
            <7> SUFFICES ASSUME NEW i \in DOMAIN op_queue, op_queue[i].op = "stop",
                                op_queue[i].timer = t
                         PROVE  FALSE
              BY DEF Stopped
            <7>1. i <= 1 /\ i # 1
              BY <3>1, <3>3, <4>2 DEF Requests
            <7> QED BY <1>2, <7>1
          <6>3. /\ l.sensor \in Block /\ IsSensor(l.sensor) /\ Timer(l.sensor) = t
                /\ l = [timer |-> l.timer, sensor |-> l.sensor]
            BY <1>0, <6>1, <6>2 DEF PollInv, LinkedInv, TypeOK
          <6>4. l.sensor = x
            BY <6>3, DistinctTimers
          <6> QED BY <1>2, <4>2, <6>1, <6>3, <6>4 DEF Does
        <5>2. CASE ~\E l \in linked : l.timer = t
          BY <1>2, <4>2, <5>2 DEF Does
        <5> QED BY <5>1, <5>2
      <4> QED BY <1>3, <4>1, <4>3 DEF WillPoll
    <3>4. CASE last # 1
      <4>1. last - 1 \in DOMAIN op_queue' /\ op_queue'[last - 1] = op_queue[last]
        BY <1>2, <3>2, <3>4
      <4>2. last - 1 \in Requests(t)'
        BY <1>3, <3>2, <4>1 DEF Requests
      <4>3. \A i \in Requests(t)' : i <= last - 1
        BY <2>2, <3>1, <3>2
      <4> QED BY <1>3, <3>1, <4>1, <4>2, <4>3 DEF WillPoll
    <3> QED BY <3>3, <3>4
  <2> QED BY <2>3, <2>4
<1> QED BY <1>7, <1>8, <1>9, <1>11, <1>12, <1>13, <1>14 DEF PollInv

\* A timer expires.
LEMMA ExpirePolling ==
    ASSUME MemoryInv, MemoryInv', PollInv, NEW l \in linked, Expire(l)
    PROVE  PollInv'
<1>0. TypeOK
  BY DEF MemoryInv
<1>1. /\ UNCHANGED <<heap, op_queue, linked, raced, misnulled>> /\ pc["timer"] = "idle"
      /\ pc'["timer"] = "test" /\ call'["timer"].sensor = l.sensor
      /\ pc'["main"] = pc["main"] /\ call'["main"] = call["main"]
  BY <1>0 DEF Expire, Goto, world, TypeOK, Context
<1>2. ~Stopped(l.timer)
  BY DEF Expire, Requests, Stopped
<1>3. l.sensor \in Block /\ IsSensor(l.sensor) /\ Timer(l.sensor) = l.timer
  BY <1>0, <1>2 DEF PollInv, LinkedInv, TypeOK
<1>4. CallsKept
  BY <1>1 DEF CallsKept, Context
<1>5. PollsKept
  BY <1>1, <1>4, PollsSame, PollsAreSensors DEF PollsKept, IsSensor
<1>6. HandlerInv'
  <2>1. Requests(l.timer)' = {} /\ Timer(l.sensor)' = l.timer /\ IsSensor(l.sensor)'
    BY <1>1, <1>3 DEF Expire, Requests, Timer, IsSensor
  <2> QED BY <1>1, <1>3, <2>1 DEF HandlerInv
<1>7. LateInv' /\ StateInv'
  BY <1>1 DEF PollInv, LateInv, StateInv
<1> QED BY <1>1, <1>5, <1>6, <1>7, PollingKept

-----------------------------------------------------------------------------
(* The specification.                                                        *)

\* When main starts nothing polls.
LEMMA PollInvInit ==
    ASSUME Init
    PROVE  PollInv
<1>1. op_queue = <<>> /\ linked = {} /\ pc["timer"] = "idle" /\ DOMAIN op_queue = {}
  BY EmptySeq DEF Init, Context
<1>2. \A b \in Block : /\ ~IsSensor(b)
                       /\ heap[b].polled = (heap[b].sensor_state = "POLLING")
  BY DEF Init, IsSensor, Free
<1> QED BY <1>1, <1>2 DEF PollInv, QueueInv, HandlerInv, StartInv, LinkedInv, LateInv, StateInv, WillInv

\* Every step keeps the invariant, by the lemma of its action.
LEMMA PollInvNext ==
    ASSUME MemoryInv, MemoryInv', PollInv, [Next]_vars
    PROVE  PollInv'
<1>1. CASE \/ \E d \in Driver : GetAgain(d) \/ GetFails(d) \/ GetFailsOther(d)
           \/ \E b \in Block : SetEvent(b, TRUE) \/ SetEvent(b, FALSE)
           \/ \E c \in Context : UninitStore(c)
           \/ TimeoutCall \/ TimeoutReturns
  BY <1>1, CallsPolling
<1>2. CASE \/ \E d \in Driver : GetNew(d) \/ PinEvent(d)
           \/ \E b \in Block : InitOk(b) \/ InitFails(b) \/ ReportFreed(b)
  BY <1>2, BlocksPolling
<1>3. CASE \E c \in Context, b \in Block : PollEnter(c, b) \/ UninitFree(c, b)
  BY <1>3, EnterPolling, UninitPolling
<1>4. CASE \E c \in Context : PollClear(c) \/ PollStart(c) \/ PollStore(c)
  BY <1>4, ClearPolling, StartPolling, StorePolling
<1>5. CASE EventStore
  BY <1>5, EventPolling
<1>6. CASE CarryOut
  BY <1>6, CarryOutPolling
<1>7. CASE \E l \in linked : Expire(l)
  BY <1>7, ExpirePolling
<1>8. CASE UNCHANGED vars
  <2>1. UNCHANGED <<heap, op_queue, linked, raced, misnulled, pc, call>>
    BY <1>8 DEF vars
  <2> QED BY <2>1, QuietPolling DEF CallsKept, HandlerKept
<1> QED BY <1>1, <1>2, <1>3, <1>4, <1>5, <1>6, <1>7, <1>8 DEF Next, CallStep

\* Outside of a call the state, the handler and app_timer agree.
LEMMA PollInvAgrees ==
    ASSUME MemoryInv, PollInv
    PROVE  PollingAgrees
<1> SUFFICES ASSUME NEW b \in Block, IsSensor(b), heap[b].driver \notin misnulled, ~InCall(b)
             PROVE  /\ (heap[b].sensor_state = "POLLING") = WillPoll(b)
                    /\ heap[b].polled = WillPoll(b)
  BY DEF PollingAgrees
<1>1. Polls(b) <=> heap[b].sensor_state = "POLLING"
  BY DEF InCall, Polls, CalledAt
<1>2. heap[b].sensor_state = "POLLING" => WillPoll(b)
  BY <1>1 DEF PollInv, WillInv
<1>3. WillPoll(b) => heap[b].sensor_state = "POLLING"
  <2>1. CASE Requests(Timer(b)) = {}
    <3>1. ~Stopped(Timer(b))
      BY <2>1 DEF Stopped, Requests
    <3>2. [timer |-> Timer(b), sensor |-> b] \in linked => Polls(b)
      BY <3>1 DEF PollInv, LinkedInv
    <3> QED BY <1>1, <2>1, <3>2 DEF WillPoll
  <2>2. CASE Requests(Timer(b)) # {}
    <3>1. SUFFICES ASSUME NEW last \in Requests(Timer(b)),
                          op_queue[last].op = "start", op_queue[last].sensor = b
                   PROVE  Polls(b)
      BY <1>1, <2>2 DEF WillPoll
    <3>2. last \in DOMAIN op_queue
      BY DEF Requests
    <3> QED BY <3>1, <3>2 DEF PollInv, StartInv
  <2> QED BY <2>1, <2>2
<1>4. WillPoll(b) \in BOOLEAN
  <2>1. CASE Requests(Timer(b)) = {}
    BY <2>1 DEF WillPoll
  <2>2. CASE Requests(Timer(b)) # {}
    BY <2>2 DEF WillPoll
  <2> QED BY <2>1, <2>2
<1>5. heap[b].polled = (heap[b].sensor_state = "POLLING")
  BY DEF PollInv, StateInv
<1> QED BY <1>2, <1>3, <1>4, <1>5

\* The invariant says that app_timer polls no freed sensor.
LEMMA PollInvLive ==
    ASSUME MemoryInv, PollInv
    PROVE  PollsLiveSensors
<1>1. ASSUME NEW l \in linked, l.timer \in Block
      PROVE  \/ IsSensor(l.timer) /\ heap[l.timer].driver \in Pins
             \/ /\ \E i \in DOMAIN op_queue : op_queue[i].op = "stop" /\ op_queue[i].timer = l.timer
                /\ heap[l.timer].use = "report" => raced
  <2>1. l.sensor \in Block
    BY DEF MemoryInv, TypeOK
  <2>2. CASE IsSensor(l.sensor) /\ l.timer = Timer(l.sensor)
    BY <1>1, <2>1, <2>2, OwnTimer
  <2>3. CASE Stopped(l.timer)
    BY <1>1, <2>3 DEF Stopped, PollInv, LateInv
  <2> QED BY <2>2, <2>3 DEF PollInv, LinkedInv
<1>2. pc["timer"] \in {"test", "handler"} => IsSensor(call["timer"].sensor)
  BY DEF PollInv, HandlerInv
<1>3. op_queue = <<>> => \A l \in linked : IsSensor(l.sensor)
  BY QueuePlaces, EmptySeq DEF PollInv, LinkedInv, Stopped
<1> QED BY <1>1, <1>2, <1>3 DEF PollsLiveSensors

\* The invariant of MemoryInvHolds and what the queue and the calls say of polling, together.
LEMMA PollInvHolds == Spec => []PollInv
<1>1. Init => PollInv
  BY PollInvInit
<1>2. MemoryInv /\ MemoryInv' /\ PollInv /\ [Next]_vars => PollInv'
  BY PollInvNext
<1> QED BY <1>1, <1>2, MemoryInvHolds, PTL DEF Spec

\* What a sensor says of its polling, and app_timer's list and queue, agree outside of
\* sems_sensor_polling, for every number of sensors and requests: the order of its stores and
\* requests (sems_sensor.c:49) is right, whatever preempts it and whichever request fails.
THEOREM PollingAlwaysAgrees == Spec => []PollingAgrees
<1>1. MemoryInv /\ PollInv => PollingAgrees
  BY PollInvAgrees
<1> QED BY <1>1, MemoryInvHolds, PollInvHolds, PTL

\* No poll reaches a sensor that was freed, although app_timer carries a stop out after the
\* call that asked for it returned (sems_sensor.c:56).
THEOREM NoFreedSensorIsPolled == Spec => []PollsLiveSensors
<1>1. MemoryInv /\ PollInv => PollsLiveSensors
  BY PollInvLive
<1> QED BY <1>1, MemoryInvHolds, PollInvHolds, PTL

=============================================================================
