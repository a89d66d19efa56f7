---------------------------- MODULE BleServices ----------------------------
(***************************************************************************)
(* The hub as a peripheral: main.c's boot, ble_services.c's dispatch of    *)
(* the SoftDevice's events, and the sensor and action services.  Events    *)
(* wait in the SoftDevice while the link they are about goes on, and an    *)
(* error of a SoftDevice call resets the hub (APP_ERROR_CHECK).  The       *)
(* events and app_timer's interrupt have one priority: a handler is a step.*)
(* A handle is the number of its connection; the SoftDevice, which has one *)
(* link, gives the same to each.                                           *)
(***************************************************************************)
EXTENDS PbEncode

CONSTANTS
    Listed,          \* the sensors main lists, in its order
    SensorTag,
    Readings,        \* what each may have read, as bytes
    Written,         \* what a central may write
    Piece,           \* the bytes of a value that one answer takes: the MTU less one
    BLE_GATT_MAX_SIZE,
    MAX_CONN_PARAMS_UPDATE_COUNT,
    MaxConnections,  \* bound on the connections of a behaviour
    MaxEvents        \* bound on the events that wait once a central has changed the parameters by itself

ASSUME BleAssumption ==
    /\ {Piece, BLE_GATT_MAX_SIZE, MaxConnections} \subseteq Nat \ {0}
    /\ {MAX_CONN_PARAMS_UPDATE_COUNT, MaxEvents} \subseteq Nat
    /\ Written \subseteq Seq(Byte) /\ Listed \in Seq(DOMAIN Readings)
    /\ \A k \in DOMAIN Listed : /\ SensorTag[Listed[k]] \in 0..2 ^ WordBits - 1
                                /\ Readings[Listed[k]] # {} /\ Readings[Listed[k]] \subseteq Seq(Byte)

BLE_CONN_HANDLE_INVALID == 0

VARIABLES
    pc,           \* what main is doing
    listed,       \* how many sensors it has set up
    attributes,   \* the SoftDevice's table: an attribute's handle is its place
    handle,       \* value_handle of each service's characteristic, 0 if there is none
    conn_handle,  \* ble_services.c's, each service's, ble_conn_params's
    events,       \* the SoftDevice's queue
    link, number, \* the link, and the number of its connection
    acceptable,   \* whether its parameters are
    advertising,
    awaiting,     \* the request the central awaits an answer to
    params,       \* ble_conn_params's timer and count, and whether what it asked is unanswered; own, a
                  \* history: whether the central has changed the parameters by itself since it was last
                  \* asked, or an update was still to be handled then
    readings,     \* history: the readings the sensor service was last given
    reading       \* what a central has read of the value; history: whether it stayed the same

radio == <<link, number, acceptable, advertising, awaiting>>
vars  == <<pc, listed, attributes, handle, conn_handle, events, radio, params, readings, reading>>

Holders == {"ble_services", "sensor", "action", "params"}
NoParams == [count |-> 0, timer |-> FALSE, asked |-> FALSE, own |-> FALSE]
Forgotten == [NoParams EXCEPT !.own = params.own]
NoReading == [bytes |-> <<>>, same |-> TRUE, ended |-> FALSE]

-----------------------------------------------------------------------------
(* The services.                                                            *)

Service(uuid) == [kind |-> "service", uuid |-> uuid, read |-> TRUE, write |-> FALSE, max |-> 0, value |-> <<>>]

\* sems_add_char_uuid: what its properties allow its attribute permits; four bytes to begin with.
Char(uuid, can_read, can_write, maxlen) ==
    [kind |-> "char", uuid |-> uuid, read |-> can_read, write |-> can_write, max |-> maxlen,
     value |-> <<0, 0, 0, 0>>]

ActionService == <<Service("action"), Char("action", FALSE, TRUE, 30)>>
SensorService == <<Service("sensor"), Char("sensor", TRUE, FALSE, BLE_GATT_MAX_SIZE)>>

\* sems_ble_services_init, which drops the error of either: a service may lack its characteristic.
Registered(action, sensor) ==
    SubSeq(ActionService, 1, action) \o SubSeq(SensorService, 1, sensor)

\* Mutated: the services keep one handle between them.
HandleShared(table, uuid) ==
    LET places == {h \in DOMAIN table : table[h].kind = "char"}
    IN  IF places = {} THEN 0 ELSE Min(places)

HandleOf(table, uuid) ==
    LET places == {h \in DOMAIN table : table[h].kind = "char" /\ table[h].uuid = uuid}
    IN  IF places = {} THEN 0 ELSE Min(places)

\* sd_ble_gatts_value_set.
ValueSet(h, value) ==
    attributes' = IF h \in DOMAIN attributes /\ Len(value) <= attributes[h].max
                  THEN [attributes EXCEPT ![h].value = value] ELSE attributes

-----------------------------------------------------------------------------
(* Boot and reset.                                                          *)

Unbooted ==
    /\ pc' = "ble_stack_init" /\ listed' = 0
    /\ attributes' = <<>> /\ handle' = [u \in {"action", "sensor"} |-> 0]
    /\ conn_handle' = [h \in Holders |-> BLE_CONN_HANDLE_INVALID]
    /\ events' = <<>> /\ params' = NoParams /\ readings' = <<>> /\ reading' = NoReading
    /\ link' = "down" /\ acceptable' = TRUE /\ advertising' = FALSE /\ awaiting' = "none"

Init ==
    /\ pc = "ble_stack_init" /\ listed = 0
    /\ attributes = <<>> /\ handle = [u \in {"action", "sensor"} |-> 0]
    /\ conn_handle = [h \in Holders |-> BLE_CONN_HANDLE_INVALID]
    /\ events = <<>> /\ params = NoParams /\ readings = <<>> /\ reading = NoReading
    /\ link = "down" /\ acceptable = TRUE /\ advertising = FALSE /\ awaiting = "none"
    /\ number = 0

\* The hub starts again; the central finds out later.
Reset == Unbooted /\ UNCHANGED number

\* A stage of sems_init, in its order: an error of it is checked, and resets the hub.
Stage(from, to) ==
    /\ pc = from
    /\ \/ pc' = to /\ UNCHANGED <<listed, attributes, handle, conn_handle, events, radio, params, readings, reading>>
       \/ Reset

BleStackInit    == Stage("ble_stack_init", "gap_params_init")
GapParamsInit   == Stage("gap_params_init", "advertising_init")
AdvertisingInit == Stage("advertising_init", "services_init")
ConnParamsInit  == Stage("conn_params_init", "sensor_init")

\* sems_ble_services_init drops the errors.  The conn_handle of a service is set even if the service is not.
ServicesInit ==
    /\ pc = "services_init" /\ pc' = "conn_params_init"
    /\ \E action, sensor \in 0..2 :
        /\ attributes' = Registered(action, sensor)
        /\ handle' = [u \in {"action", "sensor"} |-> HandleOf(Registered(action, sensor), u)]
    /\ UNCHANGED <<listed, conn_handle, events, radio, params, readings, reading>>

\* A sensor, or the actuator, that cannot be initialised resets the hub.
SensorInit ==
    /\ pc = "sensor_init"
    /\ \/ Reset
       \/ /\ listed < Len(Listed) /\ listed' = listed + 1
          /\ UNCHANGED <<pc, attributes, handle, conn_handle, events, radio, params, readings, reading>>

\* sems_set_action_handler, sems_ble_start.
Start ==
    /\ pc = "sensor_init" /\ listed = Len(Listed)
    /\ pc' = "loop" /\ advertising' = TRUE
    /\ UNCHANGED <<listed, attributes, handle, conn_handle, events, link, number, acceptable,
                   awaiting, params, readings, reading>>

\* A poll: sems_ble_update_data, sems_ble_set_sensor_data.
Message(s, data) == [type |-> SensorTag[s], data |-> data]

Publish ==
    /\ listed > 0
    /\ \E data \in [1..listed -> UNION {Readings[Listed[k]] : k \in 1..listed}] :
        /\ \A k \in 1..listed : data[k] \in Readings[Listed[k]]
        /\ LET messages == [k \in 1..listed |-> Message(Listed[k], data[k])]
               stream   == EncodeList(Stream(BLE_GATT_MAX_SIZE), messages)
           IN  /\ stream.ok
               /\ ValueSet(handle["sensor"], stream.bytes)
               /\ readings' = messages
    /\ reading' = IF reading.ended THEN NoReading ELSE [reading EXCEPT !.same = reading.bytes = <<>>]
    /\ UNCHANGED <<pc, listed, handle, conn_handle, events, radio, params>>

-----------------------------------------------------------------------------
(* Dispatch.                                                                *)

\* Mutated: two of the calls of ble_evt_dispatch are commented out.
ServicesDeaf == [connected |-> {"params", "ble_services", "sensor", "action"},
                 disconnected |-> {"params", "ble_services"}]

\* Who of ble_evt_dispatch takes the handle of a connection, and who gives it up.
Hears == [connected    |-> {"params", "ble_services", "sensor", "action"},
          disconnected |-> {"params", "sensor", "action"}]

\* Mutated: a case has no break and goes on into the next one.
AnswersTwice == [memory |-> {"memory", "authorize"}, authorize |-> {"authorize"}, mtu |-> {"mtu"}]

\* on_ble_evt: the calls that answer a request.
Answers == [memory |-> {"memory"}, authorize |-> {"authorize"}, mtu |-> {"mtu"}]

Event == Head(events)
Handled(evt) == pc = "loop" /\ events # <<>> /\ Event.evt = evt /\ events' = Tail(events)

\* Mutated: an event of ble_conn_params disconnects, whatever its type.
OnAnyConnParamsEvt(evt_type) == TRUE

\* Mutated: it is logged.
OnConnParamsEvtLogged(evt_type) == FALSE

\* on_conn_params_evt: whether it disconnects.
OnConnParamsEvt(evt_type) == evt_type = "failed"

\* ble_conn_params: parameters that are not acceptable are asked for, later.  A timer that runs goes
\* on, and runs still when they have become acceptable.
Negotiation(p) ==
    /\ params' = [p EXCEPT !.timer = @ \/ ~Event.acceptable]
    /\ link' = IF Event.acceptable /\ link = "up" /\ OnConnParamsEvt("succeeded") THEN "closing" ELSE link

OnConnected ==
    /\ Handled("connected")
    /\ conn_handle' = [h \in Holders |-> IF h \in Hears.connected THEN Event.number ELSE conn_handle[h]]
    /\ Negotiation(Forgotten)
    /\ UNCHANGED <<pc, listed, attributes, handle, number, acceptable, advertising, awaiting,
                   readings, reading>>

\* Mutated: ble_advertising does not hear of it.
OnDisconnectedQuietly ==
    /\ Handled("disconnected")
    /\ conn_handle' = [h \in Holders |-> IF h \in Hears.disconnected THEN BLE_CONN_HANDLE_INVALID
                                         ELSE conn_handle[h]]
    /\ params' = NoParams
    /\ UNCHANGED <<pc, listed, attributes, handle, radio, readings, reading>>

\* ble_advertising starts again.
OnDisconnected ==
    /\ Handled("disconnected")
    /\ conn_handle' = [h \in Holders |-> IF h \in Hears.disconnected THEN BLE_CONN_HANDLE_INVALID
                                         ELSE conn_handle[h]]
    /\ params' = NoParams
    /\ advertising' = TRUE
    /\ UNCHANGED <<pc, listed, attributes, handle, link, number, acceptable, awaiting, readings, reading>>

\* sd_ble_gap_disconnect, of a link that is up or has gone, or goes, by now.
Disconnect == link = "up" /\ link' = "closing"

OnTimeout ==
    \/ /\ Handled("timeout") /\ Disconnect
       /\ UNCHANGED <<pc, listed, attributes, handle, conn_handle, number, acceptable, advertising,
                      awaiting, params, readings, reading>>
    \/ pc = "loop" /\ events # <<>> /\ Event.evt = "timeout" /\ link # "up" /\ Reset

\* Mutated: a request for memory is noted, and not answered.
OnRequestNoted ==
    /\ pc = "loop" /\ events # <<>> /\ Event.evt \in DOMAIN Answers
    /\ \/ /\ link # "down" /\ Answers[Event.evt] = {awaiting}
          /\ awaiting' = (IF awaiting = "memory" THEN awaiting ELSE "none") /\ events' = Tail(events)
          /\ UNCHANGED <<pc, listed, attributes, handle, conn_handle, link, number, acceptable,
                         advertising, params, readings, reading>>
       \/ (link # "up" \/ Answers[Event.evt] # {awaiting}) /\ Reset

\* A call that answers what is not awaited is refused, and all are when the link has gone.
OnRequest ==
    /\ pc = "loop" /\ events # <<>> /\ Event.evt \in DOMAIN Answers
    /\ \/ /\ link # "down" /\ Answers[Event.evt] = {awaiting}
          /\ awaiting' = "none" /\ events' = Tail(events)
          /\ UNCHANGED <<pc, listed, attributes, handle, conn_handle, link, number, acceptable,
                         advertising, params, readings, reading>>
       \/ (link # "up" \/ Answers[Event.evt] # {awaiting}) /\ Reset

OnParamUpdate ==
    /\ Handled("param_update")
    /\ Negotiation(params)
    /\ UNCHANGED <<pc, listed, attributes, handle, conn_handle, number, acceptable, advertising,
                   awaiting, readings, reading>>

Waits(evt) == \E k \in DOMAIN events : events[k].evt = evt

\* ble_conn_params's timer: the update is asked for, or, after so many attempts, given up.  What was
\* asked is answered by now: the SoftDevice waits 30 s for it, and a timer started since as long.
ParamsTimeout ==
    LET failed == params.count = MAX_CONN_PARAMS_UPDATE_COUNT IN
    /\ params.timer /\ ~params.asked /\ conn_handle["params"] # BLE_CONN_HANDLE_INVALID
    /\ \/ /\ link = "up"
          /\ link' = IF failed /\ OnConnParamsEvt("failed") THEN "closing" ELSE "up"
          /\ params' = IF failed THEN Forgotten
                       ELSE [count |-> params.count + 1, timer |-> FALSE, asked |-> TRUE,
                             own |-> Waits("param_update")]
          /\ UNCHANGED <<pc, listed, attributes, handle, conn_handle, events, number, acceptable,
                         advertising, awaiting, readings, reading>>
       \* conn_params_error_handler, or APP_ERROR_CHECK of on_conn_params_evt.
       \/ link # "up" /\ Reset

-----------------------------------------------------------------------------
(* The SoftDevice and a central.                                            *)

\* An event that tells of the parameters has what they are by then.
Tells == {"connected", "param_update"}

Occurs(evt) ==
    events' = Append(events, [evt |-> evt, number |-> number', acceptable |-> evt \in Tells => acceptable'])

Connect ==
    /\ advertising /\ link = "down" /\ number < MaxConnections
    /\ link' = "up" /\ number' = number + 1 /\ advertising' = FALSE
    /\ acceptable' \in BOOLEAN
    /\ Occurs("connected")
    /\ UNCHANGED <<pc, listed, attributes, handle, conn_handle, awaiting, params, readings, reading>>

\* The link is lost, or is closed.
LinkEnds ==
    /\ link # "down" /\ link' = "down" /\ UNCHANGED <<number, acceptable>>
    /\ Occurs("disconnected")
    /\ awaiting' = "none" /\ reading' = NoReading
    /\ UNCHANGED <<pc, listed, attributes, handle, conn_handle, advertising, params, readings>>

\* One request at a time; after a timeout there are no more.
Request(evt) ==
    /\ link = "up" /\ awaiting = "none" /\ UNCHANGED <<number, acceptable>>
    /\ awaiting' = evt /\ Occurs(evt)
    /\ UNCHANGED <<pc, listed, attributes, handle, conn_handle, link, advertising, params, readings, reading>>

\* The parameters change, or stay as they were.
ParamsChange ==
    /\ link = "up" /\ UNCHANGED number
    /\ acceptable' \in BOOLEAN /\ Occurs("param_update")
    /\ UNCHANGED <<pc, listed, attributes, handle, conn_handle, link, advertising, awaiting,
                   readings, reading>>

\* The central grants the parameters it was asked for, or others, or none.
ParamUpdate == params.asked /\ params' = [params EXCEPT !.asked = FALSE] /\ ParamsChange

\* It changes them by itself, whatever the hub is about.
OwnUpdate == Len(events) < MaxEvents /\ params' = [params EXCEPT !.own = TRUE] /\ ParamsChange

WriteValue(h) ==
    /\ link = "up" /\ attributes[h].write
    /\ \E value \in Written : ValueSet(h, value)
    /\ UNCHANGED <<pc, listed, handle, conn_handle, events, radio, params, readings, reading>>

\* A long read: an answer that is not full is the last.
ReadPiece(h) ==
    LET value == attributes[h].value
        done  == Len(reading.bytes)
        got   == SubSeq(value, done + 1, Min({Len(value), done + Piece}))
    IN
    /\ link = "up" /\ attributes[h].read /\ attributes[h].uuid = "sensor"
    /\ attributes[h].kind = "char" /\ ~reading.ended
    /\ reading' = [reading EXCEPT !.bytes = @ \o got, !.ended = Len(got) < Piece]
    /\ UNCHANGED <<pc, listed, attributes, handle, conn_handle, events, radio, params, readings>>

Dispatch == OnConnected \/ OnDisconnected \/ OnTimeout \/ OnRequest \/ OnParamUpdate

Next ==
    \/ BleStackInit \/ GapParamsInit \/ AdvertisingInit \/ ServicesInit \/ ConnParamsInit
    \/ SensorInit \/ Start \/ Publish
    \/ Dispatch \/ ParamsTimeout
    \/ Connect \/ LinkEnds \/ ParamUpdate \/ OwnUpdate
    \/ \E evt \in {"memory", "authorize", "mtu", "timeout"} : Request(evt)
    \/ \E h \in DOMAIN attributes : WriteValue(h) \/ ReadPiece(h)

\* Interrupts run, timers expire, and a central answers or goes.
Spec ==
    /\ Init /\ [][Next]_vars
    /\ WF_vars(Dispatch) /\ WF_vars(ParamsTimeout) /\ WF_vars(ParamUpdate)

-----------------------------------------------------------------------------
\* The variables' types: no value is longer than its attribute allows, a service's handle is that of
\* its own characteristic, and no event is of a connection still to come.
TypeOK ==
    /\ pc \in {"ble_stack_init", "gap_params_init", "advertising_init", "services_init",
              "conn_params_init", "sensor_init", "loop"} /\ listed \in 0..Len(Listed)
    /\ \A h \in DOMAIN attributes : Len(attributes[h].value) <= Max({4, attributes[h].max})
    /\ \A u \in DOMAIN handle : handle[u] # 0 => attributes[handle[u]].uuid = u
    /\ conn_handle \in [Holders -> 0..MaxConnections] /\ number \in 0..MaxConnections
    /\ \A k \in DOMAIN events : events[k].number \in 1..number
    /\ link \in {"down", "up", "closing"} /\ {acceptable, advertising} \subseteq BOOLEAN
    /\ awaiting \in {"none", "memory", "authorize", "mtu", "timeout"}
    /\ params.count \in 0..MAX_CONN_PARAMS_UPDATE_COUNT /\ Len(readings) <= listed

\* Both services and ble_conn_params hold the handle of a connection from its first event to its last,
\* and ble_services.c's is that of the last connection there was: no event that waits, and no reset,
\* leaves one of them with another's.
HandlesAgree ==
    LET Current == IF Waits("connected") THEN BLE_CONN_HANDLE_INVALID
                   ELSE IF link # "down" \/ Waits("disconnected") THEN number
                   ELSE BLE_CONN_HANDLE_INVALID
    IN  /\ \A h \in Holders \ {"ble_services"} : conn_handle[h] = Current
        /\ Current # BLE_CONN_HANDLE_INVALID => conn_handle["ble_services"] = Current

\* The hub ends a connection only because an ATT request of that very connection timed out, or because
\* it has asked that connection for its parameters as often as it may, and they are not acceptable;
\* m_conn_handle, which is never reset, is not the handle of another by then.  They may be acceptable
\* only if the central has changed them by itself since it was last asked, or an update was still to be
\* handled then: a timer that runs goes on.
DisconnectsWithCause ==
    [][link = "up" /\ link' = "closing" =>
        \/ events # <<>> /\ Event.evt = "timeout" /\ Event.number = number
        \/ /\ params.count = MAX_CONN_PARAMS_UPDATE_COUNT /\ (acceptable => params.own)
           /\ conn_handle["ble_services"] = number /\ conn_handle["params"] = number]_vars

\* Nothing the hub does with a connection that is up is refused: a running hub resets itself only
\* in answer to what outlived its connection.
ResetsOnlyLate == [][pc = "loop" /\ pc' = "ble_stack_init" => link # "up"]_vars

\* A hub that has dealt with its events can be found: it advertises, or is connected.
CanBeFound == pc = "loop" /\ events = <<>> => advertising = (link = "down")

\* No request of a central is left without an answer.
RequestsAnswered == awaiting \in DOMAIN Answers => Waits(awaiting)

\* What a central reads in one go, while no poll sets the value, is a list of the sensors that main
\* listed with the readings the last poll had, whatever centrals wrote; before the first poll, of none.
ReadsDecode == reading.ended /\ reading.same => DecodedList(reading.bytes) = {readings}

\* A connection does not keep parameters that the hub does not accept.
BadParamsEnd == (pc = "loop" /\ link = "up" /\ ~acceptable) ~> (link # "up" \/ acceptable)

=============================================================================
