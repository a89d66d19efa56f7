------------------------- MODULE BleServicesProofs -------------------------
(***************************************************************************)
(* What BleServices promises of connections, for every number of them and  *)
(* every list of sensors, and of its attributes, whatever the sensors read *)
(* and a central writes.  The queue of the SoftDevice is the hard part:    *)
(* the invariant says in which order its events stand, that they are all   *)
(* about one connection, and what each still owes to the hub's state.      *)
(***************************************************************************)
EXTENDS BleServices, PbProofs

\* The events that the SoftDevice queues for ble_evt_dispatch.
EventTypes == {"connected", "disconnected", "memory", "authorize", "mtu", "timeout", "param_update"}

Queued == [evt : EventTypes, number : Nat, acceptable : BOOLEAN]

\* The types, with no bound on the number of connections or events.
Types ==
    /\ events \in Seq(Queued)
    /\ number \in Nat /\ link \in {"down", "up", "closing"}
    /\ conn_handle \in [Holders -> Nat]
    /\ acceptable \in BOOLEAN /\ advertising \in BOOLEAN
    /\ params \in [count : Nat, timer : BOOLEAN, asked : BOOLEAN, own : BOOLEAN]

\* The events are of one connection, its first one first and its last one last.
Queue ==
    /\ \A k \in 1..Len(events) : events[k].number = number
    /\ \A k \in 1..Len(events) : events[k].evt = "connected" => k = 1
    /\ \A k \in 1..Len(events) : events[k].evt = "disconnected" => k = Len(events) /\ link = "down"
    /\ link = "down" /\ events # <<>> => events[Len(events)].evt = "disconnected"

\* The hub advertises once it has dealt with the last connection, and not before.
Findable ==
    /\ advertising => link = "down" /\ events = <<>>
    /\ pc = "loop" /\ link = "down" /\ events = <<>> => advertising
    /\ pc # "loop" => link = "down" /\ events = <<>> /\ ~advertising

\* At most one request waits, and it is the one the central awaits an answer to.
Awaited ==
    /\ \A k \in 1..Len(events) :
        events[k].evt \in DOMAIN Answers /\ link # "down" => awaiting = events[k].evt
    /\ \A j, k \in 1..Len(events) :
        events[j].evt \in DOMAIN Answers /\ events[k].evt \in DOMAIN Answers => j = k
    /\ link = "down" => awaiting = "none"

\* While the central changes nothing by itself, ble_conn_params either waits for its timer, or for the
\* central, or has nothing to do; and what an event tells of the parameters is so still.
InTurn ==
    /\ params.timer => ~acceptable /\ ~params.asked
    /\ \A k \in 1..Len(events) : events[k].evt \in Tells => events[k].acceptable = acceptable
    /\ \A k \in 1..Len(events) : events[k].evt = "param_update" => ~params.asked /\ ~params.timer
    /\ \A j, k \in 1..Len(events) :
        events[j].evt = "param_update" /\ events[k].evt = "param_update" => j = k
    /\ \A k \in 1..Len(events) : events[k].evt = "connected" =>
        params = NoParams /\ \A j \in 1..Len(events) : events[j].evt # "param_update"

Negotiated ==
    /\ ~params.own => InTurn
    /\ link = "down" /\ events = <<>> => params = NoParams

\* The inductive invariant.
IInv == Types /\ Queue /\ Findable /\ Awaited /\ Negotiated /\ HandlesAgree /\ RequestsAnswered

\* What the invariant speaks of; a step that leaves it alone, and does not enter or leave the main
\* loop, is of no account.
spoken == <<events, link, number, conn_handle, acceptable, advertising, awaiting, params>>

-----------------------------------------------------------------------------
(* The queue.                                                               *)

\* What waits, by its place in the queue.
LEMMA WaitsAt ==
    ASSUME Types, NEW evt
    PROVE  Waits(evt) <=> \E k \in 1..Len(events) : events[k].evt = evt
<1>1. DOMAIN events = 1..Len(events)
  BY DEF Types
<1> QED BY <1>1 DEF Waits

\* An event is handled: the others are one place further on.
Shifted ==
    /\ events' \in Seq(Queued)
    /\ Len(events) \in Nat \ {0} /\ Len(events') \in Nat /\ Len(events) = Len(events') + 1
    /\ events' = <<>> <=> Len(events) = 1
    /\ Event = events[1] /\ events[1] \in Queued /\ 1 \in 1..Len(events)
    /\ \A k \in 1..Len(events') : k + 1 \in 1..Len(events) /\ events'[k] = events[k + 1]
    /\ \A k \in 1..Len(events) : k # 1 => k - 1 \in 1..Len(events') /\ events[k] = events'[k - 1]

\* Tail, said of the places.
LEMMA Dequeued ==
    ASSUME Types, events # <<>>, events' = Tail(events)
    PROVE  Shifted
<1>1. events \in Seq(Queued)
  BY DEF Types
<1>2. Len(events) \in Nat \ {0}
  BY <1>1, EmptySeq
<1>3. /\ events' \in Seq(Queued) /\ Len(events') = Len(events) - 1
      /\ \A k \in 1..Len(events') : events'[k] = events[k + 1]
  BY <1>1, HeadTailProperties
<1>4. Event = events[1]
  BY <1>1, <1>2 DEF Event
<1>5. events[1] \in Queued
  BY <1>1, <1>2, ElementOfSeq
<1>6. events' = <<>> <=> Len(events) = 1
  <2>1. events' = <<>> <=> Len(events') = 0
    BY <1>3, EmptySeq
  <2> QED BY <1>2, <1>3, <2>1
<1> QED BY <1>2, <1>3, <1>4, <1>5, <1>6 DEF Shifted

\* One that occurs comes after the others.
LEMMA Enqueued ==
    ASSUME Types, NEW evt \in EventTypes, number' \in Nat, Occurs(evt)
    PROVE  /\ events' \in Seq(Queued)
           /\ Len(events) \in Nat /\ Len(events') = Len(events) + 1 /\ events' # <<>>
           /\ events'[Len(events')] =
                [evt |-> evt, number |-> number', acceptable |-> evt \in Tells => acceptable']
           /\ \A k \in 1..Len(events) : k \in 1..Len(events') /\ events'[k] = events[k]
           /\ \A k \in 1..Len(events') : k = Len(events') \/ k \in 1..Len(events)
<1>1. events \in Seq(Queued)
      /\ [evt |-> evt, number |-> number', acceptable |-> evt \in Tells => acceptable'] \in Queued
  BY DEF Types, Queued
<1>2. Len(events) \in Nat
  BY <1>1, LenProperties
<1> QED BY <1>1, <1>2, AppendProperties DEF Occurs

\* Who waits then,
LEMMA DequeuedWaits ==
    ASSUME Types, Shifted, NEW evt
    PROVE  Waits(evt)' <=> \E k \in 1..Len(events) : k # 1 /\ events[k].evt = evt
<1>1. DOMAIN events' = 1..Len(events') /\ Len(events') \in Nat
  BY LenProperties DEF Shifted
<1>2. Waits(evt)' <=> \E k \in 1..Len(events') : events'[k].evt = evt
  BY <1>1 DEF Waits
<1>3. ASSUME NEW k \in 1..Len(events'), events'[k].evt = evt
      PROVE  \E j \in 1..Len(events) : j # 1 /\ events[j].evt = evt
  <2>1. k + 1 \in 1..Len(events) /\ events[k + 1].evt = evt /\ k + 1 # 1
    BY <1>1, <1>3 DEF Shifted
  <2> QED BY <2>1
<1>4. ASSUME NEW k \in 1..Len(events), k # 1, events[k].evt = evt
      PROVE  \E j \in 1..Len(events') : events'[j].evt = evt
  <2>1. k - 1 \in 1..Len(events') /\ events'[k - 1].evt = evt
    BY <1>4 DEF Shifted
  <2> QED BY <2>1
<1> QED BY <1>2, <1>3, <1>4

\* and when another has occurred.
LEMMA EnqueuedWaits ==
    ASSUME Types, NEW evt \in EventTypes, number' \in Nat, Occurs(evt), NEW e
    PROVE  Waits(e)' <=> e = evt \/ Waits(e)
<1>0. /\ events' \in Seq(Queued) /\ Len(events) \in Nat /\ Len(events') = Len(events) + 1
      /\ events'[Len(events')] =
            [evt |-> evt, number |-> number', acceptable |-> evt \in Tells => acceptable']
      /\ \A k \in 1..Len(events) : k \in 1..Len(events') /\ events'[k] = events[k]
      /\ \A k \in 1..Len(events') : k = Len(events') \/ k \in 1..Len(events)
  BY Enqueued
<1>1. DOMAIN events' = 1..Len(events')
  BY <1>0, LenProperties
<1>2. Waits(e)' <=> \E k \in 1..Len(events') : events'[k].evt = e
  BY <1>1 DEF Waits
<1>3. Len(events') \in 1..Len(events') /\ events'[Len(events')].evt = evt
  BY <1>0
<1> QED BY <1>0, <1>2, <1>3, WaitsAt

-----------------------------------------------------------------------------
(* Steps.                                                                   *)

\* What is left is in order, and a connection's first event is behind it.
LEMMA DequeuedQueue ==
    ASSUME Types, Queue, Shifted, number' = number,
           link' = "down" <=> link = "down"
    PROVE  /\ Queue' /\ Event.number = number /\ 1 \in 1..Len(events)
           /\ \A k \in 1..Len(events') : events'[k].evt # "connected"
<1>0. /\ Len(events) \in Nat \ {0} /\ Len(events') \in Nat /\ Len(events) = Len(events') + 1
      /\ Event = events[1]
      /\ events' = <<>> <=> Len(events) = 1
      /\ \A k \in 1..Len(events') : k + 1 \in 1..Len(events) /\ events'[k] = events[k + 1]
  BY DEF Shifted
<1>1. Event.number = number /\ 1 \in 1..Len(events)
  <2>1. 1 \in 1..Len(events)
    BY <1>0
  <2>2. events[1].number = number
    BY <2>1 DEF Queue
  <2> QED BY <1>0, <2>1, <2>2
<1>2. ASSUME NEW k \in 1..Len(events')
      PROVE  /\ events'[k].number = number' /\ events'[k].evt # "connected"
             /\ events'[k].evt = "disconnected" => k = Len(events') /\ link' = "down"
  <2>1. k \in Nat /\ k + 1 \in 1..Len(events) /\ events'[k] = events[k + 1] /\ k + 1 # 1
    BY <1>0
  <2>2. events[k + 1].number = number
    BY <2>1 DEF Queue
  <2>3. events[k + 1].evt # "connected"
    BY <2>1 DEF Queue
  <2>4. events[k + 1].evt = "disconnected" => k + 1 = Len(events) /\ link = "down"
    BY <2>1 DEF Queue
  <2>5. k + 1 = Len(events) => k = Len(events')
    <3>1. Len(events) \in Nat /\ Len(events') + 1 = Len(events) /\ k \in Nat /\ Len(events') \in Nat
      BY <1>0, <2>1
    <3> QED BY <3>1
  <2> QED BY <2>1, <2>2, <2>3, <2>4, <2>5
<1>3. link' = "down" /\ events' # <<>> => events'[Len(events')].evt = "disconnected"
  <2>1. SUFFICES ASSUME link' = "down", events' # <<>> PROVE events'[Len(events')].evt = "disconnected"
    OBVIOUS
  <2>2. Len(events') \in 1..Len(events') /\ Len(events') + 1 = Len(events)
    BY <1>0, <2>1
  <2>3. events'[Len(events')] = events[Len(events)]
    BY <1>0, <2>2
  <2>4. events # <<>>
    BY <1>0, EmptySeq
  <2> QED BY <2>1, <2>3, <2>4 DEF Queue
<1> QED BY <1>1, <1>2, <1>3 DEF Queue

\* The central awaits no other answer than it did.
LEMMA DequeuedAwaited ==
    ASSUME Types, Awaited, Shifted,
           \/ link' = link /\ awaiting' = awaiting
           \/ link # "down" /\ link' # "down" /\ awaiting' = awaiting
           \/ awaiting' = "none" /\ Event.evt \in DOMAIN Answers
    PROVE  Awaited'
<1>0. /\ Len(events) \in Nat \ {0} /\ Event = events[1]
      /\ \A k \in 1..Len(events') : k + 1 \in 1..Len(events) /\ events'[k] = events[k + 1]
  BY DEF Shifted
<1>1. ASSUME NEW k \in 1..Len(events')
      PROVE  k \in Nat /\ k + 1 \in 1..Len(events) /\ events'[k] = events[k + 1] /\ k + 1 # 1
  BY <1>0
<1>2. ASSUME NEW k \in 1..Len(events'), events'[k].evt \in DOMAIN Answers, link' # "down"
      PROVE  awaiting' = events'[k].evt
  BY <1>0, <1>1, <1>2 DEF Awaited
<1>3. ASSUME NEW j \in 1..Len(events'), NEW k \in 1..Len(events'),
             events'[j].evt \in DOMAIN Answers, events'[k].evt \in DOMAIN Answers
      PROVE  j = k
  <2>1. j + 1 = k + 1
    BY <1>1, <1>3 DEF Awaited
  <2> QED BY <1>1, <2>1
<1>4. link' = "down" => awaiting' = "none"
  BY DEF Awaited
<1> QED BY <1>2, <1>3, <1>4 DEF Awaited, Answers

\* What is left is still in turn,
LEMMA DequeuedInTurn ==
    ASSUME Types, InTurn, Shifted, params' = params, acceptable' = acceptable
    PROVE  InTurn'
<1>0. \A k \in 1..Len(events') : k \in Nat /\ k + 1 \in 1..Len(events) /\ events'[k] = events[k + 1]
  BY DEF Shifted
<1>1. ASSUME NEW j \in 1..Len(events'), NEW k \in 1..Len(events'),
             events'[j].evt = "param_update", events'[k].evt = "param_update"
      PROVE  j = k
  <2>1. j + 1 = k + 1
    BY <1>0, <1>1 DEF InTurn
  <2> QED BY <1>0, <2>1
<1>2. ASSUME NEW k \in 1..Len(events'), events'[k].evt = "connected"
      PROVE  params = NoParams /\ \A j \in 1..Len(events') : events'[j].evt # "param_update"
  <2>1. k + 1 \in 1..Len(events) /\ events[k + 1].evt = "connected"
    BY <1>0, <1>2
  <2> QED BY <1>0, <2>1 DEF InTurn
<1>3. ASSUME NEW k \in 1..Len(events')
      PROVE  /\ events'[k].evt \in Tells => events'[k].acceptable = acceptable
             /\ events'[k].evt = "param_update" => ~params.asked /\ ~params.timer
  <2>1. k + 1 \in 1..Len(events) /\ events'[k] = events[k + 1]
    BY <1>0
  <2> QED BY <2>1 DEF InTurn
<1>4. params.timer => ~acceptable /\ ~params.asked
  BY DEF InTurn
<1> QED BY <1>1, <1>2, <1>3, <1>4 DEF InTurn

\* and behind an event that tells of the parameters comes no other.
LEMMA DequeuedTells ==
    ASSUME Types, InTurn, Shifted, Event.evt \in Tells
    PROVE  /\ Event.acceptable = acceptable /\ (Event.evt = "param_update" => ~params.asked)
           /\ \A k \in 1..Len(events') : events'[k].evt # "param_update"
<1>0. /\ Event = events[1] /\ 1 \in 1..Len(events)
      /\ \A k \in 1..Len(events') : k \in Nat /\ k + 1 \in 1..Len(events) /\ events'[k] = events[k + 1]
  BY DEF Shifted
<1>1. Event.acceptable = acceptable /\ (Event.evt = "param_update" => ~params.asked)
  BY <1>0 DEF InTurn
<1>2. ASSUME NEW k \in 1..Len(events'), events'[k].evt = "param_update"
      PROVE  FALSE
  <2>1. k + 1 \in 1..Len(events) /\ events[k + 1].evt = "param_update" /\ k + 1 # 1
    BY <1>0, <1>2
  <2>2. CASE Event.evt = "connected"
    BY <1>0, <2>1, <2>2 DEF InTurn
  <2>3. CASE Event.evt = "param_update"
    BY <1>0, <2>1, <2>3 DEF InTurn
  <2> QED BY <2>2, <2>3 DEF Tells
<1> QED BY <1>1, <1>2

\* A handler that neither tells of the parameters nor is the last leaves the negotiation as it is.
LEMMA DequeuedNegotiated ==
    ASSUME Types, Negotiated, Shifted, params' = params, acceptable' = acceptable,
           link' = "down" => events' # <<>>
    PROVE  Negotiated'
<1>1. CASE params.own
  BY <1>1 DEF Negotiated
<1>2. CASE ~params.own
  BY <1>2, DequeuedInTurn DEF Negotiated
<1> QED BY <1>1, <1>2

\* An event that does not tell of them comes behind the others.
LEMMA EnqueuedNegotiated ==
    ASSUME Types, Negotiated, NEW evt \in EventTypes \ Tells, number' \in Nat, Occurs(evt),
           params' = params, acceptable' = acceptable
    PROVE  Negotiated'
<1>0. /\ Len(events) \in Nat /\ Len(events') = Len(events) + 1 /\ events' # <<>>
      /\ events'[Len(events')] =
            [evt |-> evt, number |-> number', acceptable |-> evt \in Tells => acceptable']
      /\ \A k \in 1..Len(events) : k \in 1..Len(events') /\ events'[k] = events[k]
      /\ \A k \in 1..Len(events') : k = Len(events') \/ k \in 1..Len(events)
  BY Enqueued
<1>1. evt # "param_update" /\ evt # "connected"
  BY DEF Tells
<1>2. ~params.own => InTurn'
  BY <1>0, <1>1 DEF Negotiated, InTurn
<1> QED BY <1>0, <1>2 DEF Negotiated

\* A step that changes nothing the invariant speaks of keeps it.
LEMMA QuietStep ==
    ASSUME IInv, UNCHANGED spoken, pc' = "loop" <=> pc = "loop"
    PROVE  IInv'
<1>1. Types' /\ Queue' /\ Awaited' /\ Negotiated'
  BY DEF IInv, Types, Queue, Awaited, Negotiated, InTurn, spoken
<1>2. Findable'
  BY DEF IInv, Findable, spoken
<1>3. HandlesAgree' /\ RequestsAnswered'
  BY DEF IInv, HandlesAgree, RequestsAnswered, Waits, spoken
<1> QED BY <1>1, <1>2, <1>3 DEF IInv

\* A hub that starts again has no connection, no event and no timer.
LEMMA ResetStep ==
    ASSUME IInv, Reset
    PROVE  IInv'
<1>1. /\ events' = <<>> /\ link' = "down" /\ advertising' = FALSE /\ awaiting' = "none"
      /\ acceptable' = TRUE /\ params' = NoParams /\ pc' = "ble_stack_init" /\ number' = number
      /\ conn_handle' = [h \in Holders |-> BLE_CONN_HANDLE_INVALID]
  BY DEF Reset, Unbooted
<1>2. Types'
  BY <1>1, EmptySeq DEF IInv, Types, NoParams, BLE_CONN_HANDLE_INVALID
<1>3. Queue' /\ Findable'
  BY <1>1 DEF Queue, Findable
<1>4. Awaited' /\ Negotiated'
  BY <1>1 DEF Awaited, Negotiated, InTurn, NoParams
<1>5. HandlesAgree' /\ RequestsAnswered'
  BY <1>1 DEF HandlesAgree, RequestsAnswered, Waits, Answers, Holders, BLE_CONN_HANDLE_INVALID
<1> QED BY <1>2, <1>3, <1>4, <1>5 DEF IInv

\* The first event of a connection is handled.
LEMMA OnConnectedStep ==
    ASSUME IInv, OnConnected
    PROVE  IInv'
<1>0. Types /\ Queue /\ Findable /\ Awaited /\ Negotiated /\ RequestsAnswered
  BY DEF IInv
<1>1. /\ pc = "loop" /\ events # <<>> /\ Event.evt = "connected" /\ events' = Tail(events)
      /\ link' = link
      /\ params' = [count |-> 0, timer |-> ~Event.acceptable, asked |-> FALSE, own |-> params.own]
      /\ UNCHANGED <<pc, number, acceptable, advertising, awaiting>>
  BY DEF OnConnected, Handled, Negotiation, OnConnParamsEvt, Forgotten, NoParams
<1>s. Shifted
  BY <1>0, <1>1, Dequeued
<1>2. /\ Queue' /\ Event.number = number
      /\ \A k \in 1..Len(events') : events'[k].evt # "connected"
  BY <1>0, <1>1, <1>s, DequeuedQueue
<1>3. conn_handle' = [h \in Holders |-> number]
  BY <1>2 DEF OnConnected, Holders, Hears
<1>4. \* The link has not gone unnoticed: if it is down, its last event waits behind.
      link = "down" => /\ Len(events) \in 1..Len(events) /\ Len(events) # 1
                       /\ events[Len(events)].evt = "disconnected"
  <2>1. Len(events) \in Nat \ {0} /\ Event = events[1]
    BY <1>s DEF Shifted
  <2>2. link = "down" => events[Len(events)].evt = "disconnected"
    BY <1>0, <1>1 DEF Queue
  <2> QED BY <1>1, <2>1, <2>2
<1>5. Types'
  <2>1. params' \in [count : Nat, timer : BOOLEAN, asked : BOOLEAN, own : BOOLEAN]
    BY <1>0, <1>1, <1>s DEF Types, Shifted, Queued
  <2> QED BY <1>0, <1>1, <1>s, <1>3, <2>1 DEF Types, Shifted
<1>6. Findable'
  BY <1>0, <1>1, <1>s, <1>4 DEF Findable, Shifted
<1>7. Awaited'
  BY <1>0, <1>1, <1>s, DequeuedAwaited
<1>8. Negotiated'
  <2>1. ASSUME ~params.own PROVE InTurn'
    <3>1. Event.acceptable = acceptable /\ \A k \in 1..Len(events') : events'[k].evt # "param_update"
      BY <1>0, <1>1, <1>s, <2>1, DequeuedTells DEF Negotiated, Tells
    <3> QED BY <1>1, <1>2, <3>1 DEF InTurn, Tells
  <2>2. link' = "down" => events' # <<>>
    BY <1>0, <1>1, <1>s, <1>4 DEF Shifted
  <2>3. params'.own = params.own
    BY <1>1
  <2> QED BY <2>1, <2>2, <2>3 DEF Negotiated
<1>9. HandlesAgree'
  <2>1. ~Waits("connected")'
    BY <1>0, <1>1, <1>s, DequeuedWaits DEF Queue
  <2>2. link' # "down" \/ Waits("disconnected")'
    BY <1>0, <1>1, <1>s, <1>4, DequeuedWaits
  <2> QED BY <1>1, <1>3, <2>1, <2>2 DEF HandlesAgree, Holders
<1>10. RequestsAnswered'
  <2>1. awaiting \in DOMAIN Answers => \E k \in 1..Len(events) : k # 1 /\ events[k].evt = awaiting
    BY <1>0, <1>1, <1>s, WaitsAt DEF RequestsAnswered, Answers, Shifted
  <2> QED BY <1>0, <1>1, <1>s, <2>1, DequeuedWaits DEF RequestsAnswered, Answers
<1> QED BY <1>2, <1>5, <1>6, <1>7, <1>8, <1>9, <1>10 DEF IInv

\* Its last event is, and it is the last that waits.
LEMMA OnDisconnectedStep ==
    ASSUME IInv, OnDisconnected
    PROVE  IInv'
<1>0. Types /\ Queue /\ Findable /\ Awaited /\ Negotiated /\ HandlesAgree
  BY DEF IInv
<1>1. /\ pc = "loop" /\ events # <<>> /\ Event.evt = "disconnected" /\ events' = Tail(events)
      /\ params' = NoParams /\ advertising' = TRUE
      /\ conn_handle' = [h \in Holders |-> IF h \in Hears.disconnected THEN 0 ELSE conn_handle[h]]
      /\ UNCHANGED <<pc, link, number, acceptable, awaiting>>
  BY DEF OnDisconnected, Handled, BLE_CONN_HANDLE_INVALID
<1>2. link = "down" /\ events' = <<>> /\ Shifted
  <2>1. Shifted
    BY <1>0, <1>1, Dequeued
  <2>2. 1 = Len(events) /\ link = "down"
    BY <1>0, <1>1, <2>1 DEF Queue, Shifted
  <2> QED BY <2>1, <2>2 DEF Shifted
<1>3. Types'
  BY <1>0, <1>1, <1>2 DEF Types, Shifted, NoParams, Holders, Hears
<1>4. Len(events') = 0 /\ DOMAIN events' = {}
  BY <1>2, EmptySeq
<1>5. Queue' /\ Findable'
  <2>1. 1..Len(events') = {}
    BY <1>4
  <2>2. Queue'
    BY <1>2, <2>1 DEF Queue
  <2>3. Findable'
    BY <1>1, <1>2 DEF Findable
  <2> QED BY <2>2, <2>3
<1>6. Awaited' /\ Negotiated'
  <2>1. 1..Len(events') = {}
    BY <1>4
  <2>2. Awaited'
    BY <1>0, <1>1, <1>2, <2>1 DEF Awaited
  <2>3. Negotiated'
    BY <1>1, <2>1 DEF Negotiated, InTurn, NoParams
  <2> QED BY <2>2, <2>3
<1>7. HandlesAgree' /\ RequestsAnswered'
  BY <1>0, <1>1, <1>2, <1>4 DEF HandlesAgree, RequestsAnswered, Waits, Awaited, Answers, Holders, Hears,
        BLE_CONN_HANDLE_INVALID
<1> QED BY <1>3, <1>5, <1>6, <1>7 DEF IInv

\* An event in between changes nobody's handle.
LEMMA DequeuedHandles ==
    ASSUME Types, Queue, HandlesAgree, Shifted, Event.evt \notin {"connected", "disconnected"},
           number' = number, conn_handle' = conn_handle, link' = "down" <=> link = "down"
    PROVE  HandlesAgree'
<1>1. ~Waits("connected")' /\ ~Waits("connected")
  BY WaitsAt, DequeuedWaits DEF Queue, Shifted
<1>2. Waits("disconnected")' <=> Waits("disconnected")
  BY WaitsAt, DequeuedWaits DEF Shifted
<1> QED BY <1>1, <1>2 DEF HandlesAgree

\* A request that was awaited waits still, if it is not the one that was handled.
LEMMA DequeuedRequests ==
    ASSUME Types, RequestsAnswered, Shifted, awaiting' = awaiting, Event.evt # awaiting
    PROVE  RequestsAnswered'
<1>1. awaiting \in DOMAIN Answers => \E k \in 1..Len(events) : k # 1 /\ events[k].evt = awaiting
  BY WaitsAt DEF RequestsAnswered, Shifted
<1> QED BY <1>1, DequeuedWaits DEF RequestsAnswered, Answers

\* A timeout closes the link, which the hub hears of later, or resets the hub.
LEMMA OnTimeoutStep ==
    ASSUME IInv, OnTimeout
    PROVE  IInv'
<1>0. Types /\ Queue /\ Findable /\ Awaited /\ Negotiated /\ HandlesAgree /\ RequestsAnswered
  BY DEF IInv
<1>1. CASE Reset
  BY <1>1, ResetStep
<1>2. CASE Handled("timeout") /\ Disconnect
           /\ UNCHANGED <<pc, conn_handle, number, acceptable, advertising, awaiting, params>>
  <2>1. /\ pc = "loop" /\ events # <<>> /\ Event.evt = "timeout" /\ events' = Tail(events)
        /\ link = "up" /\ link' = "closing"
        /\ UNCHANGED <<pc, conn_handle, number, acceptable, advertising, awaiting, params>>
    BY <1>2 DEF Handled, Disconnect
  <2>2. Shifted
    BY <1>0, <2>1, Dequeued
  <2>3. Queue' /\ \A k \in 1..Len(events') : events'[k].evt # "connected"
    BY <1>0, <2>1, <2>2, DequeuedQueue
  <2>4. Types' /\ Findable'
    BY <1>0, <2>1, <2>2 DEF Types, Findable, Shifted
  <2>5. Awaited'
    BY <1>0, <2>1, <2>2, DequeuedAwaited
  <2>6. Negotiated'
    BY <1>0, <2>1, <2>2, DequeuedNegotiated
  <2>7. HandlesAgree'
    BY <1>0, <2>1, <2>2, DequeuedHandles
  <2>8. RequestsAnswered'
    <3>1. CASE awaiting \in DOMAIN Answers
      BY <1>0, <2>1, <2>2, <3>1, DequeuedRequests DEF Answers
    <3>2. CASE awaiting \notin DOMAIN Answers
      BY <2>1, <3>2 DEF RequestsAnswered, Answers
    <3> QED BY <3>1, <3>2
  <2> QED BY <2>3, <2>4, <2>5, <2>6, <2>7, <2>8 DEF IInv
<1> QED BY <1>1, <1>2 DEF OnTimeout

\* The one request that waits is answered.
LEMMA OnRequestStep ==
    ASSUME IInv, OnRequest
    PROVE  IInv'
<1>0. Types /\ Queue /\ Findable /\ Awaited /\ Negotiated /\ HandlesAgree /\ RequestsAnswered
  BY DEF IInv
<1>1. CASE Reset
  BY <1>1, ResetStep
<1>2. CASE /\ pc = "loop" /\ events # <<>> /\ Event.evt \in DOMAIN Answers /\ link # "down"
           /\ awaiting' = "none" /\ events' = Tail(events)
           /\ UNCHANGED <<pc, conn_handle, link, number, acceptable, advertising, params>>
  <2>2. Shifted
    BY <1>0, <1>2, Dequeued
  <2>3. Queue' /\ \A k \in 1..Len(events') : events'[k].evt # "connected"
    BY <1>0, <1>2, <2>2, DequeuedQueue
  <2>4. Types' /\ Findable'
    BY <1>0, <1>2, <2>2 DEF Types, Findable, Shifted
  <2>5. Awaited'
    BY <1>0, <1>2, <2>2, DequeuedAwaited
  <2>6. Negotiated'
    BY <1>0, <1>2, <2>2, DequeuedNegotiated
  <2>7. HandlesAgree'
    BY <1>0, <1>2, <2>2, DequeuedHandles DEF Answers
  <2>8. RequestsAnswered'
    BY <1>2 DEF RequestsAnswered, Answers
  <2> QED BY <2>3, <2>4, <2>5, <2>6, <2>7, <2>8 DEF IInv
<1> QED BY <1>1, <1>2 DEF OnRequest

\* Parameters that are not acceptable start the timer, if it does not run.
LEMMA OnParamUpdateStep ==
    ASSUME IInv, OnParamUpdate
    PROVE  IInv'
<1>0. Types /\ Queue /\ Findable /\ Awaited /\ Negotiated /\ HandlesAgree /\ RequestsAnswered
  BY DEF IInv
<1>1. /\ pc = "loop" /\ events # <<>> /\ Event.evt = "param_update" /\ events' = Tail(events)
      /\ link' = link /\ params' = [params EXCEPT !.timer = @ \/ ~Event.acceptable]
      /\ UNCHANGED <<pc, conn_handle, number, acceptable, advertising, awaiting>>
  BY DEF OnParamUpdate, Handled, Negotiation, OnConnParamsEvt
<1>2. Shifted
  BY <1>0, <1>1, Dequeued
<1>3. Queue' /\ \A k \in 1..Len(events') : events'[k].evt # "connected"
  BY <1>0, <1>1, <1>2, DequeuedQueue
<1>4. Types'
  BY <1>0, <1>1, <1>2 DEF Types, Shifted, Queued
<1>5. link = "down" => events' # <<>>
  BY <1>0, <1>1, <1>2 DEF Queue, Shifted
<1>6. Findable'
  BY <1>0, <1>1, <1>5 DEF Findable
<1>7. Awaited'
  BY <1>0, <1>1, <1>2, DequeuedAwaited
<1>8. Negotiated'
  <2>1. /\ params'.timer = (params.timer \/ ~Event.acceptable)
        /\ params'.asked = params.asked /\ params'.own = params.own
    BY <1>0, <1>1 DEF Types
  <2>2. ASSUME ~params.own PROVE InTurn'
    <3>1. /\ Event.acceptable = acceptable /\ ~params.asked
          /\ \A k \in 1..Len(events') : events'[k].evt # "param_update"
      BY <1>0, <1>1, <1>2, <2>2, DequeuedTells DEF Negotiated, Tells
    <3>2. params.timer => ~acceptable
      BY <1>0, <2>2 DEF Negotiated, InTurn
    <3> QED BY <1>1, <1>3, <2>1, <3>1, <3>2 DEF InTurn, Tells
  <2> QED BY <1>1, <1>5, <2>1, <2>2 DEF Negotiated
<1>9. HandlesAgree'
  BY <1>0, <1>1, <1>2, DequeuedHandles
<1>10. RequestsAnswered'
  <2>1. CASE awaiting \in DOMAIN Answers
    BY <1>0, <1>1, <1>2, <2>1, DequeuedRequests DEF Answers
  <2>2. CASE awaiting \notin DOMAIN Answers
    BY <1>1, <2>2 DEF RequestsAnswered, Answers
  <2> QED BY <2>1, <2>2
<1> QED BY <1>3, <1>4, <1>6, <1>7, <1>8, <1>9, <1>10 DEF IInv

\* The timer is gone; if no update waits, none but the answer is to come.
LEMMA ParamsTimeoutStep ==
    ASSUME IInv, ParamsTimeout
    PROVE  IInv'
<1>0. Types /\ Queue /\ Findable /\ Awaited /\ Negotiated /\ HandlesAgree /\ RequestsAnswered
  BY DEF IInv
<1>1. CASE Reset
  BY <1>1, ResetStep
<1>2. CASE /\ link = "up" /\ link' \in {"up", "closing"}
           /\ \/ params' = Forgotten
              \/ params' = [count |-> params.count + 1, timer |-> FALSE, asked |-> TRUE,
                            own |-> Waits("param_update")]
           /\ UNCHANGED <<pc, conn_handle, events, number, acceptable, advertising, awaiting>>
  <2>1. \A k \in 1..Len(events) : events[k].evt # "connected"
    <3>1. conn_handle["params"] # BLE_CONN_HANDLE_INVALID
      BY ParamsTimeout DEF ParamsTimeout
    <3>2. ~Waits("connected")
      BY <1>0, <3>1 DEF HandlesAgree, Holders
    <3> QED BY <1>0, <3>2, WaitsAt
  <2>2. Types'
    <3>1. params' \in [count : Nat, timer : BOOLEAN, asked : BOOLEAN, own : BOOLEAN]
      <4>1. params.count + 1 \in Nat
        BY <1>0 DEF Types
      <4>2. CASE params' = Forgotten
        BY <1>0, <4>2 DEF Types, Forgotten, NoParams
      <4>3. CASE params' = [count |-> params.count + 1, timer |-> FALSE, asked |-> TRUE,
                            own |-> Waits("param_update")]
        BY <4>1, <4>3 DEF Waits
      <4> QED BY <1>2, <4>2, <4>3
    <3> QED BY <1>0, <1>2, <3>1 DEF Types
  <2>3. Queue' /\ Findable'
    BY <1>0, <1>2 DEF Queue, Findable
  <2>4. Awaited'
    BY <1>0, <1>2 DEF Awaited
  <2>5. Negotiated'
    <3>1. params.timer /\ ~params.asked
      BY ParamsTimeout DEF ParamsTimeout
    <3>2. /\ params'.own \in {params.own, Waits("param_update")}
          /\ ~params'.timer /\ (~params'.own => params'.asked \/ ~params.own)
      BY <1>2 DEF Forgotten, NoParams
    <3>3. ASSUME ~params'.own PROVE InTurn'
      <4>1. \A k \in 1..Len(events) : events[k].evt \notin Tells
        <5>1. CASE params' = Forgotten
          <6>1. ~params.own
            BY <3>3, <5>1 DEF Forgotten, NoParams
          <6>2. \A k \in 1..Len(events) : events[k].evt # "param_update"
            BY <1>0, <3>1, <6>1 DEF Negotiated, InTurn
          <6> QED BY <2>1, <6>2 DEF Tells
        <5>2. CASE params'.own = Waits("param_update")
          <6>1. ~Waits("param_update")
            BY <3>3, <5>2
          <6> QED BY <1>0, <2>1, <6>1, WaitsAt DEF Tells
        <5> QED BY <1>2, <5>1, <5>2
      <4> QED BY <1>2, <3>2, <4>1 DEF InTurn, Tells
    <3> QED BY <1>2, <3>3 DEF Negotiated
  <2>6. HandlesAgree' /\ RequestsAnswered'
    BY <1>0, <1>2 DEF HandlesAgree, RequestsAnswered, Waits
  <2> QED BY <2>2, <2>3, <2>4, <2>5, <2>6 DEF IInv
<1>3. ASSUME ~Reset
      PROVE  /\ link = "up" /\ link' \in {"up", "closing"}
             /\ \/ params' = Forgotten
                \/ params' = [count |-> params.count + 1, timer |-> FALSE, asked |-> TRUE,
                            own |-> Waits("param_update")]
             /\ UNCHANGED <<pc, conn_handle, events, number, acceptable, advertising, awaiting>>
  BY <1>3 DEF ParamsTimeout
<1> QED BY <1>1, <1>2, <1>3

\* A central finds a hub that is through with the last connection.
LEMMA ConnectStep ==
    ASSUME IInv, Connect
    PROVE  IInv'
<1>0. Types /\ Queue /\ Findable /\ Awaited /\ Negotiated /\ HandlesAgree
  BY DEF IInv
<1>1. /\ link = "down" /\ events = <<>> /\ pc = "loop" /\ advertising
      /\ awaiting = "none" /\ params = NoParams
      /\ link' = "up" /\ number' = number + 1 /\ advertising' = FALSE /\ acceptable' \in BOOLEAN
      /\ Occurs("connected") /\ UNCHANGED <<pc, conn_handle, awaiting, params>>
  BY <1>0 DEF Connect, Findable, Awaited, Negotiated
<1>2. number' \in Nat
  BY <1>0, <1>1 DEF Types
<1>3. /\ events' \in Seq(Queued) /\ Len(events') = 1 /\ events' # <<>> /\ 1..Len(events') = {1}
      /\ events'[1] = [evt |-> "connected", number |-> number', acceptable |-> acceptable']
  <2>1. Len(events) = 0
    BY <1>1, EmptySeq
  <2> QED BY <1>0, <1>1, <1>2, <2>1, Enqueued DEF EventTypes, Tells
<1>4. Types'
  BY <1>0, <1>1, <1>2, <1>3 DEF Types
<1>5. Queue' /\ Findable'
  BY <1>1, <1>3 DEF Queue, Findable
<1>6. Awaited' /\ Negotiated'
  BY <1>1, <1>3 DEF Awaited, Negotiated, InTurn, Answers, NoParams
<1>7. HandlesAgree'
  <2>1. ~Waits("connected") /\ ~Waits("disconnected")
    BY <1>1 DEF Waits
  <2>2. Waits("connected")'
    BY <1>0, <1>1, <1>2, EnqueuedWaits DEF EventTypes
  <2> QED BY <1>0, <1>1, <2>1, <2>2 DEF HandlesAgree
<1>8. RequestsAnswered'
  BY <1>1 DEF RequestsAnswered, Answers
<1> QED BY <1>4, <1>5, <1>6, <1>7, <1>8 DEF IInv

\* What was asked, and not yet answered, is forgotten; what waits is handled late.
LEMMA LinkEndsStep ==
    ASSUME IInv, LinkEnds
    PROVE  IInv'
<1>0. Types /\ Queue /\ Findable /\ Awaited /\ Negotiated /\ HandlesAgree
  BY DEF IInv
<1>1. /\ link # "down" /\ link' = "down" /\ number' = number /\ awaiting' = "none" /\ Occurs("disconnected")
      /\ UNCHANGED <<pc, conn_handle, acceptable, advertising, params>>
  BY DEF LinkEnds
<1>2. /\ events' \in Seq(Queued) /\ Len(events) \in Nat /\ Len(events') = Len(events) + 1 /\ events' # <<>>
      /\ events'[Len(events')] = [evt |-> "disconnected", number |-> number', acceptable |-> TRUE]
      /\ \A k \in 1..Len(events) : k \in 1..Len(events') /\ events'[k] = events[k]
      /\ \A k \in 1..Len(events') : k = Len(events') \/ k \in 1..Len(events)
  <2>1. number' \in Nat /\ "disconnected" \in EventTypes
    BY <1>0, <1>1 DEF Types, EventTypes
  <2> QED BY <1>0, <1>1, <2>1, Enqueued DEF Tells
<1>3. Types'
  BY <1>0, <1>1, <1>2 DEF Types
<1>4. Queue'
  BY <1>0, <1>1, <1>2 DEF Queue
<1>5. Findable'
  BY <1>0, <1>1, <1>2 DEF Findable
<1>6. Awaited'
  BY <1>0, <1>1, <1>2 DEF Awaited, Answers
<1>7. Negotiated'
  <2>1. number' \in Nat /\ "disconnected" \in EventTypes \ Tells
    BY <1>0, <1>1 DEF Types, EventTypes, Tells
  <2> QED BY <1>0, <1>1, <2>1, EnqueuedNegotiated
<1>8. HandlesAgree'
  <2>1. number' \in Nat /\ "disconnected" \in EventTypes
    BY <1>0, <1>1 DEF Types, EventTypes
  <2>2. (Waits("connected")' <=> Waits("connected")) /\ Waits("disconnected")'
    BY <1>0, <1>1, <2>1, EnqueuedWaits
  <2> QED BY <1>0, <1>1, <2>2 DEF HandlesAgree
<1>9. RequestsAnswered'
  BY <1>1 DEF RequestsAnswered, Answers
<1> QED BY <1>3, <1>4, <1>5, <1>6, <1>7, <1>8, <1>9 DEF IInv

\* One more event of a link that is up: nobody's handle changes.
LEMMA EnqueuedHandles ==
    ASSUME Types, HandlesAgree, NEW evt \in EventTypes, Occurs(evt), evt \notin {"connected", "disconnected"},
           number' = number, link' = link, conn_handle' = conn_handle
    PROVE  HandlesAgree'
<1>1. number' \in Nat
  BY DEF Types
<1>2. (Waits("connected")' <=> Waits("connected")) /\ (Waits("disconnected")' <=> Waits("disconnected"))
  BY <1>1, EnqueuedWaits
<1> QED BY <1>2 DEF HandlesAgree

\* A central that awaits an answer asks for nothing else.
LEMMA RequestStep ==
    ASSUME IInv, NEW evt \in {"memory", "authorize", "mtu", "timeout"}, Request(evt)
    PROVE  IInv'
<1>0. Types /\ Queue /\ Findable /\ Awaited /\ Negotiated /\ HandlesAgree
  BY DEF IInv
<1>1. /\ link = "up" /\ awaiting = "none" /\ number' = number /\ awaiting' = evt /\ Occurs(evt)
      /\ UNCHANGED <<pc, conn_handle, link, acceptable, advertising, params>>
  BY DEF Request
<1>2. evt \in EventTypes /\ number' \in Nat
  BY <1>0, <1>1 DEF Types, EventTypes
<1>3. /\ events' \in Seq(Queued) /\ Len(events) \in Nat /\ Len(events') = Len(events) + 1 /\ events' # <<>>
      /\ events'[Len(events')] =
            [evt |-> evt, number |-> number', acceptable |-> evt \in Tells => acceptable']
      /\ \A k \in 1..Len(events) : k \in 1..Len(events') /\ events'[k] = events[k]
      /\ \A k \in 1..Len(events') : k = Len(events') \/ k \in 1..Len(events)
  BY <1>0, <1>1, <1>2, Enqueued
<1>4. Types'
  BY <1>0, <1>1, <1>2, <1>3 DEF Types
<1>5. Queue'
  BY <1>0, <1>1, <1>3 DEF Queue
<1>6. Findable'
  BY <1>0, <1>1, <1>3 DEF Findable
<1>7. Awaited'
  <2>1. \A k \in 1..Len(events) : events[k].evt \notin DOMAIN Answers
    BY <1>0, <1>1 DEF Awaited, Answers
  <2> QED BY <1>0, <1>1, <1>3, <2>1 DEF Awaited, Answers
<1>8. Negotiated'
  <2>1. evt \in EventTypes \ Tells
    BY <1>2 DEF Tells
  <2> QED BY <1>0, <1>1, <1>2, <2>1, EnqueuedNegotiated
<1>9. HandlesAgree'
  BY <1>0, <1>1, <1>2, EnqueuedHandles
<1>10. RequestsAnswered'
  BY <1>0, <1>1, <1>2, EnqueuedWaits DEF RequestsAnswered, Answers
<1> QED BY <1>4, <1>5, <1>6, <1>7, <1>8, <1>9, <1>10 DEF IInv

\* The parameters change while the link is up: all but the negotiation is as for a request.
LEMMA ParamsChangeStep ==
    ASSUME IInv, ParamsChange, Negotiated',
           params' \in [count : Nat, timer : BOOLEAN, asked : BOOLEAN, own : BOOLEAN]
    PROVE  IInv'
<1>0. Types /\ Queue /\ Findable /\ Awaited /\ HandlesAgree /\ RequestsAnswered
  BY DEF IInv
<1>1. /\ link = "up" /\ number' = number /\ acceptable' \in BOOLEAN /\ Occurs("param_update")
      /\ UNCHANGED <<pc, conn_handle, link, advertising, awaiting>>
  BY DEF ParamsChange
<1>2. "param_update" \in EventTypes /\ number' \in Nat
  BY <1>0, <1>1 DEF Types, EventTypes
<1>3. /\ events' \in Seq(Queued) /\ Len(events) \in Nat /\ Len(events') = Len(events) + 1 /\ events' # <<>>
      /\ events'[Len(events')] = [evt |-> "param_update", number |-> number', acceptable |-> acceptable']
      /\ \A k \in 1..Len(events) : k \in 1..Len(events') /\ events'[k] = events[k]
      /\ \A k \in 1..Len(events') : k = Len(events') \/ k \in 1..Len(events)
  BY <1>0, <1>1, <1>2, Enqueued DEF Tells
<1>4. Types'
  BY <1>0, <1>1, <1>2, <1>3 DEF Types
<1>5. Queue'
  BY <1>0, <1>1, <1>3 DEF Queue
<1>6. Findable'
  BY <1>0, <1>1, <1>3 DEF Findable
<1>7. Awaited'
  BY <1>0, <1>1, <1>3 DEF Awaited, Answers
<1>8. HandlesAgree'
  BY <1>0, <1>1, <1>2, EnqueuedHandles
<1>9. RequestsAnswered'
  BY <1>0, <1>1, <1>2, EnqueuedWaits DEF RequestsAnswered
<1> QED BY <1>4, <1>5, <1>6, <1>7, <1>8, <1>9 DEF IInv

\* The central answers once for each time it is asked.
LEMMA ParamUpdateStep ==
    ASSUME IInv, ParamUpdate
    PROVE  IInv'
<1>0. Types /\ Negotiated
  BY DEF IInv
<1>1. /\ params.asked /\ params' = [params EXCEPT !.asked = FALSE] /\ ParamsChange
      /\ link = "up" /\ number' = number /\ acceptable' \in BOOLEAN /\ Occurs("param_update") /\ link' = link
  BY DEF ParamUpdate, ParamsChange
<1>2. "param_update" \in EventTypes /\ number' \in Nat
  BY <1>0, <1>1 DEF Types, EventTypes
<1>3. /\ Len(events) \in Nat /\ Len(events') = Len(events) + 1 /\ events' # <<>>
      /\ events'[Len(events')] = [evt |-> "param_update", number |-> number', acceptable |-> acceptable']
      /\ \A k \in 1..Len(events) : k \in 1..Len(events') /\ events'[k] = events[k]
      /\ \A k \in 1..Len(events') : k = Len(events') \/ k \in 1..Len(events)
  BY <1>0, <1>1, <1>2, Enqueued DEF Tells
<1>4. /\ params' \in [count : Nat, timer : BOOLEAN, asked : BOOLEAN, own : BOOLEAN]
      /\ ~params'.asked /\ params'.timer = params.timer /\ params'.own = params.own
  BY <1>0, <1>1 DEF Types
<1>5. ASSUME ~params'.own PROVE InTurn'
  <2>1. InTurn
    BY <1>0, <1>4, <1>5 DEF Negotiated
  <2>2. ~params.timer /\ \A k \in 1..Len(events) : events[k].evt \notin {"param_update", "connected"}
    BY <1>1, <2>1 DEF InTurn, NoParams
  <2> QED BY <1>3, <1>4, <2>2 DEF InTurn, Tells
<1>6. Negotiated'
  BY <1>1, <1>5 DEF Negotiated
<1> QED BY <1>1, <1>4, <1>6, ParamsChangeStep

\* What it does by itself is held against the negotiation until it is asked again.
LEMMA OwnUpdateStep ==
    ASSUME IInv, OwnUpdate
    PROVE  IInv'
<1>0. Types
  BY DEF IInv
<1>1. params' = [params EXCEPT !.own = TRUE] /\ ParamsChange /\ link = "up" /\ link' = link
  BY DEF OwnUpdate, ParamsChange
<1>2. params' \in [count : Nat, timer : BOOLEAN, asked : BOOLEAN, own : BOOLEAN] /\ params'.own
  BY <1>0, <1>1 DEF Types
<1>3. Negotiated'
  BY <1>1, <1>2 DEF Negotiated
<1> QED BY <1>1, <1>2, <1>3, ParamsChangeStep

\* The end of the boot: the hub advertises for the first time.
LEMMA StartStep ==
    ASSUME IInv, Start
    PROVE  IInv'
<1>0. Types /\ Queue /\ Findable /\ Awaited /\ Negotiated /\ HandlesAgree /\ RequestsAnswered
  BY DEF IInv
<1>1. /\ pc # "loop" /\ pc' = "loop" /\ advertising' = TRUE
      /\ UNCHANGED <<conn_handle, events, link, number, acceptable, awaiting, params>>
  BY DEF Start
<1>2. Types' /\ Queue' /\ Findable'
  BY <1>0, <1>1 DEF Types, Queue, Findable
<1>3. Awaited' /\ Negotiated' /\ HandlesAgree' /\ RequestsAnswered'
  BY <1>0, <1>1 DEF Awaited, Negotiated, InTurn, HandlesAgree, RequestsAnswered, Waits
<1> QED BY <1>2, <1>3 DEF IInv

\* The stages of the boot, a poll, and what a central reads and writes.
LEMMA QuietSteps ==
    ASSUME IInv,
           \/ BleStackInit \/ GapParamsInit \/ AdvertisingInit \/ ServicesInit \/ ConnParamsInit
           \/ SensorInit \/ Publish \/ \E h \in DOMAIN attributes : WriteValue(h) \/ ReadPiece(h)
    PROVE  IInv' /\ (pc = "loop" => UNCHANGED <<pc, link>>)
<1>1. CASE BleStackInit \/ GapParamsInit \/ AdvertisingInit \/ ConnParamsInit
  <2>1. pc # "loop" /\ (Reset \/ (UNCHANGED spoken /\ pc' # "loop"))
    BY <1>1 DEF BleStackInit, GapParamsInit, AdvertisingInit, ConnParamsInit, Stage, spoken, radio
  <2> QED BY <2>1, QuietStep, ResetStep
<1>2. CASE ServicesInit \/ SensorInit
  <2>1. pc # "loop" /\ (Reset \/ (UNCHANGED spoken /\ pc' # "loop"))
    BY <1>2 DEF ServicesInit, SensorInit, spoken, radio
  <2> QED BY <2>1, QuietStep, ResetStep
<1>3. CASE Publish \/ \E h \in DOMAIN attributes : WriteValue(h) \/ ReadPiece(h)
  <2>1. UNCHANGED <<pc, conn_handle, events, radio, params>>
    BY <1>3 DEF Publish, WriteValue, ReadPiece
  <2>2. UNCHANGED spoken /\ UNCHANGED <<pc, link>>
    BY <2>1 DEF spoken, radio
  <2> QED BY <2>2, QuietStep
<1> QED BY <1>1, <1>2, <1>3

\* The invariant holds when the hub is switched on,
LEMMA InitIInv == Init => IInv
<1> SUFFICES ASSUME Init PROVE IInv
  OBVIOUS
<1>1. /\ events = <<>> /\ Len(events) = 0 /\ link = "down" /\ advertising = FALSE
      /\ awaiting = "none" /\ number = 0
      /\ acceptable = TRUE /\ params = NoParams /\ pc = "ble_stack_init"
      /\ conn_handle = [h \in Holders |-> BLE_CONN_HANDLE_INVALID]
  BY EmptySeq DEF Init
<1>2. Types
  BY <1>1, EmptySeq DEF Types, NoParams, BLE_CONN_HANDLE_INVALID
<1>3. Queue /\ Findable
  BY <1>1 DEF Queue, Findable
<1>4. Awaited /\ Negotiated
  BY <1>1 DEF Awaited, Negotiated, InTurn, NoParams
<1>5. HandlesAgree /\ RequestsAnswered
  BY <1>1 DEF HandlesAgree, RequestsAnswered, Waits, Answers, Holders, BLE_CONN_HANDLE_INVALID
<1> QED BY <1>2, <1>3, <1>4, <1>5 DEF IInv

\* and every step keeps it, by the lemma of its action.
LEMMA NextIInv == IInv /\ [Next]_vars => IInv'
<1> SUFFICES ASSUME IInv, [Next]_vars PROVE IInv'
  OBVIOUS
<1>1. CASE \/ BleStackInit \/ GapParamsInit \/ AdvertisingInit \/ ServicesInit \/ ConnParamsInit
           \/ SensorInit \/ Publish \/ \E h \in DOMAIN attributes : WriteValue(h) \/ ReadPiece(h)
  BY <1>1, QuietSteps
<1>2. CASE Start
  BY <1>2, StartStep
<1>3. CASE Dispatch
  BY <1>3, OnConnectedStep, OnDisconnectedStep, OnTimeoutStep, OnRequestStep, OnParamUpdateStep DEF Dispatch
<1>4. CASE ParamsTimeout
  BY <1>4, ParamsTimeoutStep
<1>5. CASE Connect \/ LinkEnds \/ ParamUpdate \/ OwnUpdate
  BY <1>5, ConnectStep, LinkEndsStep, ParamUpdateStep, OwnUpdateStep
<1>6. CASE \E evt \in {"memory", "authorize", "mtu", "timeout"} : Request(evt)
  BY <1>6, RequestStep
<1>7. CASE UNCHANGED vars
  BY <1>7, QuietStep DEF vars, radio, spoken
<1> QED BY <1>1, <1>2, <1>3, <1>4, <1>5, <1>6, <1>7 DEF Next

-----------------------------------------------------------------------------
(* The theorems.                                                            *)

\* The queue, the handles, the negotiation and the advertising agree, always.
THEOREM IInvHolds == Spec => []IInv
<1>1. Init => IInv
  BY InitIInv
<1>2. IInv /\ [Next]_vars => IInv'
  BY NextIInv
<1> QED BY <1>1, <1>2, PTL DEF Spec

\* Both services and ble_conn_params hold the handle of a connection from its first event to its last.
THEOREM HoldersAgree == Spec => []HandlesAgree
<1>1. IInv => HandlesAgree
  BY DEF IInv
<1> QED BY <1>1, IInvHolds, PTL

\* A hub that has dealt with its events advertises, or is connected.
THEOREM HubCanBeFound == Spec => []CanBeFound
<1>1. IInv => CanBeFound
  BY DEF IInv, Findable, CanBeFound, Types
<1> QED BY <1>1, IInvHolds, PTL

\* No request of a central is left without an answer.
THEOREM EveryRequestIsAnswered == Spec => []RequestsAnswered
<1>1. IInv => RequestsAnswered
  BY DEF IInv
<1> QED BY <1>1, IInvHolds, PTL

\* The hub closes a connection only over a request of its own that timed out, or over its parameters,
\* which are not acceptable unless the central has changed them by itself since it was last asked.
THEOREM HubDisconnectsWithCause == Spec => DisconnectsWithCause
<1> DEFINE Cause ==
      link = "up" /\ link' = "closing" =>
        \/ events # <<>> /\ Event.evt = "timeout" /\ Event.number = number
        \/ /\ params.count = MAX_CONN_PARAMS_UPDATE_COUNT /\ (acceptable => params.own)
           /\ conn_handle["ble_services"] = number /\ conn_handle["params"] = number
<1>1. IInv /\ [Next]_vars => [Cause]_vars
  <2> SUFFICES ASSUME IInv, [Next]_vars, link = "up", link' = "closing"
               PROVE  Cause
    OBVIOUS
  <2>0. Types /\ Queue /\ Findable /\ Negotiated /\ HandlesAgree
    BY DEF IInv
  <2>1. pc = "loop" /\ ~Reset
    BY <2>0 DEF Findable, Reset, Unbooted
  <2>2. CASE OnTimeout
    <3>1. events # <<>> /\ Event.evt = "timeout"
      BY <2>1, <2>2 DEF OnTimeout, Handled
    <3>2. Len(events) \in Nat \ {0} /\ Event = events[1]
      BY <2>0, <3>1, EmptySeq DEF Types, Event
    <3>3. Event.number = number
      BY <2>0, <3>2 DEF Queue
    <3> QED BY <3>1, <3>3
  <2>3. CASE ParamsTimeout
    <3>1. /\ params.timer /\ conn_handle["params"] # BLE_CONN_HANDLE_INVALID
          /\ params.count = MAX_CONN_PARAMS_UPDATE_COUNT
      BY <2>1, <2>3 DEF ParamsTimeout
    <3>2. acceptable => params.own
      BY <2>0, <3>1 DEF Negotiated, InTurn
    <3>3. conn_handle["params"] = number /\ conn_handle["ble_services"] = number
      BY <2>0, <3>1 DEF HandlesAgree, Holders
    <3> QED BY <3>1, <3>2, <3>3
  <2>4. CASE OnConnected \/ OnDisconnected \/ OnRequest \/ OnParamUpdate
    BY <2>1, <2>4 DEF OnConnected, OnDisconnected, OnRequest, OnParamUpdate, Negotiation, OnConnParamsEvt
  <2>5. CASE \/ Connect \/ LinkEnds \/ ParamUpdate \/ OwnUpdate \/ Start
             \/ \E evt \in {"memory", "authorize", "mtu", "timeout"} : Request(evt)
    BY <2>5 DEF Connect, LinkEnds, ParamUpdate, OwnUpdate, ParamsChange, Start, Request
  <2>6. CASE \/ BleStackInit \/ GapParamsInit \/ AdvertisingInit \/ ServicesInit \/ ConnParamsInit
             \/ SensorInit \/ Publish \/ \E h \in DOMAIN attributes : WriteValue(h) \/ ReadPiece(h)
    BY <2>1, <2>6, QuietSteps
  <2>7. CASE UNCHANGED vars
    BY <2>7 DEF vars, radio
  <2> QED BY <2>2, <2>3, <2>4, <2>5, <2>6, <2>7 DEF Next, Dispatch
<1> QED BY <1>1, IInvHolds, PTL DEF Spec, DisconnectsWithCause

\* A hub that runs resets itself only in answer to what outlived its connection.
THEOREM HubResetsOnlyLate == Spec => ResetsOnlyLate
<1>1. IInv /\ [Next]_vars => [pc = "loop" /\ pc' = "ble_stack_init" => link # "up"]_vars
  <2> SUFFICES ASSUME IInv, [Next]_vars, pc = "loop", pc' = "ble_stack_init"
               PROVE  link # "up"
    OBVIOUS
  <2>0. Types /\ Awaited
    BY DEF IInv
  <2>1. CASE OnRequest
    <3>1. CASE link # "up"
      BY <3>1
    <3>2. CASE Answers[Event.evt] # {awaiting} /\ link = "up"
      <4>1. events # <<>> /\ Event.evt \in DOMAIN Answers
        BY <2>1 DEF OnRequest
      <4>2. Len(events) \in Nat \ {0}
        BY <2>0, <4>1, EmptySeq DEF Types
      <4>3. Event = events[1]
        BY <2>0, <4>2 DEF Event, Types
      <4>4. awaiting = Event.evt
        BY <2>0, <3>2, <4>1, <4>2, <4>3 DEF Awaited
      <4> QED BY <3>2, <4>1, <4>4 DEF Answers
    <3> QED BY <2>1, <3>1, <3>2 DEF OnRequest
  <2>2. CASE OnTimeout \/ ParamsTimeout
    BY <2>2 DEF OnTimeout, ParamsTimeout, Handled
  <2>3. CASE OnConnected \/ OnDisconnected \/ OnParamUpdate
    BY <2>3 DEF OnConnected, OnDisconnected, OnParamUpdate
  <2>4. CASE \/ Connect \/ LinkEnds \/ ParamUpdate \/ OwnUpdate \/ Start
             \/ \E evt \in {"memory", "authorize", "mtu", "timeout"} : Request(evt)
    BY <2>4 DEF Connect, LinkEnds, ParamUpdate, OwnUpdate, ParamsChange, Start, Request
  <2>5. CASE \/ BleStackInit \/ GapParamsInit \/ AdvertisingInit \/ ServicesInit \/ ConnParamsInit
             \/ SensorInit \/ Publish \/ \E h \in DOMAIN attributes : WriteValue(h) \/ ReadPiece(h)
    BY <2>5, QuietSteps
  <2>6. CASE UNCHANGED vars
    BY <2>6 DEF vars
  <2> QED BY <2>1, <2>2, <2>3, <2>4, <2>5, <2>6 DEF Next, Dispatch
<1> QED BY <1>1, IInvHolds, PTL DEF Spec, ResetsOnlyLate

-----------------------------------------------------------------------------
(* The attributes, and the bounds of the counters.                          *)

Attributes == [kind : {"service", "char"}, uuid : {"action", "sensor"}, read : BOOLEAN, write : BOOLEAN,
               max : Nat, value : Seq(Byte)]

\* A value is one that was there from the start, or fits.
Table ==
    /\ attributes \in Seq(Attributes)
    /\ \A h \in DOMAIN attributes :
        Len(attributes[h].value) <= 4 \/ Len(attributes[h].value) <= attributes[h].max

\* A service's handle is that of its own characteristic.
Own ==
    \A u \in DOMAIN handle :
        handle[u] # 0 => handle[u] \in DOMAIN attributes /\ attributes[handle[u]].uuid = u

\* How far main has got.
Booted ==
    /\ pc \in {"ble_stack_init", "gap_params_init", "advertising_init", "services_init",
              "conn_params_init", "sensor_init", "loop"}
    /\ listed \in 0..Len(Listed) /\ Len(readings) \in Nat /\ Len(readings) <= listed

\* No handle is of a connection still to come, nor is there one before the first.
Counted ==
    /\ number \in 0..MaxConnections
    /\ \A h \in Holders : conn_handle[h] \in 0..number
    /\ events # <<>> \/ link # "down" => number # 0
    /\ awaiting \in {"none", "memory", "authorize", "mtu", "timeout"}
    /\ params.count \in 0..MAX_CONN_PARAMS_UPDATE_COUNT

Bounds == Table /\ Own /\ Booted /\ Counted

\* The last of two numbers is no less than either.
LEMMA MaxOfTwo ==
    ASSUME NEW a \in Nat, NEW b \in Nat
    PROVE  Max({a, b}) \in Nat /\ a <= Max({a, b}) /\ b <= Max({a, b})
<1>1. \E x \in {a, b} : \A y \in {a, b} : x >= y
  OBVIOUS
<1>2. Max({a, b}) \in {a, b} /\ \A y \in {a, b} : Max({a, b}) >= y
  BY <1>1 DEF Max
<1> DEFINE m == Max({a, b})
<1>3. m \in {a, b} /\ m >= a /\ m >= b
  BY <1>2
<1> HIDE DEF m
<1>4. m \in Nat /\ a <= m /\ b <= m
  BY <1>3
<1> QED BY <1>4 DEF m

\* The services, as they are added, are attributes with values of four bytes.
LEMMA RegisteredType ==
    ASSUME NEW action \in 0..2, NEW sensor \in 0..2
    PROVE  /\ Registered(action, sensor) \in Seq(Attributes)
           /\ \A h \in DOMAIN Registered(action, sensor) : Len(Registered(action, sensor)[h].value) <= 4
<1> DEFINE A4 == {a \in Attributes : Len(a.value) <= 4}
<1>1. BLE_GATT_MAX_SIZE \in Nat
  BY BleAssumption
<1>2. <<>> \in Seq(Byte) /\ Len(<<>>) = 0 /\ <<0, 0, 0, 0>> \in Seq(Byte) /\ Len(<<0, 0, 0, 0>>) = 4
  BY DEF Byte
<1>3. /\ Service("action") \in A4 /\ Service("sensor") \in A4
      /\ Char("action", FALSE, TRUE, 30) \in A4 /\ Char("sensor", TRUE, FALSE, BLE_GATT_MAX_SIZE) \in A4
  <2>1. ASSUME NEW uuid \in {"action", "sensor"} PROVE Service(uuid) \in A4
    <3>1. Service(uuid) \in Attributes
      BY <1>2 DEF Service, Attributes
    <3>2. Service(uuid).value = <<>>
      BY DEF Service
    <3> QED BY <1>2, <3>1, <3>2
  <2>2. ASSUME NEW uuid \in {"action", "sensor"}, NEW r \in BOOLEAN, NEW w \in BOOLEAN, NEW max \in Nat
        PROVE  Char(uuid, r, w, max) \in A4
    <3>1. Char(uuid, r, w, max) \in Attributes
      BY <1>2 DEF Char, Attributes
    <3>2. Char(uuid, r, w, max).value = <<0, 0, 0, 0>>
      BY DEF Char
    <3>3. Len(Char(uuid, r, w, max).value) <= 4
      <4>1. 4 <= 4
        OBVIOUS
      <4> QED BY <1>2, <3>2, <4>1, Zenon
    <3> QED BY <3>1, <3>3, Zenon
  <2> HIDE DEF A4
  <2> QED BY <1>1, <2>1, <2>2
<1> HIDE DEF A4
<1>4. ActionService \in Seq(A4) /\ SensorService \in Seq(A4) /\ Len(ActionService) = 2 /\ Len(SensorService) = 2
  <2>1. \A a, b \in A4 : <<a, b>> \in Seq(A4) /\ Len(<<a, b>>) = 2
    OBVIOUS
  <2> QED BY <1>3, <2>1, Zenon DEF ActionService, SensorService
<1>5. ASSUME NEW s \in Seq(A4), Len(s) = 2, NEW n \in 0..2 PROVE SubSeq(s, 1, n) \in Seq(A4)
  <2>1. \A i \in 1..n : s[i] \in A4
    BY <1>5, ElementOfSeq
  <2> QED BY <2>1, SubSeqProperties
<1>6. Registered(action, sensor) \in Seq(A4)
  <2>1. SubSeq(ActionService, 1, action) \in Seq(A4) /\ SubSeq(SensorService, 1, sensor) \in Seq(A4)
    BY <1>4, <1>5
  <2> QED BY <2>1, ConcatProperties DEF Registered
<1> DEFINE r == Registered(action, sensor)
<1> HIDE DEF r
<1>7. r \in Seq(A4)
  BY <1>6 DEF r
<1>8. Len(r) \in Nat /\ DOMAIN r = 1..Len(r) /\ \A h \in 1..Len(r) : r[h] \in A4
  BY <1>7, LenProperties, ElementOfSeq
<1>9. \A h \in 1..Len(r) : r[h] \in Attributes /\ Len(r[h].value) <= 4
  BY <1>8 DEF A4
<1>10. r \in Seq(Attributes)
  <2>1. r = [h \in 1..Len(r) |-> r[h]]
    BY <1>7, <1>8
  <2> QED BY <1>8, <1>9, <2>1, SeqDef
<1> QED BY <1>8, <1>9, <1>10 DEF r

\* A handle is looked up among the characteristics of its own service.
LEMMA HandleFound ==
    ASSUME NEW table \in Seq(Attributes), NEW uuid
    PROVE  HandleOf(table, uuid) # 0 =>
            HandleOf(table, uuid) \in DOMAIN table /\ table[HandleOf(table, uuid)].uuid = uuid
<1> DEFINE places == {h \in DOMAIN table : table[h].kind = "char" /\ table[h].uuid = uuid}
<1>1. HandleOf(table, uuid) = IF places = {} THEN 0 ELSE Min(places)
  BY DEF HandleOf
<1>2. places \subseteq Nat
  BY LenProperties
<1>3. CASE places = {}
  BY <1>1, <1>3
<1>4. CASE places # {}
  <2>1. Min(places) \in places
    <3> HIDE DEF places
    <3> QED BY <1>2, <1>4, MinNumber
  <2> QED BY <1>1, <1>4, <2>1
<1> QED BY <1>3, <1>4

\* A value that is set fits its attribute, and is all that changes.
LEMMA ValueSetBounds ==
    ASSUME Table, Own, NEW h, NEW value \in Seq(Byte), ValueSet(h, value), handle' = handle
    PROVE  Table' /\ Own'
<1>1. CASE attributes' = attributes
  BY <1>1 DEF Table, Own
<1>2. CASE attributes' # attributes
  <2>1. /\ h \in DOMAIN attributes /\ Len(value) <= attributes[h].max
        /\ attributes' = [attributes EXCEPT ![h].value = value]
    BY <1>2 DEF ValueSet
  <2>2. /\ Len(attributes) \in Nat /\ DOMAIN attributes = 1..Len(attributes)
        /\ \A k \in DOMAIN attributes : attributes[k] \in Attributes
    BY LenProperties, ElementOfSeq DEF Table
  <2>3. DOMAIN attributes' = DOMAIN attributes
    BY <2>1
  <2>4. ASSUME NEW k \in DOMAIN attributes
        PROVE  attributes'[k] = IF k = h THEN [attributes[h] EXCEPT !.value = value] ELSE attributes[k]
    BY <2>1
  <2>5. ASSUME NEW k \in DOMAIN attributes
        PROVE  /\ attributes'[k] \in Attributes /\ attributes'[k].uuid = attributes[k].uuid
               /\ Len(attributes'[k].value) <= 4 \/ Len(attributes'[k].value) <= attributes'[k].max
    <3>1. attributes[k] \in Attributes
      BY <2>2
    <3>2. CASE k = h
      <4>1. attributes'[k] = [attributes[k] EXCEPT !.value = value]
        BY <2>4, <3>2
      <4>2. attributes'[k] \in Attributes
        BY <3>1, <4>1 DEF Attributes
      <4>3. /\ attributes'[k].value = value /\ attributes'[k].max = attributes[k].max
            /\ attributes'[k].uuid = attributes[k].uuid
        BY <3>1, <4>1 DEF Attributes
      <4> QED BY <2>1, <3>2, <4>2, <4>3
    <3>3. CASE k # h
      BY <2>4, <3>1, <3>3 DEF Table
    <3> QED BY <3>2, <3>3
  <2>6. attributes' \in Seq(Attributes)
    <3>1. attributes' = [k \in 1..Len(attributes) |-> attributes'[k]]
      BY <2>1, <2>2
    <3> QED BY <2>2, <2>5, <3>1, SeqDef
  <2> QED BY <2>3, <2>5, <2>6 DEF Table, Own
<1> QED BY <1>1, <1>2

\* A poll's messages are encoded in full.
LEMMA Published ==
    ASSUME Bounds, Publish
    PROVE  \E messages \in Seq(SensorData) :
            /\ Len(messages) = listed /\ readings' = messages
            /\ EncodeList(Stream(BLE_GATT_MAX_SIZE), messages) \in Streams(BLE_GATT_MAX_SIZE)
            /\ EncodeList(Stream(BLE_GATT_MAX_SIZE), messages).ok
            /\ ValueSet(handle["sensor"], EncodeList(Stream(BLE_GATT_MAX_SIZE), messages).bytes)
<1>1. listed \in Nat /\ listed <= Len(Listed) /\ Len(Listed) \in Nat
  BY BleAssumption, LenProperties DEF Bounds, Booted
<1>2. PICK data \in [1..listed -> UNION {Readings[Listed[k]] : k \in 1..listed}] :
        LET messages == [k \in 1..listed |-> Message(Listed[k], data[k])]
        IN  /\ \A k \in 1..listed : data[k] \in Readings[Listed[k]]
            /\ EncodeList(Stream(BLE_GATT_MAX_SIZE), messages).ok
            /\ ValueSet(handle["sensor"], EncodeList(Stream(BLE_GATT_MAX_SIZE), messages).bytes)
            /\ readings' = messages
  BY DEF Publish
<1> DEFINE messages == [k \in 1..listed |-> Message(Listed[k], data[k])]
           stream == EncodeList(Stream(BLE_GATT_MAX_SIZE), messages)
<1>3. ASSUME NEW k \in 1..listed PROVE Message(Listed[k], data[k]) \in SensorData
  <2>1. k \in DOMAIN Listed
    BY <1>1, BleAssumption, LenProperties
  <2>2. SensorTag[Listed[k]] \in 0..2 ^ WordBits - 1 /\ data[k] \in Seq(Byte)
    BY <1>2, <2>1, BleAssumption
  <2> QED BY <2>2 DEF Message, SensorData
<1>4. messages \in Seq(SensorData) /\ Len(messages) = listed
  BY <1>1, <1>3, SeqDef
<1>5. stream \in Streams(BLE_GATT_MAX_SIZE)
  <2>1. BLE_GATT_MAX_SIZE \in Nat
    BY BleAssumption
  <2>2. Stream(BLE_GATT_MAX_SIZE) \in Streams(BLE_GATT_MAX_SIZE)
    BY <2>1, StreamType
  <2> HIDE DEF messages
  <2> QED BY <1>4, <2>1, <2>2, EncodeListType
<1>6. stream.ok /\ ValueSet(handle["sensor"], stream.bytes) /\ readings' = messages
  BY <1>2
<1> HIDE DEF messages
<1> QED BY <1>4, <1>5, <1>6

\* A poll sets what the encoder made of the readings.
LEMMA PublishBounds ==
    ASSUME Bounds, Publish
    PROVE  Table' /\ Own' /\ Booted'
<1>1. PICK messages \in Seq(SensorData) :
        /\ Len(messages) = listed /\ readings' = messages
        /\ EncodeList(Stream(BLE_GATT_MAX_SIZE), messages) \in Streams(BLE_GATT_MAX_SIZE)
        /\ ValueSet(handle["sensor"], EncodeList(Stream(BLE_GATT_MAX_SIZE), messages).bytes)
  BY Published
<1> DEFINE bytes == EncodeList(Stream(BLE_GATT_MAX_SIZE), messages).bytes
<1>2. bytes \in Seq(Byte) /\ ValueSet(handle["sensor"], bytes)
  BY <1>1 DEF Streams
<1> HIDE DEF bytes
<1>3. UNCHANGED <<pc, listed, handle>>
  BY DEF Publish
<1>4. Table' /\ Own'
  BY <1>2, <1>3, ValueSetBounds DEF Bounds
<1>5. Booted'
  <2>1. listed \in Nat /\ listed <= Len(Listed) /\ Len(Listed) \in Nat
    BY BleAssumption, LenProperties DEF Bounds, Booted
  <2> QED BY <1>1, <1>3, <2>1 DEF Bounds, Booted
<1> QED BY <1>4, <1>5

\* A hub that starts again has no attributes, and no readings.
LEMMA ResetBounds ==
    ASSUME IInv, Bounds, Reset
    PROVE  Bounds'
<1>1. /\ pc' = "ble_stack_init" /\ listed' = 0 /\ attributes' = <<>> /\ readings' = <<>>
      /\ handle' = [u \in {"action", "sensor"} |-> 0]
      /\ conn_handle' = [h \in Holders |-> 0] /\ events' = <<>> /\ link' = "down"
      /\ awaiting' = "none" /\ params' = NoParams /\ number' = number
  BY DEF Reset, Unbooted, BLE_CONN_HANDLE_INVALID
<1>2. Table' /\ Own'
  BY <1>1 DEF Table, Own
<1>3. Booted'
  <2>1. Len(Listed) \in Nat /\ Len(readings') = 0
    BY <1>1, BleAssumption, LenProperties, EmptySeq
  <2> QED BY <1>1, <2>1 DEF Booted
<1>4. Counted'
  <2>1. params'.count = 0
    BY <1>1 DEF NoParams
  <2>2. number \in Nat /\ number \in 0..MaxConnections /\ MAX_CONN_PARAMS_UPDATE_COUNT \in Nat
    BY BleAssumption DEF IInv, Types, Bounds, Counted
  <2> QED BY <1>1, <2>1, <2>2 DEF Counted
<1> QED BY <1>2, <1>3, <1>4 DEF Bounds

\* The stages of the boot.
LEMMA BootBounds ==
    ASSUME IInv, Bounds,
           \/ BleStackInit \/ GapParamsInit \/ AdvertisingInit \/ ServicesInit \/ ConnParamsInit
           \/ SensorInit \/ Start
    PROVE  Bounds'
<1> DEFINE Waiting == <<events, link, number, conn_handle, awaiting, params>>
<1>1. CASE Reset
  BY <1>1, ResetBounds
<1>2. ASSUME ~Reset PROVE UNCHANGED Waiting
  BY <1>2 DEF BleStackInit, GapParamsInit, AdvertisingInit, ServicesInit, ConnParamsInit,
              SensorInit, Start, Stage, radio
<1>3. UNCHANGED Waiting => Counted'
  BY DEF Bounds, Counted
<1>4. CASE ServicesInit
  <2>1. PICK action \in 0..2, sensor \in 0..2 :
          /\ attributes' = Registered(action, sensor)
          /\ handle' = [u \in {"action", "sensor"} |-> HandleOf(Registered(action, sensor), u)]
    BY <1>4 DEF ServicesInit
  <2>2. Table'
    BY <2>1, RegisteredType DEF Table
  <2>3. Own'
    <3>1. attributes' \in Seq(Attributes)
      BY <2>1, RegisteredType
    <3>2. \A u : HandleOf(attributes', u) # 0 =>
              HandleOf(attributes', u) \in DOMAIN attributes' /\ attributes'[HandleOf(attributes', u)].uuid = u
      BY <3>1, HandleFound
    <3>3. handle' = [u \in {"action", "sensor"} |-> HandleOf(attributes', u)]
      BY <2>1
    <3> QED BY <3>2, <3>3 DEF Own
  <2>4. Booted'
    BY <1>4 DEF ServicesInit, Bounds, Booted
  <2>5. UNCHANGED Waiting
    BY <1>4 DEF ServicesInit, radio
  <2> QED BY <1>3, <2>2, <2>3, <2>4, <2>5 DEF Bounds
<1>5. CASE ~Reset /\ ~ServicesInit
  <2>1. UNCHANGED <<attributes, handle, readings>> /\ pc' \in {"gap_params_init", "advertising_init",
            "services_init", "sensor_init", "loop"} /\ listed' \in {listed, listed + 1}
        /\ (listed' = listed \/ listed < Len(Listed))
    BY <1>5 DEF BleStackInit, GapParamsInit, AdvertisingInit, ConnParamsInit, SensorInit, Start, Stage
  <2>2. Table' /\ Own'
    BY <2>1 DEF Bounds, Table, Own
  <2>3. Booted'
    <3>1. Len(Listed) \in Nat
      BY BleAssumption, LenProperties
    <3>2. listed \in 0..Len(Listed) /\ Len(readings) \in Nat /\ Len(readings) <= listed
      BY DEF Bounds, Booted
    <3>3. listed' \in 0..Len(Listed) /\ Len(readings') <= listed' /\ Len(readings') \in Nat
      BY <2>1, <3>1, <3>2
    <3> QED BY <2>1, <3>3 DEF Booted
  <2> QED BY <1>2, <1>3, <1>5, <2>2, <2>3 DEF Bounds
<1> QED BY <1>1, <1>4, <1>5

\* An event that is handled is the connection's own.
LEMMA DispatchBounds ==
    ASSUME IInv, Bounds, Dispatch
    PROVE  Bounds'
<1>0. Types /\ Queue /\ Awaited
  BY DEF IInv
<1>1. CASE Reset
  BY <1>1, ResetBounds
<1>2. CASE ~Reset
  <2>1. events # <<>> /\ events' = Tail(events) /\ UNCHANGED <<pc, listed, attributes, handle, number, readings>>
    BY <1>2 DEF Dispatch, OnConnected, OnDisconnected, OnTimeout, OnRequest, OnParamUpdate, Handled, radio
  <2>2. Shifted
    BY <1>0, <2>1, Dequeued
  <2>3. Event.number = number
    BY <1>0, <2>2 DEF Queue, Shifted
  <2>4. number \in 0..MaxConnections /\ number # 0 /\ number \in Nat
    BY <1>0, <2>1 DEF Types, Bounds, Counted
  <2>5. \A h \in Holders : conn_handle'[h] \in 0..number
    <3>1. CASE OnConnected
      <4>1. conn_handle' = [h \in Holders |-> IF h \in Hears.connected THEN number ELSE conn_handle[h]]
        BY <2>3, <3>1 DEF OnConnected
      <4> QED BY <2>4, <4>1 DEF Bounds, Counted
    <3>2. CASE OnDisconnected
      <4>1. conn_handle' = [h \in Holders |-> IF h \in Hears.disconnected THEN 0 ELSE conn_handle[h]]
        BY <3>2 DEF OnDisconnected, BLE_CONN_HANDLE_INVALID
      <4> QED BY <2>4, <4>1 DEF Bounds, Counted
    <3>3. CASE OnTimeout \/ OnRequest \/ OnParamUpdate
      <4>1. conn_handle' = conn_handle
        BY <1>2, <3>3 DEF OnTimeout, OnRequest, OnParamUpdate
      <4> QED BY <4>1 DEF Bounds, Counted
    <3> QED BY <3>1, <3>2, <3>3 DEF Dispatch
  <2>6. awaiting' \in {awaiting, "none"}
    BY <1>2 DEF Dispatch, OnConnected, OnDisconnected, OnTimeout, OnRequest, OnParamUpdate
  <2>7. params'.count \in 0..MAX_CONN_PARAMS_UPDATE_COUNT
    <3>1. params'.count \in {params.count, 0}
      <4>1. CASE OnConnected
        BY <4>1 DEF OnConnected, Negotiation, Forgotten, NoParams
      <4>2. CASE OnDisconnected
        BY <4>2 DEF OnDisconnected, NoParams
      <4>3. CASE OnParamUpdate
        BY <1>0, <4>3 DEF OnParamUpdate, Negotiation, Types
      <4>4. CASE OnTimeout \/ OnRequest
        <5>1. params' = params
          BY <1>2, <4>4 DEF OnTimeout, OnRequest
        <5> QED BY <5>1
      <4> QED BY <4>1, <4>2, <4>3, <4>4 DEF Dispatch
    <3>2. 0 \in 0..MAX_CONN_PARAMS_UPDATE_COUNT
      BY BleAssumption
    <3> QED BY <3>1, <3>2 DEF Bounds, Counted
  <2>8. Counted'
    BY <2>1, <2>4, <2>5, <2>6, <2>7 DEF Bounds, Counted
  <2>9. Table' /\ Own' /\ Booted'
    BY <2>1 DEF Bounds, Table, Own, Booted
  <2> QED BY <2>8, <2>9 DEF Bounds
<1> QED BY <1>1, <1>2

\* The timer asks again only as long as it may.
LEMMA ParamsTimeoutBounds ==
    ASSUME IInv, Bounds, ParamsTimeout
    PROVE  Bounds'
<1>1. CASE Reset
  BY <1>1, ResetBounds
<1>2. CASE ~Reset
  <2>1. /\ link = "up"
        /\ UNCHANGED <<pc, listed, attributes, handle, conn_handle, events, number, awaiting, readings>>
        /\ params' = IF params.count = MAX_CONN_PARAMS_UPDATE_COUNT THEN Forgotten
                     ELSE [count |-> params.count + 1, timer |-> FALSE, asked |-> TRUE,
                           own |-> Waits("param_update")]
    BY <1>2 DEF ParamsTimeout
  <2>2. params'.count \in 0..MAX_CONN_PARAMS_UPDATE_COUNT
    <3>1. params.count \in 0..MAX_CONN_PARAMS_UPDATE_COUNT /\ MAX_CONN_PARAMS_UPDATE_COUNT \in Nat
      BY BleAssumption DEF Bounds, Counted
    <3>2. CASE params.count = MAX_CONN_PARAMS_UPDATE_COUNT
      BY <2>1, <3>1, <3>2 DEF Forgotten, NoParams
    <3>3. CASE params.count # MAX_CONN_PARAMS_UPDATE_COUNT
      <4>1. params'.count = params.count + 1
        BY <2>1, <3>3
      <4> QED BY <3>1, <3>3, <4>1
    <3> QED BY <3>2, <3>3
  <2>3. Counted'
    BY <2>1, <2>2 DEF Bounds, Counted
  <2>4. Table' /\ Own' /\ Booted'
    BY <2>1 DEF Bounds, Table, Own, Booted
  <2> QED BY <2>3, <2>4 DEF Bounds
<1> QED BY <1>1, <1>2

\* What a central does to the link.
LEMMA LinkBounds ==
    ASSUME IInv, Bounds,
           \/ Connect \/ LinkEnds \/ ParamUpdate \/ OwnUpdate
           \/ \E evt \in {"memory", "authorize", "mtu", "timeout"} : Request(evt)
    PROVE  Bounds'
<1>0. Types
  BY DEF IInv
<1>1. UNCHANGED <<pc, listed, attributes, handle, conn_handle, readings>>
  BY DEF Connect, LinkEnds, ParamUpdate, OwnUpdate, ParamsChange, Request
<1>2. Table' /\ Own' /\ Booted'
  BY <1>1 DEF Bounds, Table, Own, Booted
<1>3. \/ number' = number /\ link # "down"
      \/ number' = number + 1 /\ number < MaxConnections
  BY DEF Connect, LinkEnds, ParamUpdate, OwnUpdate, ParamsChange, Request
<1>4. /\ number \in 0..MaxConnections /\ number \in Nat /\ MaxConnections \in Nat
      /\ link # "down" => number # 0
  BY <1>0, BleAssumption DEF Types, Bounds, Counted
<1>5. number' \in 0..MaxConnections /\ number' # 0 /\ number <= number' /\ number' \in Nat
  BY <1>3, <1>4
<1>6. \A h \in Holders : conn_handle'[h] \in 0..number'
  BY <1>1, <1>4, <1>5 DEF Bounds, Counted
<1>7. awaiting' \in {awaiting, "none", "memory", "authorize", "mtu", "timeout"}
  BY DEF Connect, LinkEnds, ParamUpdate, OwnUpdate, ParamsChange, Request
<1>8. params'.count = params.count
  BY <1>0 DEF Connect, LinkEnds, ParamUpdate, OwnUpdate, ParamsChange, Request, Types
<1>9. Counted'
  BY <1>5, <1>6, <1>7, <1>8 DEF Bounds, Counted
<1> QED BY <1>2, <1>9 DEF Bounds

\* What a central writes fits; what it reads changes nothing.
LEMMA ValueBounds ==
    ASSUME Bounds, Publish \/ \E h \in DOMAIN attributes : WriteValue(h) \/ ReadPiece(h)
    PROVE  Bounds'
<1>1. UNCHANGED <<pc, listed, handle, conn_handle, events, radio, params>>
  BY DEF Publish, WriteValue, ReadPiece
<1>2. Counted'
  BY <1>1 DEF Bounds, Counted, radio
<1>3. CASE Publish
  BY <1>2, <1>3, PublishBounds DEF Bounds
<1>4. ASSUME NEW h \in DOMAIN attributes, WriteValue(h) PROVE Bounds'
  <2>1. PICK value \in Written : ValueSet(h, value)
    BY <1>4 DEF WriteValue
  <2>2. value \in Seq(Byte)
    BY BleAssumption
  <2>3. Table' /\ Own'
    BY <1>1, <2>1, <2>2, ValueSetBounds DEF Bounds
  <2>4. Booted'
    BY <1>1, <1>4 DEF WriteValue, Bounds, Booted
  <2> QED BY <1>2, <2>3, <2>4 DEF Bounds
<1>5. ASSUME NEW h \in DOMAIN attributes, ReadPiece(h) PROVE Bounds'
  <2>1. UNCHANGED <<attributes, readings>>
    BY <1>5 DEF ReadPiece
  <2> QED BY <1>1, <1>2, <2>1 DEF Bounds, Table, Own, Booted
<1> QED BY <1>3, <1>4, <1>5

\* The bounds hold of every behaviour, with the invariant of the connections.
LEMMA BoundsHold == Spec => []Bounds
<1>1. Init => Bounds
  <2> SUFFICES ASSUME Init PROVE Bounds
    OBVIOUS
  <2>1. Table /\ Own
    BY DEF Init, Table, Own
  <2>2. Booted
    <3>1. Len(Listed) \in Nat /\ Len(<<>>) = 0
      BY BleAssumption, LenProperties, EmptySeq
    <3> QED BY <3>1 DEF Init, Booted
  <2>3. Counted
    <3>1. MaxConnections \in Nat /\ MAX_CONN_PARAMS_UPDATE_COUNT \in Nat
      BY BleAssumption
    <3> QED BY <3>1 DEF Init, Counted, NoParams, BLE_CONN_HANDLE_INVALID
  <2> QED BY <2>1, <2>2, <2>3 DEF Bounds
<1>2. IInv /\ Bounds /\ [Next]_vars => Bounds'
  <2> SUFFICES ASSUME IInv, Bounds, [Next]_vars PROVE Bounds'
    OBVIOUS
  <2>1. CASE UNCHANGED vars
    BY <2>1 DEF vars, radio, Bounds, Table, Own, Booted, Counted
  <2> QED BY <2>1, BootBounds, DispatchBounds, ParamsTimeoutBounds, LinkBounds, ValueBounds DEF Next
<1> QED BY <1>1, <1>2, IInvHolds, PTL DEF Spec

\* No value is longer than its attribute allows, whatever was read or written; a service's handle is
\* that of its own characteristic; and the counters keep to their bounds.
THEOREM ServicesTypeCorrect == Spec => []TypeOK
<1>1. IInv /\ Bounds => TypeOK
  <2> SUFFICES ASSUME IInv, Bounds PROVE TypeOK
    OBVIOUS
  <2>0. Types /\ Queue /\ Table /\ Own /\ Booted /\ Counted
    BY DEF IInv, Bounds
  <2>1. \A h \in DOMAIN attributes : Len(attributes[h].value) <= Max({4, attributes[h].max})
    <3> SUFFICES ASSUME NEW h \in DOMAIN attributes
                 PROVE  Len(attributes[h].value) <= Max({4, attributes[h].max})
      OBVIOUS
    <3>1. attributes[h] \in Attributes
      BY <2>0, LenProperties, ElementOfSeq DEF Table
    <3> DEFINE max == attributes[h].max
               len == Len(attributes[h].value)
               m == Max({4, max})
    <3>2. max \in Nat /\ len \in Nat
      BY <3>1, LenProperties DEF Attributes
    <3>3. m \in Nat /\ 4 <= m /\ max <= m
      BY <3>2, MaxOfTwo
    <3>4. len <= 4 \/ len <= max
      BY <2>0 DEF Table
    <3> HIDE DEF max, len, m
    <3>5. len <= m
      BY <3>2, <3>3, <3>4
    <3> QED BY <3>5 DEF max, len, m
  <2>2. \A k \in DOMAIN events : events[k].number \in 1..number
    <3>1. DOMAIN events = 1..Len(events) /\ Len(events) \in Nat
      BY <2>0, LenProperties DEF Types
    <3>2. events # <<>> => number \in 1..number
      BY <2>0 DEF Types, Counted
    <3>3. CASE events = <<>>
      <4>1. DOMAIN events = {}
        BY <3>3
      <4> QED BY <4>1
    <3>4. CASE events # <<>>
      <4>1. \A k \in DOMAIN events : events[k].number = number
        BY <2>0, <3>1 DEF Queue
      <4> QED BY <3>2, <3>4, <4>1
    <3> QED BY <3>3, <3>4
  <2>3. conn_handle \in [Holders -> 0..MaxConnections]
    <3>1. \A h \in Holders : conn_handle[h] \in 0..MaxConnections
      BY <2>0, BleAssumption DEF Counted
    <3> QED BY <2>0, <3>1 DEF Types
  <2>4. {acceptable, advertising} \subseteq BOOLEAN
    BY <2>0 DEF Types
  <2> QED BY <2>0, <2>1, <2>2, <2>3, <2>4 DEF TypeOK, Types, Own, Booted, Counted
<1> QED BY <1>1, IInvHolds, BoundsHold, PTL

-----------------------------------------------------------------------------
(* What a central reads.                                                    *)

SensorValue(a) == a.kind = "char" /\ a.uuid = "sensor"

\* There is one sensor value at most, at the sensor service's handle; a central does not write it, and
\* what the encoder makes of a list that fits its stream fits it.
OneSensorValue ==
    /\ \A h \in DOMAIN attributes : SensorValue(attributes[h]) =>
        h = handle["sensor"] /\ ~attributes[h].write /\ attributes[h].max = BLE_GATT_MAX_SIZE
    /\ handle["sensor"] # 0 => handle["sensor"] \in DOMAIN attributes /\ SensorValue(attributes[handle["sensor"]])

\* It is the list that the last poll set, or none.
ValueDecodes ==
    handle["sensor"] # 0 => DecodedList(attributes[handle["sensor"]].value) = {readings}

\* No poll comes before the sensors' set-up, and no value before the services'.
Staged ==
    /\ pc \notin {"sensor_init", "loop"} => listed = 0 /\ readings = <<>>
    /\ pc \in {"ble_stack_init", "gap_params_init", "advertising_init", "services_init"} =>
        attributes = <<>> /\ handle["sensor"] = 0

\* What has been read is the beginning of the value, while that stays the same, and its end when it ends.
ReadSoFar ==
    /\ reading \in [bytes : Seq(Byte), same : BOOLEAN, ended : BOOLEAN]
    /\ handle["sensor"] = 0 => reading = NoReading
    /\ handle["sensor"] # 0 /\ reading.same =>
        /\ Len(reading.bytes) <= Len(attributes[handle["sensor"]].value)
        /\ reading.bytes = SubSeq(attributes[handle["sensor"]].value, 1, Len(reading.bytes))
        /\ reading.ended => reading.bytes = attributes[handle["sensor"]].value

ReadInv ==
    /\ handle \in [{"action", "sensor"} -> Nat]
    /\ OneSensorValue /\ ValueDecodes /\ Staged /\ ReadSoFar

\* The sensor value of the services, as they are added, is the last attribute.
LEMMA RegisteredSensor ==
    ASSUME NEW action \in 0..2, NEW sensor \in 0..2
    PROVE  LET r == Registered(action, sensor)
               h == HandleOf(r, "sensor")
           IN  /\ \A k \in DOMAIN r : SensorValue(r[k]) =>
                    k = h /\ ~r[k].write /\ r[k].max = BLE_GATT_MAX_SIZE /\ r[k].value = <<0, 0, 0, 0>>
               /\ h # 0 => h \in DOMAIN r /\ SensorValue(r[h])
               /\ h \in Nat /\ HandleOf(r, "action") \in Nat
<1> DEFINE r == Registered(action, sensor)
           a == SubSeq(ActionService, 1, action)
           s == SubSeq(SensorService, 1, sensor)
           h == HandleOf(r, "sensor")
           T == Attributes
<1>0. BLE_GATT_MAX_SIZE \in Nat
  BY BleAssumption
<1>1. /\ ActionService \in Seq(T) /\ SensorService \in Seq(T) /\ Len(ActionService) = 2 /\ Len(SensorService) = 2
  <2>1. <<>> \in Seq(Byte) /\ <<0, 0, 0, 0>> \in Seq(Byte)
    BY DEF Byte
  <2>2. /\ Service("action") \in T /\ Service("sensor") \in T
        /\ Char("action", FALSE, TRUE, 30) \in T /\ Char("sensor", TRUE, FALSE, BLE_GATT_MAX_SIZE) \in T
    BY <1>0, <2>1 DEF Service, Char, Attributes
  <2> HIDE DEF T
  <2>3. \A x, y \in T : <<x, y>> \in Seq(T) /\ Len(<<x, y>>) = 2
    OBVIOUS
  <2> QED BY <2>2, <2>3, Zenon DEF ActionService, SensorService
<1>2. \A k \in 1..2 : ~SensorValue(ActionService[k])
  BY DEF ActionService, Service, Char, SensorValue
<1>3. /\ ~SensorValue(SensorService[1])
      /\ SensorService[2] = Char("sensor", TRUE, FALSE, BLE_GATT_MAX_SIZE)
  BY DEF SensorService, Service, SensorValue
<1> HIDE DEF T
<1>4. ASSUME NEW x \in Seq(T), Len(x) = 2, NEW n \in 0..2
      PROVE  SubSeq(x, 1, n) \in Seq(T) /\ Len(SubSeq(x, 1, n)) = n /\ \A k \in 1..n : SubSeq(x, 1, n)[k] = x[k]
  <2>1. \A k \in 1..n : x[k] \in T
    BY <1>4, ElementOfSeq
  <2>2. n - 1 + 1 = n /\ (1 <= n <=> n # 0)
    OBVIOUS
  <2>3. \A k \in 1..n : 1 + k - 1 = k
    OBVIOUS
  <2>4. /\ SubSeq(x, 1, n) \in Seq(T) /\ Len(SubSeq(x, 1, n)) = (IF 1 <= n THEN n - 1 + 1 ELSE 0)
        /\ \A k \in 1..n - 1 + 1 : SubSeq(x, 1, n)[k] = x[1 + k - 1]
    BY <2>1, SubSeqProperties
  <2> QED BY <2>2, <2>3, <2>4
<1>5. /\ a \in Seq(T) /\ s \in Seq(T) /\ Len(a) = action /\ Len(s) = sensor
      /\ \A k \in 1..action : a[k] = ActionService[k]
      /\ \A k \in 1..sensor : s[k] = SensorService[k]
  BY <1>1, <1>4
<1>6. r = a \o s
  BY DEF Registered
<1> HIDE DEF r, a, s
<1>7. /\ r \in Seq(T) /\ Len(r) = action + sensor /\ DOMAIN r = 1..action + sensor
      /\ \A k \in 1..action + sensor : r[k] = IF k <= action THEN a[k] ELSE s[k - action]
  BY <1>5, <1>6, ConcatProperties, LenProperties
<1>8. ASSUME NEW k \in DOMAIN r, SensorValue(r[k])
      PROVE  k = action + 2 /\ sensor = 2 /\ r[k] = Char("sensor", TRUE, FALSE, BLE_GATT_MAX_SIZE)
  <2>1. k \in 1..action + sensor
    BY <1>7
  <2>2. ~(k <= action)
    <3> SUFFICES ASSUME k <= action PROVE FALSE
      OBVIOUS
    <3>1. k \in 1..action /\ k \in 1..2
      BY <2>1
    <3>2. r[k] = ActionService[k]
      BY <1>5, <1>7, <2>1, <3>1
    <3> QED BY <1>2, <1>8, <3>1, <3>2
  <2>3. k - action \in 1..sensor /\ k - action \in {1, 2}
    BY <2>1, <2>2
  <2>4. r[k] = SensorService[k - action]
    BY <1>5, <1>7, <2>1, <2>2, <2>3
  <2>5. k - action # 1
    BY <1>3, <1>8, <2>4
  <2>6. k - action = 2 /\ sensor = 2 /\ k = action + 2
    BY <2>1, <2>3, <2>5
  <2> QED BY <1>3, <2>4, <2>6
<1> DEFINE places == {k \in DOMAIN r : r[k].kind = "char" /\ r[k].uuid = "sensor"}
           others == {k \in DOMAIN r : r[k].kind = "char" /\ r[k].uuid = "action"}
<1>9. places \subseteq Nat /\ others \subseteq Nat /\ places \subseteq {action + 2}
  <2>1. \A k \in DOMAIN r : k \in Nat
    BY <1>7
  <2>2. \A k \in places : k = action + 2
    BY <1>8 DEF SensorValue
  <2> QED BY <2>1, <2>2
<1>10. h = (IF places = {} THEN 0 ELSE Min(places)) /\ HandleOf(r, "action") = (IF others = {} THEN 0 ELSE Min(others))
  BY DEF HandleOf
<1>11. (places # {} => Min(places) \in places) /\ (others # {} => Min(others) \in others)
  <2> HIDE DEF places, others
  <2> QED BY <1>9, MinNumber
<1>12. \A k \in DOMAIN r : SensorValue(r[k]) => k \in places
  BY DEF SensorValue
<1>13. h # 0 => h \in places
  BY <1>10, <1>11
<1>14. h \in Nat /\ HandleOf(r, "action") \in Nat
  BY <1>9, <1>10, <1>11
<1>15. \A k \in places : k = h
  BY <1>9, <1>10, <1>11
<1> HIDE DEF h
<1>16. \A k \in DOMAIN r : SensorValue(r[k]) =>
         k = h /\ ~r[k].write /\ r[k].max = BLE_GATT_MAX_SIZE /\ r[k].value = <<0, 0, 0, 0>>
  BY <1>8, <1>12, <1>15 DEF Char
<1>17. h # 0 => h \in DOMAIN r /\ SensorValue(r[h])
  BY <1>13 DEF SensorValue
<1> QED BY <1>14, <1>16, <1>17 DEF r, h

\* A step that leaves the attributes, and what main, the polls and the central know of them, alone.
LEMMA ReadQuietStep ==
    ASSUME ReadInv, attributes' = attributes, handle' = handle, readings' = readings, reading' = reading, Staged'
    PROVE  ReadInv'
<1>1. OneSensorValue' /\ ValueDecodes' /\ ReadSoFar'
  BY DEF ReadInv, OneSensorValue, ValueDecodes, ReadSoFar
<1> QED BY <1>1 DEF ReadInv

\* One that leaves main where it was, too.
LEMMA ReadStillStep ==
    ASSUME ReadInv, attributes' = attributes, handle' = handle, readings' = readings, reading' = reading,
           listed' = listed, pc' = pc
    PROVE  ReadInv'
<1>1. Staged'
  BY DEF ReadInv, Staged
<1> QED BY <1>1, ReadQuietStep

\* A hub that starts again has no value.
LEMMA ReadResetStep ==
    ASSUME Unbooted
    PROVE  ReadInv'
<1>1. /\ pc' = "ble_stack_init" /\ listed' = 0 /\ attributes' = <<>> /\ readings' = <<>>
      /\ handle' = [u \in {"action", "sensor"} |-> 0] /\ reading' = NoReading
  BY DEF Unbooted
<1>2. handle'["sensor"] = 0 /\ handle' \in [{"action", "sensor"} -> Nat]
  BY <1>1
<1>3. NoReading \in [bytes : Seq(Byte), same : BOOLEAN, ended : BOOLEAN]
  BY EmptySeq DEF NoReading
<1>4. DOMAIN attributes' = {}
  BY <1>1
<1> QED BY <1>1, <1>2, <1>3, <1>4 DEF ReadInv, OneSensorValue, ValueDecodes, Staged, ReadSoFar

\* The services are added: their value is a list of no sensor, as is what the last poll had.
LEMMA ReadServicesInitStep ==
    ASSUME ReadInv, ServicesInit
    PROVE  ReadInv'
<1>1. PICK action \in 0..2, sensor \in 0..2 :
        /\ attributes' = Registered(action, sensor)
        /\ handle' = [u \in {"action", "sensor"} |-> HandleOf(Registered(action, sensor), u)]
  BY DEF ServicesInit
<1> DEFINE r == Registered(action, sensor)
           h == HandleOf(r, "sensor")
<1>2. /\ \A k \in DOMAIN r : SensorValue(r[k]) =>
            k = h /\ ~r[k].write /\ r[k].max = BLE_GATT_MAX_SIZE /\ r[k].value = <<0, 0, 0, 0>>
      /\ h # 0 => h \in DOMAIN r /\ SensorValue(r[h])
      /\ h \in Nat /\ HandleOf(r, "action") \in Nat
  BY RegisteredSensor
<1>3. handle'["sensor"] = h /\ handle' \in [{"action", "sensor"} -> Nat]
  BY <1>1, <1>2
<1>4. /\ pc = "services_init" /\ pc' = "conn_params_init" /\ UNCHANGED <<listed, readings, reading>>
      /\ listed = 0 /\ readings = <<>> /\ handle["sensor"] = 0 /\ reading = NoReading
  BY DEF ServicesInit, ReadInv, Staged, ReadSoFar
<1>5. attributes' = r
  BY <1>1
<1> HIDE DEF r, h
<1>6. h # 0 => attributes'[h].value = <<0, 0, 0, 0>> /\ h \in DOMAIN r
  BY <1>2, <1>5
<1>7. OneSensorValue'
  BY <1>2, <1>3, <1>5 DEF OneSensorValue
<1>8. ValueDecodes'
  BY <1>3, <1>4, <1>6, ZerosRoundTrip DEF ValueDecodes
<1>9. ReadSoFar'
  <2>1. NoReading \in [bytes : Seq(Byte), same : BOOLEAN, ended : BOOLEAN] /\ Len(<<>>) = 0
    BY EmptySeq DEF NoReading
  <2>2. NoReading.bytes = <<>> /\ ~NoReading.ended
    BY DEF NoReading
  <2> DEFINE v == attributes'[h].value
  <2>3. h # 0 => Len(v) = 4
    BY <1>6
  <2>4. SubSeq(v, 1, 0) = <<>>
    BY SubSeqEmpty
  <2> HIDE DEF v
  <2>5. h # 0 => 0 <= Len(v)
    BY <2>3
  <2> QED BY <1>3, <1>4, <2>1, <2>2, <2>4, <2>5 DEF ReadSoFar, v
<1>10. Staged'
  BY <1>4 DEF Staged
<1> QED BY <1>3, <1>7, <1>8, <1>9, <1>10 DEF ReadInv

\* A value that is set is all that changes.
LEMMA ValueSetChanges ==
    ASSUME Table, NEW h, NEW value, ValueSet(h, value)
    PROVE  /\ DOMAIN attributes' = DOMAIN attributes
           /\ \A k \in DOMAIN attributes :
                /\ attributes'[k].kind = attributes[k].kind /\ attributes'[k].uuid = attributes[k].uuid
                /\ attributes'[k].write = attributes[k].write /\ attributes'[k].max = attributes[k].max
                /\ k # h => attributes'[k].value = attributes[k].value
                /\ k = h /\ Len(value) <= attributes[k].max => attributes'[k].value = value
<1>1. \A k \in DOMAIN attributes : attributes[k] \in Attributes
  BY LenProperties, ElementOfSeq DEF Table
<1>2. CASE h \in DOMAIN attributes /\ Len(value) <= attributes[h].max
  <2>1. attributes' = [attributes EXCEPT ![h].value = value]
    BY <1>2 DEF ValueSet
  <2>2. DOMAIN attributes' = DOMAIN attributes
    BY <2>1
  <2>3. \A k \in DOMAIN attributes :
          attributes'[k] = IF k = h THEN [attributes[k] EXCEPT !.value = value] ELSE attributes[k]
    BY <2>1
  <2>4. ASSUME NEW k \in DOMAIN attributes, k = h
        PROVE  /\ attributes'[k].kind = attributes[k].kind /\ attributes'[k].uuid = attributes[k].uuid
               /\ attributes'[k].write = attributes[k].write /\ attributes'[k].max = attributes[k].max
               /\ attributes'[k].value = value
    <3>1. attributes'[k] = [attributes[k] EXCEPT !.value = value] /\ attributes[k] \in Attributes
      BY <1>1, <2>3, <2>4
    <3> QED BY <3>1 DEF Attributes
  <2> QED BY <2>2, <2>3, <2>4
<1>3. CASE ~(h \in DOMAIN attributes /\ Len(value) <= attributes[h].max)
  <2>1. attributes' = attributes
    BY <1>3 DEF ValueSet
  <2> QED BY <1>3, <2>1
<1> QED BY <1>2, <1>3

\* What a central writes is not the sensor value.
LEMMA ReadWriteStep ==
    ASSUME Table, ReadInv, NEW h \in DOMAIN attributes, WriteValue(h)
    PROVE  ReadInv'
<1>1. /\ attributes[h].write /\ UNCHANGED <<pc, listed, handle, readings, reading>>
  BY DEF WriteValue
<1>2. PICK value \in Written : ValueSet(h, value)
  BY DEF WriteValue
<1>3. /\ DOMAIN attributes' = DOMAIN attributes
      /\ \A k \in DOMAIN attributes :
            /\ attributes'[k].kind = attributes[k].kind /\ attributes'[k].uuid = attributes[k].uuid
            /\ attributes'[k].write = attributes[k].write /\ attributes'[k].max = attributes[k].max
            /\ k # h => attributes'[k].value = attributes[k].value
  BY <1>2, ValueSetChanges
<1>4. OneSensorValue'
  BY <1>1, <1>3 DEF ReadInv, OneSensorValue, SensorValue
<1>5. handle["sensor"] # 0 => attributes'[handle["sensor"]].value = attributes[handle["sensor"]].value
  BY <1>1, <1>3 DEF ReadInv, OneSensorValue, SensorValue
<1>6. ValueDecodes' /\ ReadSoFar'
  BY <1>1, <1>5 DEF ReadInv, ValueDecodes, ReadSoFar
<1>7. Staged'
  BY <1>1 DEF ReadInv, Staged, WriteValue
<1> QED BY <1>1, <1>4, <1>6, <1>7 DEF ReadInv

\* A poll sets the value to the list of its readings; what was read before is of another value.
LEMMA ReadPublishStep ==
    ASSUME Bounds, ReadInv, Publish
    PROVE  ReadInv'
<1>1. PICK messages \in Seq(SensorData) :
        /\ Len(messages) = listed /\ readings' = messages
        /\ EncodeList(Stream(BLE_GATT_MAX_SIZE), messages) \in Streams(BLE_GATT_MAX_SIZE)
        /\ EncodeList(Stream(BLE_GATT_MAX_SIZE), messages).ok
        /\ ValueSet(handle["sensor"], EncodeList(Stream(BLE_GATT_MAX_SIZE), messages).bytes)
  BY Published
<1> DEFINE bytes == EncodeList(Stream(BLE_GATT_MAX_SIZE), messages).bytes
           h == handle["sensor"]
<1>2. Len(bytes) <= BLE_GATT_MAX_SIZE /\ ValueSet(h, bytes)
  BY <1>1 DEF Streams
<1>3. DecodedList(bytes) = {readings'}
  BY <1>1, ListRoundTrip, BleAssumption
<1> HIDE DEF bytes
<1>4. /\ listed > 0 /\ UNCHANGED <<pc, listed, handle>>
      /\ reading' = IF reading.ended THEN NoReading ELSE [reading EXCEPT !.same = reading.bytes = <<>>]
  BY DEF Publish
<1>5. /\ DOMAIN attributes' = DOMAIN attributes
      /\ \A k \in DOMAIN attributes :
            /\ attributes'[k].kind = attributes[k].kind /\ attributes'[k].uuid = attributes[k].uuid
            /\ attributes'[k].write = attributes[k].write /\ attributes'[k].max = attributes[k].max
            /\ k = h /\ Len(bytes) <= attributes[k].max => attributes'[k].value = bytes
  BY <1>2, ValueSetChanges DEF Bounds
<1>6. OneSensorValue'
  BY <1>4, <1>5 DEF ReadInv, OneSensorValue, SensorValue
<1>7. h # 0 => attributes'[h].value = bytes
  BY <1>2, <1>5 DEF ReadInv, OneSensorValue
<1>8. ValueDecodes'
  BY <1>3, <1>4, <1>7 DEF ValueDecodes
<1>9. Staged'
  <2>1. pc \in {"sensor_init", "loop"}
    BY <1>4 DEF ReadInv, Staged
  <2> QED BY <1>4, <2>1 DEF Staged
<1>10. ReadSoFar'
  <2>1. NoReading \in [bytes : Seq(Byte), same : BOOLEAN, ended : BOOLEAN] /\ NoReading.bytes = <<>> /\ ~NoReading.ended
    BY EmptySeq DEF NoReading
  <2>2. reading \in [bytes : Seq(Byte), same : BOOLEAN, ended : BOOLEAN] /\ (h = 0 => reading = NoReading)
    BY DEF ReadInv, ReadSoFar
  <2>3. reading' \in [bytes : Seq(Byte), same : BOOLEAN, ended : BOOLEAN]
    BY <1>4, <2>1, <2>2
  <2>4. reading'.same => reading'.bytes = <<>> /\ ~reading'.ended
    <3>1. CASE reading.ended
      BY <1>4, <2>1, <3>1
    <3>2. CASE ~reading.ended
      <4>1. reading' = [reading EXCEPT !.same = reading.bytes = <<>>]
        BY <1>4, <3>2
      <4>2. reading'.same = (reading.bytes = <<>>) /\ reading'.bytes = reading.bytes /\ reading'.ended = reading.ended
        BY <2>2, <4>1
      <4> QED BY <3>2, <4>2
    <3> QED BY <3>1, <3>2
  <2>5. h = 0 => reading' = NoReading
    <3> SUFFICES ASSUME h = 0 PROVE reading' = NoReading
      OBVIOUS
    <3>1. reading = [bytes |-> <<>>, same |-> TRUE, ended |-> FALSE]
      BY <2>2 DEF NoReading
    <3>2. reading' = [reading EXCEPT !.same = reading.bytes = <<>>]
      BY <1>4, <3>1
    <3>3. (reading.bytes = <<>>) = TRUE
      BY <3>1
    <3>4. reading' = [bytes |-> <<>>, same |-> TRUE, ended |-> FALSE]
      BY <3>1, <3>2, <3>3
    <3> QED BY <3>4 DEF NoReading
  <2>6. h # 0 /\ reading'.same =>
          /\ Len(reading'.bytes) <= Len(bytes) /\ reading'.bytes = SubSeq(bytes, 1, Len(reading'.bytes))
          /\ reading'.ended => reading'.bytes = bytes
    <3> SUFFICES ASSUME reading'.same
                 PROVE  Len(reading'.bytes) <= Len(bytes) /\ reading'.bytes = SubSeq(bytes, 1, Len(reading'.bytes))
      BY <2>4
    <3>1. reading'.bytes = <<>> /\ Len(<<>>) = 0
      BY <2>4, EmptySeq
    <3>2. SubSeq(bytes, 1, 0) = <<>>
      BY SubSeqEmpty
    <3>3. Len(bytes) \in Nat
      <4>1. bytes \in Seq(Byte)
        BY <1>1 DEF bytes, Streams
      <4> QED BY <4>1, LenProperties
    <3> QED BY <3>1, <3>2, <3>3
  <2> QED BY <1>4, <1>7, <2>3, <2>5, <2>6 DEF ReadSoFar
<1>11. handle' \in [{"action", "sensor"} -> Nat]
  BY <1>4 DEF ReadInv
<1> QED BY <1>6, <1>8, <1>9, <1>10, <1>11 DEF ReadInv

\* An answer goes on where the last one ended; one that is not full ends where the value does.
LEMMA ReadPieceStep ==
    ASSUME Table, ReadInv, NEW h \in DOMAIN attributes, ReadPiece(h)
    PROVE  ReadInv'
<1> DEFINE value == attributes[h].value
           b == reading.bytes
           done == Len(b)
           n == Len(value)
           upto == Min({n, done + Piece})
           got == SubSeq(value, done + 1, upto)
<1>1. /\ attributes[h].kind = "char" /\ attributes[h].uuid = "sensor" /\ ~reading.ended
      /\ reading' = [reading EXCEPT !.bytes = b \o got, !.ended = Len(got) < Piece]
      /\ UNCHANGED <<pc, listed, attributes, handle, readings>>
  BY DEF ReadPiece
<1>2. h = handle["sensor"] /\ h # 0
  <2>1. h # 0
    BY LenProperties DEF Table
  <2> QED BY <1>1, <2>1 DEF ReadInv, OneSensorValue, SensorValue
<1>3. value \in Seq(Byte) /\ n \in Nat /\ Piece \in Nat \ {0}
  <2>1. attributes[h] \in Attributes
    BY LenProperties, ElementOfSeq DEF Table
  <2>2. attributes[h].value \in Seq(Byte)
    BY <2>1 DEF Attributes
  <2> QED BY <2>2, LenProperties, BleAssumption
<1>4. /\ reading \in [bytes : Seq(Byte), same : BOOLEAN, ended : BOOLEAN]
      /\ b \in Seq(Byte) /\ done \in Nat
      /\ reading.same => done <= n /\ b = SubSeq(value, 1, done)
  BY <1>2, LenProperties DEF ReadInv, ReadSoFar
<1> HIDE DEF value, b, done, n
<1>5. upto \in Nat /\ upto <= n /\ (upto = n \/ upto = done + Piece)
  <2>1. done + Piece \in Nat
    BY <1>3, <1>4
  <2>2. upto \in {n, done + Piece} /\ upto <= n
    BY <1>3, <2>1, MinOfTwo
  <2> HIDE DEF upto
  <2> QED BY <1>3, <2>1, <2>2
<1> HIDE DEF upto
<1>6. got \in Seq(Byte) /\ Len(got) = IF done + 1 <= upto THEN upto - (done + 1) + 1 ELSE 0
  <2>1. \A i \in done + 1..upto : value[i] \in Byte
    <3>1. \A i \in 1..n : value[i] \in Byte
      BY <1>3, ElementOfSeq DEF n
    <3> QED BY <1>3, <1>4, <1>5, <3>1
  <2>2. done + 1 \in Int /\ upto \in Int
    BY <1>4, <1>5
  <2> QED BY <2>1, <2>2, SubSeqProperties
<1> HIDE DEF got
<1>7. b \o got \in Seq(Byte) /\ Len(b \o got) = done + Len(got) /\ Len(got) \in Nat
  BY <1>4, <1>6, ConcatProperties, LenProperties DEF done
<1>8. /\ reading'.bytes = b \o got /\ reading'.same = reading.same
      /\ reading'.ended = (Len(got) < Piece)
      /\ reading' \in [bytes : Seq(Byte), same : BOOLEAN, ended : BOOLEAN]
  <2> DEFINE last == Len(got) < Piece
             read == b \o got
  <2>1. last \in BOOLEAN /\ read \in Seq(Byte) /\ reading' = [reading EXCEPT !.bytes = read, !.ended = last]
    BY <1>1, <1>7
  <2> HIDE DEF last, read
  <2>2. /\ reading'.bytes = read /\ reading'.same = reading.same /\ reading'.ended = last
        /\ reading' \in [bytes : Seq(Byte), same : BOOLEAN, ended : BOOLEAN]
    BY <1>4, <2>1
  <2> QED BY <2>2 DEF last, read
<1>9. reading.same =>
        /\ Len(b \o got) <= n /\ b \o got = SubSeq(value, 1, Len(b \o got))
        /\ Len(got) < Piece => b \o got = value
  <2> SUFFICES ASSUME reading.same
               PROVE  /\ Len(b \o got) <= n /\ b \o got = SubSeq(value, 1, Len(b \o got))
                      /\ Len(got) < Piece => b \o got = value
    OBVIOUS
  <2>1. done <= n /\ b = SubSeq(value, 1, done)
    BY <1>4
  <2>2. done <= upto
    BY <1>3, <1>4, <1>5, <2>1
  <2>3. Len(b \o got) = upto
    BY <1>4, <1>5, <1>6, <1>7, <2>2
  <2>4. SubSeq(value, 1, done) \o SubSeq(value, done + 1, upto) = SubSeq(value, 1, upto)
    <3>1. 1 \in 1..Len(value) + 1 /\ done \in 1 - 1..Len(value) /\ upto \in done..Len(value)
      BY <1>3, <1>4, <1>5, <2>1, <2>2 DEF n
    <3> QED BY <1>3, <3>1, ConcatAdjacentSubSeq
  <2>5. Len(got) < Piece => upto = n
    BY <1>3, <1>4, <1>5, <1>7, <2>3
  <2>6. SubSeq(value, 1, n) = value
    BY <1>3, SubSeqFull DEF n
  <2> QED BY <1>5, <2>1, <2>3, <2>4, <2>5, <2>6 DEF got
<1>10. ReadSoFar'
  <2>1. attributes'[handle'["sensor"]].value = value /\ handle'["sensor"] # 0
    BY <1>1, <1>2 DEF value
  <2> QED BY <1>8, <1>9, <2>1 DEF ReadSoFar, n
<1>11. OneSensorValue' /\ ValueDecodes' /\ Staged' /\ handle' \in [{"action", "sensor"} -> Nat]
  BY <1>1 DEF ReadInv, OneSensorValue, ValueDecodes, Staged
<1> QED BY <1>10, <1>11 DEF ReadInv

\* The steps of the hub and of its link.
LEMMA ReadInvHolds == Spec => []ReadInv
<1>1. Init => ReadInv
  <2> SUFFICES ASSUME Init PROVE ReadInv
    OBVIOUS
  <2>1. /\ pc = "ble_stack_init" /\ listed = 0 /\ attributes = <<>> /\ readings = <<>>
        /\ handle = [u \in {"action", "sensor"} |-> 0] /\ reading = NoReading
    BY DEF Init
  <2>2. handle["sensor"] = 0 /\ handle \in [{"action", "sensor"} -> Nat]
    BY <2>1
  <2>3. NoReading \in [bytes : Seq(Byte), same : BOOLEAN, ended : BOOLEAN]
    BY EmptySeq DEF NoReading
  <2>4. DOMAIN attributes = {}
    BY <2>1
  <2> QED BY <2>1, <2>2, <2>3, <2>4 DEF ReadInv, OneSensorValue, ValueDecodes, Staged, ReadSoFar
<1>2. Bounds /\ ReadInv /\ [Next]_vars => ReadInv'
  <2> SUFFICES ASSUME Bounds, ReadInv, [Next]_vars PROVE ReadInv'
    OBVIOUS
  <2>0. Table
    BY DEF Bounds
  <2>1. CASE Reset
    BY <2>1, ReadResetStep DEF Reset
  <2>2. CASE BleStackInit \/ GapParamsInit \/ AdvertisingInit \/ ConnParamsInit \/ Start
    <3>1. CASE ~Reset
      <4>1. /\ attributes' = attributes /\ handle' = handle /\ readings' = readings /\ reading' = reading
            /\ listed' = listed
        BY <2>2, <3>1 DEF BleStackInit, GapParamsInit, AdvertisingInit, ConnParamsInit, Start, Stage
      <4>2. \/ pc \in {"ble_stack_init", "gap_params_init", "advertising_init"}
            \/ pc \in {"conn_params_init", "sensor_init"} /\ pc' \in {"sensor_init", "loop"}
        BY <2>2, <3>1 DEF BleStackInit, GapParamsInit, AdvertisingInit, ConnParamsInit, Start, Stage
      <4>3. Staged'
        BY <4>1, <4>2 DEF ReadInv, Staged
      <4> QED BY <4>1, <4>3, ReadQuietStep
    <3> QED BY <2>1, <3>1
  <2>3. CASE ServicesInit
    BY <2>3, ReadServicesInitStep
  <2>4. CASE SensorInit
    <3>1. CASE ~Reset
      <4>1. pc = "sensor_init" /\ UNCHANGED <<pc, attributes, handle, readings, reading>>
        BY <2>4, <3>1 DEF SensorInit
      <4>2. Staged'
        BY <4>1 DEF Staged
      <4>3. OneSensorValue' /\ ValueDecodes' /\ ReadSoFar'
        BY <4>1 DEF ReadInv, OneSensorValue, ValueDecodes, ReadSoFar
      <4> QED BY <4>1, <4>2, <4>3 DEF ReadInv
    <3> QED BY <2>1, <3>1
  <2>5. CASE Publish
    BY <2>5, ReadPublishStep
  <2>6. CASE Dispatch
    <3>1. CASE ~Reset
      <4>1. /\ attributes' = attributes /\ handle' = handle /\ readings' = readings /\ reading' = reading
            /\ listed' = listed /\ pc' = pc
        BY <2>6, <3>1 DEF Dispatch, OnConnected, OnDisconnected, OnTimeout, OnRequest, OnParamUpdate
      <4> QED BY <4>1, ReadStillStep
    <3> QED BY <2>1, <3>1
  <2>7. CASE ParamsTimeout
    <3>1. CASE ~Reset
      <4>1. /\ attributes' = attributes /\ handle' = handle /\ readings' = readings /\ reading' = reading
            /\ listed' = listed /\ pc' = pc
        BY <2>7, <3>1 DEF ParamsTimeout
      <4> QED BY <4>1, ReadStillStep
    <3> QED BY <2>1, <3>1
  <2>8. CASE Connect \/ ParamUpdate \/ OwnUpdate
             \/ \E evt \in {"memory", "authorize", "mtu", "timeout"} : Request(evt)
    <3>1. /\ attributes' = attributes /\ handle' = handle /\ readings' = readings /\ reading' = reading
          /\ listed' = listed /\ pc' = pc
      BY <2>8 DEF Connect, ParamUpdate, OwnUpdate, ParamsChange, Request
    <3> QED BY <3>1, ReadStillStep
  <2>9. CASE LinkEnds
    <3>1. UNCHANGED <<attributes, handle, readings, listed, pc>> /\ reading' = NoReading
      BY <2>9 DEF LinkEnds
    <3>2. NoReading \in [bytes : Seq(Byte), same : BOOLEAN, ended : BOOLEAN] /\ NoReading.bytes = <<>> /\ ~NoReading.ended
      BY EmptySeq DEF NoReading
    <3>3. handle["sensor"] # 0 => Len(attributes[handle["sensor"]].value) \in Nat
      <4> SUFFICES ASSUME handle["sensor"] # 0 PROVE Len(attributes[handle["sensor"]].value) \in Nat
        OBVIOUS
      <4>1. attributes[handle["sensor"]] \in Attributes
        <5>1. handle["sensor"] \in DOMAIN attributes
          BY DEF ReadInv, OneSensorValue
        <5> QED BY <2>0, <5>1, LenProperties, ElementOfSeq DEF Table
      <4>2. attributes[handle["sensor"]].value \in Seq(Byte)
        BY <4>1 DEF Attributes
      <4> QED BY <4>2, LenProperties
    <3>4. Len(<<>>) = 0 /\ \A v : SubSeq(v, 1, 0) = <<>>
      BY EmptySeq, SubSeqEmpty
    <3>5. ReadSoFar'
      BY <3>1, <3>2, <3>3, <3>4 DEF ReadSoFar
    <3>6. OneSensorValue' /\ ValueDecodes' /\ Staged'
      BY <3>1 DEF ReadInv, OneSensorValue, ValueDecodes, Staged
    <3> QED BY <3>1, <3>5, <3>6 DEF ReadInv
  <2>10. ASSUME NEW h \in DOMAIN attributes, WriteValue(h) \/ ReadPiece(h) PROVE ReadInv'
    BY <2>0, <2>10, ReadWriteStep, ReadPieceStep
  <2>11. CASE UNCHANGED vars
    <3>1. /\ attributes' = attributes /\ handle' = handle /\ readings' = readings /\ reading' = reading
          /\ listed' = listed /\ pc' = pc
      BY <2>11 DEF vars
    <3> QED BY <3>1, ReadStillStep
  <2> QED BY <2>2, <2>3, <2>4, <2>5, <2>6, <2>7, <2>8, <2>9, <2>10, <2>11 DEF Next
<1> QED BY <1>1, <1>2, BoundsHold, PTL DEF Spec

\* What a central reads in one go, while no poll sets the value, is a list of the listed sensors with the
\* last poll's readings, or of none before the first: however many sensors there are, whatever they read,
\* whatever centrals write, in pieces of any size, and whatever happens to the link.
THEOREM ReadsAreTheReadings == Spec => []ReadsDecode
<1>1. ReadInv => ReadsDecode
  <2> SUFFICES ASSUME ReadInv, reading.ended, reading.same
               PROVE  DecodedList(reading.bytes) = {readings}
    BY DEF ReadsDecode
  <2>1. handle["sensor"] # 0
    BY DEF ReadInv, ReadSoFar, NoReading
  <2>2. reading.bytes = attributes[handle["sensor"]].value
    BY <2>1 DEF ReadInv, ReadSoFar
  <2> QED BY <2>1, <2>2 DEF ReadInv, ValueDecodes
<1> QED BY <1>1, ReadInvHolds, PTL

=============================================================================
