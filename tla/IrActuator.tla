----------------------------- MODULE IrActuator -----------------------------
(***************************************************************************)
(* sems_ir_actuator.c: the actuator that sends an infrared signal.         *)
(*                                                                         *)
(* TIMER1 makes the carrier: low for 18 us, high for 8 us.  PPI channels   *)
(* toggle the pin at both edges while a channel group is enabled, and      *)
(* count the periods in TIMER2.  When TIMER2 reaches CC[0] the group is    *)
(* disabled, and when it reaches CC[1] it is enabled, by the hardware; the *)
(* TIMER2 interrupt has then time to load the register that was reached    *)
(* with the instant of the edge after the next one.                        *)
(*                                                                         *)
(* Actions come from the BLE event interrupt, which TIMER2 preempts.  The  *)
(* radio's interrupts preempt TIMER2: its handler may be late.             *)
(***************************************************************************)
EXTENDS Integers, Sequences, FiniteSets

CONSTANTS
    Data,                \* what an encoder makes of an action's data, given by
                         \* the running sums of its durations in microseconds
    SEMS_IR_BUFFER_LEN,
    CarrierPeriod,       \* SEMS_IR_CARRIER_LOW_US + SEMS_IR_CARRIER_HIGH_US
    CounterRange,        \* TIMER2 counts modulo 2^16
    WordRange,           \* uint32_t
    MaxLate              \* bound: carrier edges the handler may be late

\* Every signal starts with a mark of one period at least.
ASSUME IrAssumption ==
    /\ SEMS_IR_BUFFER_LEN \in Nat /\ SEMS_IR_BUFFER_LEN >= 3
    /\ CarrierPeriod \in Nat \ {0} /\ MaxLate \in Nat
    /\ CounterRange \in Nat \ {0}
    /\ WordRange \in Nat \ {0} /\ SEMS_IR_BUFFER_LEN < WordRange
    /\ \A d \in Data : /\ d \in Seq(Nat)
                       /\ \A k \in 1..Len(d) : d[k] \in CarrierPeriod..WordRange - 1
                       /\ \A j, k \in 1..Len(d) : j <= k => d[j] <= d[k]

VARIABLES
    actuator,               \* actuator_state, or "none" after a failed init
    m_busy,
    signal,                 \* what raw_buffer holds
    next,                   \* m_current_data_ptr - raw_buffer
    m_bits_remaining,
    m_integrated_time_us,
    m_next_cc_for_update,
    CC, EVENTS_COMPARE,     \* registers of TIMER2
    counter,                \* its count
    group,                  \* SEMS_IR_PPI_GROUP is enabled
    carrier,                \* TIMER1: stopped, or in which part of the period
    pin,                    \* the level of the output
    late,                   \* carrier edges since the handler has an event to take
    elapsed,                \* history: periods since the signal's start ...
    edges,                  \* ... and how often TIMER2 has reached a register
    failed,                 \* history: an action's data could not be encoded
    inverted                \* history: the carrier has been stopped in the high
                            \* part of a mark an odd number of times

statics  == <<m_busy, signal, next, m_bits_remaining, m_integrated_time_us, m_next_cc_for_update>>
hardware == <<CC, EVENTS_COMPARE, counter, group, carrier, pin, late>>
history  == <<elapsed, edges, failed, inverted>>
vars     == <<actuator, statics, hardware, history>>

-----------------------------------------------------------------------------
\* Mutated: the count is rounded down.
PulseCountDown(time_us) == time_us \div CarrierPeriod

\* pulse_count_calculate: the nearest number of periods.
PulseCount(time_us) == (time_us + CarrierPeriod \div 2) \div CarrierPeriod

\* The instant at which the k-th duration ends; the rest of the buffer is 0.
Instant(k) == IF k = 0 \/ signal = <<>> THEN 0
              ELSE IF k <= Len(signal) THEN signal[k] ELSE signal[Len(signal)]
Duration(i) == Instant(i + 1) - Instant(i)

\* Mutated: the register holds more than the 16 bits of the counter.
CompareWide(time_us) == PulseCount(time_us)

\* What a compare register holds of an instant.
Compare(time_us) == PulseCount(time_us) % CounterRange

Sending == carrier # "stopped"

\* The TIMER2 interrupt is pending, and its loop has something to do.
Pending == \E i \in {0, 1} : EVENTS_COMPARE[i]
Due     == EVENTS_COMPARE[m_next_cc_for_update]

-----------------------------------------------------------------------------
Init ==
    /\ actuator = "uninited"
    /\ m_busy = FALSE
    /\ signal = <<>>
    /\ next = 0
    /\ m_bits_remaining = 0
    /\ m_integrated_time_us = 0
    /\ m_next_cc_for_update = 0
    /\ CC = [i \in {0, 1} |-> 0]
    /\ EVENTS_COMPARE = [i \in {0, 1} |-> FALSE]
    /\ counter = 0
    /\ group = FALSE
    /\ carrier = "stopped"
    /\ pin = FALSE
    /\ late = 0
    /\ elapsed = 0
    /\ edges = 0
    /\ failed = FALSE
    /\ inverted = FALSE

\* sems_actuator_init refuses an actuator that is initialised, or that there is none of.
CanInit == actuator = "uninited"

\* sems_ir_init; when a driver fails, the actuator is freed.
ActuatorInit ==
    /\ CanInit
    /\ actuator' \in {"inited", "none"}
    /\ m_busy' = FALSE
    /\ EVENTS_COMPARE' = [i \in {0, 1} |-> FALSE]
    /\ group' = FALSE
    /\ UNCHANGED <<signal, next, m_bits_remaining, m_integrated_time_us, m_next_cc_for_update,
                   CC, counter, carrier, pin, late, history>>

\* sems_actuator_execute and sems_ir_execute up to line 181; a busy actuator
\* refuses the action and changes nothing.
Accepts == actuator = "inited" /\ ~m_busy /\ ~Pending

\* Mutated: the actuator is not marked busy.
ExecuteNotBusy(d) ==
    /\ Accepts
    /\ Len(d) \in 1..SEMS_IR_BUFFER_LEN
    /\ signal' = d
    /\ next' = 2
    /\ m_integrated_time_us' = IF Len(d) = 1 THEN d[1] ELSE d[2]
    /\ CC' = [i \in {0, 1} |-> Compare(IF i = 0 \/ Len(d) = 1 THEN d[1] ELSE d[2])]
    /\ m_bits_remaining' = Len(d)
    /\ m_next_cc_for_update' = 0
    /\ group' = TRUE
    /\ counter' = 0 /\ elapsed' = 0 /\ edges' = 0
    /\ carrier' = "low"
    /\ UNCHANGED <<actuator, m_busy, EVENTS_COMPARE, pin, late, failed, inverted>>

\* The rest of sems_ir_execute, and sems_ir_row_send.
Execute(d) ==
    /\ Accepts
    /\ Len(d) \in 1..SEMS_IR_BUFFER_LEN
    /\ m_busy' = TRUE
    /\ signal' = d
    /\ next' = 2
    /\ m_integrated_time_us' = IF Len(d) = 1 THEN d[1] ELSE d[2]
    /\ CC' = [i \in {0, 1} |-> Compare(IF i = 0 \/ Len(d) = 1 THEN d[1] ELSE d[2])]
    /\ m_bits_remaining' = Len(d)
    /\ m_next_cc_for_update' = 0
    /\ group' = TRUE
    /\ counter' = 0 /\ elapsed' = 0 /\ edges' = 0
    /\ carrier' = "low"
    /\ UNCHANGED <<actuator, EVENTS_COMPARE, pin, late, failed, inverted>>

\* The encoder fails, or makes nothing of the data; m_busy stays set.
ExecuteFails(d) ==
    /\ Accepts
    /\ Len(d) \notin 1..SEMS_IR_BUFFER_LEN
    /\ m_busy' = TRUE
    /\ signal' = <<>>
    /\ failed' = TRUE
    /\ UNCHANGED <<actuator, next, m_bits_remaining, m_integrated_time_us, m_next_cc_for_update,
                   hardware, elapsed, edges, inverted>>

-----------------------------------------------------------------------------
(* The carrier.  How long the handler is late is bounded. *)

InTime == Due => late < MaxLate
Lateness == late' = IF Due THEN late + 1 ELSE 0

\* TIMER1 reaches CC[0] after 18 us: channel B toggles the pin.
LowEnds ==
    /\ carrier = "low" /\ InTime
    /\ carrier' = "high"
    /\ pin' = IF group THEN ~pin ELSE pin
    /\ Lateness
    /\ UNCHANGED <<actuator, statics, CC, EVENTS_COMPARE, counter, group, history>>

\* Mutated: channel C is not assigned.
HighEndsUnseen ==
    /\ carrier = "high" /\ InTime
    /\ carrier' = "low"
    /\ Lateness
    /\ counter' = (counter + 1) % CounterRange
    /\ elapsed' = elapsed + 1
    /\ EVENTS_COMPARE' = [i \in {0, 1} |-> EVENTS_COMPARE[i] \/ counter' = CC[i]]
    /\ edges' = edges + Cardinality({i \in {0, 1} : counter' = CC[i]})
    /\ \/ \E i \in {0, 1} : counter' = CC[i] /\ group' = (i = 1)
       \/ (\A i \in {0, 1} : counter' # CC[i]) /\ UNCHANGED group
    /\ UNCHANGED <<actuator, statics, CC, pin, failed, inverted>>

\* TIMER1 reaches CC[1] and is cleared: channel C toggles the pin, channel A
\* counts, and channels D and E switch the group when TIMER2 has reached a
\* register.  Which of the two wins when it has reached both is not specified.
HighEnds ==
    /\ carrier = "high" /\ InTime
    /\ carrier' = "low"
    /\ pin' = IF group THEN ~pin ELSE pin
    /\ Lateness
    /\ counter' = (counter + 1) % CounterRange
    /\ elapsed' = elapsed + 1
    /\ EVENTS_COMPARE' = [i \in {0, 1} |-> EVENTS_COMPARE[i] \/ counter' = CC[i]]
    /\ edges' = edges + Cardinality({i \in {0, 1} : counter' = CC[i]})
    /\ \/ \E i \in {0, 1} : counter' = CC[i] /\ group' = (i = 1)
       \/ (\A i \in {0, 1} : counter' # CC[i]) /\ UNCHANGED group
    /\ UNCHANGED <<actuator, statics, CC, failed, inverted>>

-----------------------------------------------------------------------------
\* One turn of the handler's loop, with what it does in each case.  The handler
\* returns, to be entered again, when only the other event is pending.
TakeEvent ==
    /\ Due
    /\ EVENTS_COMPARE' = [EVENTS_COMPARE EXCEPT ![m_next_cc_for_update] = FALSE]
    /\ m_bits_remaining' = (m_bits_remaining - 1) % WordRange
    /\ m_next_cc_for_update' = 1 - m_next_cc_for_update
    /\ late' = IF EVENTS_COMPARE[1 - m_next_cc_for_update] THEN late ELSE 0
    /\ UNCHANGED <<actuator, signal, counter, group, pin, edges, failed>>

\* Mutated: one duration too many is loaded.
LoadPastEnd ==
    /\ TakeEvent
    /\ m_bits_remaining' >= 1
    /\ m_integrated_time_us' = (m_integrated_time_us + Duration(next)) % WordRange
    /\ next' = next + 1
    /\ CC' = [CC EXCEPT ![m_next_cc_for_update] = Compare(m_integrated_time_us')]
    /\ UNCHANGED <<m_busy, carrier, elapsed, inverted>>

Load ==
    /\ TakeEvent
    /\ m_bits_remaining' >= 2
    /\ m_integrated_time_us' = (m_integrated_time_us + Duration(next)) % WordRange
    /\ next' = next + 1
    /\ CC' = [CC EXCEPT ![m_next_cc_for_update] = Compare(m_integrated_time_us')]
    /\ UNCHANGED <<m_busy, carrier, elapsed, inverted>>

LastEdgeToCome ==
    /\ TakeEvent
    /\ m_bits_remaining' = 1
    /\ UNCHANGED <<m_busy, carrier, next, m_integrated_time_us, CC, elapsed, inverted>>

\* Mutated: the carrier goes on.
StopForgotten ==
    /\ TakeEvent
    /\ m_bits_remaining' = 0
    /\ m_busy' = FALSE
    /\ UNCHANGED <<carrier, elapsed, inverted, next, m_integrated_time_us, CC>>

Stop ==
    /\ TakeEvent
    /\ m_bits_remaining' = 0
    /\ carrier' = "stopped"
    /\ m_busy' = FALSE
    /\ elapsed' = 0
    /\ inverted' = (inverted # (carrier = "high" /\ group))
    /\ UNCHANGED <<next, m_integrated_time_us, CC>>

Handler == Load \/ LastEdgeToCome \/ Stop

Next ==
    \/ ActuatorInit
    \/ \E d \in Data : Execute(d) \/ ExecuteFails(d)
    \/ LowEnds \/ HighEnds
    \/ Handler

Spec == Init /\ [][Next]_vars

\* The carrier runs by itself, and the handler is entered while an event is
\* pending.
FairSpec == Spec /\ WF_vars(LowEnds \/ HighEnds) /\ WF_vars(Handler)

-----------------------------------------------------------------------------
\* Every variable keeps its type; a compare register holds what 16 bits can.
TypeOK ==
    /\ actuator \in {"none", "uninited", "inited"}
    /\ m_busy \in BOOLEAN
    /\ signal \in Data \cup {<<>>}
    /\ next \in Nat
    /\ m_bits_remaining \in 0..WordRange - 1
    /\ m_integrated_time_us \in 0..WordRange - 1
    /\ m_next_cc_for_update \in {0, 1}
    /\ CC \in [{0, 1} -> 0..CounterRange - 1]
    /\ EVENTS_COMPARE \in [{0, 1} -> BOOLEAN]
    /\ counter \in 0..CounterRange - 1
    /\ group \in BOOLEAN
    /\ carrier \in {"stopped", "low", "high"}
    /\ pin \in BOOLEAN
    /\ late \in 0..MaxLate
    /\ elapsed \in Nat
    /\ edges \in Nat
    /\ failed \in BOOLEAN
    /\ inverted \in BOOLEAN

\* An action is refused exactly while a signal is being sent, as long as the
\* data of every action so far could be encoded.
BusyWhileSending ==
    /\ Sending => m_busy
    /\ m_busy /\ ~failed => Sending

\* A handler in time never takes a duration from beyond raw_buffer, although its
\* count of turns wraps below 0 when a signal of one duration has ended.
ReadsInBuffer == next <= SEMS_IR_BUFFER_LEN

\* The count of the k-th edge, from the signal's start.
EdgeCount(d, k) == IF k = 0 THEN 0 ELSE PulseCount(d[k])

\* The signals that a handler this late can send: every duration is a period at
\* least, and with the delay shorter than the counter's round; any two together
\* are longer than the delay and no longer than the round.
Sendable(d) ==
    LET delay == MaxLate \div 2 IN
    /\ \A k \in 1..Len(d) : EdgeCount(d, k) - EdgeCount(d, k - 1) \in 1..CounterRange - delay - 1
    /\ \A k \in 2..Len(d) : EdgeCount(d, k) - EdgeCount(d, k - 2) \in delay + 1..CounterRange

HandlerInTime == \A d \in Data : Len(d) \in 1..SEMS_IR_BUFFER_LEN => Sendable(d)

Out == INSTANCE IrSignal WITH
    Signal <- {d \in Data : Len(d) \in 1..SEMS_IR_BUFFER_LEN},
    Period <- CarrierPeriod,
    sending <- Sending,
    signal <- IF Sending THEN signal ELSE <<>>,
    time <- IF Sending THEN elapsed * CarrierPeriod ELSE 0,
    edges <- IF ~Sending THEN 0 ELSE IF edges > Len(signal) THEN Len(signal) ELSE edges,
    mark <- Sending /\ group

\* The actuator implements IrSignal when its handler is never later than two
\* durations: every edge is within half a period of its instant, with no drift
\* over the signal, and in between the carrier is on in the marks only.
FollowsSignal == Out!Spec

\* A signal ends, even when a late handler has missed an edge and waits for the
\* counter to come round.
SignalEnds == Sending ~> ~Sending

\* The pin is high in the high part of the marks only, and low at rest, except
\* when a late handler has cut the high part of a mark: it is then the other way
\* round, until another is cut.
PinFollowsGate == pin = ((carrier = "high" /\ group) # inverted)

=============================================================================
