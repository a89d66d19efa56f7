-------------------------- MODULE IrActuatorProofs --------------------------
(***************************************************************************)
(* Proofs about IrActuator.  For every signal and however late the handler *)
(* may be: its variables keep their types, and it is busy exactly while it *)
(* sends.  For a handler in time: it reads in the buffer only, and sends   *)
(* the signal IrSignal promises.                                           *)
(***************************************************************************)
EXTENDS IrActuator, FiniteSetTheorems, TLAPS

\* Before it is initialised, and after it could not be, the actuator is silent.
SilentUnlessInited == actuator # "inited" => ~Sending

IInv == TypeOK /\ SilentUnlessInited /\ BusyWhileSending /\ PinFollowsGate

-----------------------------------------------------------------------------
\* A compare register holds what the counter can count to.
LEMMA CompareType ==
    ASSUME NEW t \in Int
    PROVE  Compare(t) \in 0..CounterRange - 1
BY IrAssumption DEF Compare, PulseCount

\* The running sums of a signal fit a word, and the rest of the buffer is 0.
LEMMA DurationType ==
    ASSUME TypeOK, NEW i \in Nat
    PROVE  Duration(i) \in Int
<1>1. ASSUME NEW k \in Nat PROVE Instant(k) \in Int
  <2>1. CASE signal = <<>> \/ k = 0
    BY <2>1 DEF Instant
  <2>2. CASE signal # <<>> /\ k # 0
    <3>1. signal \in Data /\ signal \in Seq(Nat)
      BY <2>2, IrAssumption DEF TypeOK
    <3>2. Len(signal) \in Nat /\ Len(signal) # 0
      BY <2>2, <3>1
    <3>3. \A j \in 1..Len(signal) : signal[j] \in Nat
      BY <3>1
    <3> QED BY <2>2, <3>2, <3>3 DEF Instant
  <2> QED BY <2>1, <2>2
<1> QED BY <1>1 DEF Duration

\* Finitely many registers are reached at once.
LEMMA ReachedType ==
    ASSUME NEW R \in SUBSET {0, 1}
    PROVE  Cardinality(R) \in Nat
<1>1. IsFiniteSet({0} \cup {1})
  BY FS_Singleton, FS_AddElement
<1>2. R \subseteq {0} \cup {1}
  OBVIOUS
<1> QED BY <1>1, <1>2, FS_Subset, FS_CardinalityType

-----------------------------------------------------------------------------
\* An actuator that was never used meets the invariant.
LEMMA InitHolds == Init => IInv
<1> SUFFICES ASSUME Init PROVE IInv
  OBVIOUS
<1>1. 0 \in 0..CounterRange - 1 /\ 0 \in 0..WordRange - 1 /\ 0 \in 0..MaxLate
  BY IrAssumption
<1>2. TypeOK
  BY <1>1 DEF Init, TypeOK
<1> QED BY <1>2 DEF Init, IInv, SilentUnlessInited, BusyWhileSending, PinFollowsGate, Sending

\* What one turn of the handler does to the parts all its cases share.
LEMMA TakeEventType ==
    ASSUME TypeOK, TakeEvent
    PROVE  /\ EVENTS_COMPARE' \in [{0, 1} -> BOOLEAN]
           /\ m_bits_remaining' \in 0..WordRange - 1
           /\ m_next_cc_for_update' \in {0, 1}
           /\ late' \in 0..MaxLate
BY IrAssumption DEF TypeOK, TakeEvent

\* How late the handler is stays within the bound.
LEMMA LatenessType ==
    ASSUME TypeOK, InTime, Lateness
    PROVE  late' \in 0..MaxLate
BY IrAssumption DEF TypeOK, InTime, Lateness

\* Every step keeps the types.
LEMMA TypeStep == TypeOK /\ [Next]_vars => TypeOK'
<1> SUFFICES ASSUME TypeOK, [Next]_vars PROVE TypeOK'
  OBVIOUS
<1>1. CASE ActuatorInit
  BY <1>1 DEF ActuatorInit, CanInit, TypeOK, history
<1>2. ASSUME NEW d \in Data, Execute(d) PROVE TypeOK'
  <2>1. Len(d) \in 1..SEMS_IR_BUFFER_LEN /\ d \in Seq(Nat)
    BY <1>2, IrAssumption DEF Execute
  <2>2. d[1] \in 0..WordRange - 1 /\ (Len(d) # 1 => d[2] \in 0..WordRange - 1)
    <3>1. \A k \in 1..Len(d) : d[k] \in CarrierPeriod..WordRange - 1
      BY IrAssumption
    <3>2. 1 \in 1..Len(d) /\ (Len(d) # 1 => 2 \in 1..Len(d))
      <4>1. Len(d) \in Nat /\ Len(d) >= 1
        BY <2>1, IrAssumption
      <4>2. \A n \in Nat : n >= 1 => 1 \in 1..n /\ (n # 1 => 2 \in 1..n)
        OBVIOUS
      <4> QED BY <4>1, <4>2, Zenon
    <3> QED BY <3>1, <3>2, IrAssumption
  <2>3. CC' \in [{0, 1} -> 0..CounterRange - 1]
    <3>1. ASSUME NEW i \in {0, 1}
          PROVE  Compare(IF i = 0 \/ Len(d) = 1 THEN d[1] ELSE d[2]) \in 0..CounterRange - 1
      <4>1. (IF i = 0 \/ Len(d) = 1 THEN d[1] ELSE d[2]) \in Int
        BY <2>2, IrAssumption
      <4> QED BY <4>1, CompareType
    <3> QED BY <1>2, <3>1, Zenon DEF Execute
  <2>4. m_bits_remaining' \in 0..WordRange - 1 /\ m_integrated_time_us' \in 0..WordRange - 1
    BY <1>2, <2>1, <2>2, IrAssumption DEF Execute
  <2>5. /\ actuator' = actuator /\ EVENTS_COMPARE' = EVENTS_COMPARE /\ pin' = pin
        /\ late' = late /\ failed' = failed /\ inverted' = inverted
        /\ m_busy' = TRUE /\ signal' = d /\ next' = 2 /\ m_next_cc_for_update' = 0
        /\ counter' = 0 /\ group' = TRUE /\ carrier' = "low" /\ elapsed' = 0 /\ edges' = 0
    BY <1>2 DEF Execute
  <2> QED BY <2>3, <2>4, <2>5, IrAssumption DEF TypeOK
<1>3. ASSUME NEW d \in Data, ExecuteFails(d) PROVE TypeOK'
  BY <1>3 DEF ExecuteFails, TypeOK, hardware
<1>4. CASE LowEnds
  BY <1>4, LatenessType DEF LowEnds, TypeOK, statics, history
<1>5. CASE HighEnds
  <2>1. counter' \in 0..CounterRange - 1
    BY <1>5, IrAssumption DEF HighEnds, TypeOK
  <2>2. edges' \in Nat
    <3> DEFINE R == {i \in {0, 1} : counter' = CC[i]}
    <3>1. Cardinality(R) \in Nat
      BY ReachedType
    <3> QED BY <1>5, <3>1 DEF HighEnds, TypeOK
  <2>3. EVENTS_COMPARE' \in [{0, 1} -> BOOLEAN]
    BY <1>5, Zenon DEF HighEnds, TypeOK
  <2>4. group' \in BOOLEAN /\ pin' \in BOOLEAN
    BY <1>5 DEF HighEnds, TypeOK
  <2> QED BY <1>5, <2>1, <2>2, <2>3, <2>4, LatenessType DEF HighEnds, TypeOK, statics
<1>6. CASE Load
  <2>1. Duration(next) \in Int
    BY DurationType DEF TypeOK
  <2>2. m_integrated_time_us' \in 0..WordRange - 1
    BY <1>6, <2>1, IrAssumption DEF Load, TypeOK
  <2>3. CC' \in [{0, 1} -> 0..CounterRange - 1]
    <3>1. Compare(m_integrated_time_us') \in 0..CounterRange - 1
      BY <2>2, CompareType
    <3> QED BY <1>6, <3>1 DEF Load, TypeOK
  <2> QED BY <1>6, <2>2, <2>3, TakeEventType DEF Load, TakeEvent, TypeOK
<1>7. CASE LastEdgeToCome
  BY <1>7, TakeEventType DEF LastEdgeToCome, TakeEvent, TypeOK
<1>8. CASE Stop
  BY <1>8, TakeEventType DEF Stop, TakeEvent, TypeOK
<1>9. CASE UNCHANGED vars
  BY <1>9 DEF vars, statics, hardware, history, TypeOK
<1> QED BY <1>1, <1>2, <1>3, <1>4, <1>5, <1>6, <1>7, <1>8, <1>9 DEF Next, Handler

\* Every step keeps the actuator busy exactly while it sends.
LEMMA BusyStep == IInv /\ [Next]_vars => SilentUnlessInited' /\ BusyWhileSending'
<1> SUFFICES ASSUME IInv, [Next]_vars PROVE SilentUnlessInited' /\ BusyWhileSending'
  OBVIOUS
<1> USE DEF IInv, TypeOK, SilentUnlessInited, BusyWhileSending, Sending
<1>1. CASE ActuatorInit
  BY <1>1 DEF ActuatorInit, CanInit, history
<1>2. ASSUME NEW d \in Data, Execute(d) PROVE SilentUnlessInited' /\ BusyWhileSending'
  BY <1>2 DEF Execute, Accepts
<1>3. ASSUME NEW d \in Data, ExecuteFails(d) PROVE SilentUnlessInited' /\ BusyWhileSending'
  BY <1>3 DEF ExecuteFails, Accepts, hardware
<1>4. CASE LowEnds
  BY <1>4 DEF LowEnds, statics, history
<1>5. CASE HighEnds
  BY <1>5 DEF HighEnds, statics
<1>6. CASE Handler
  BY <1>6 DEF Handler, Load, LastEdgeToCome, Stop, TakeEvent
<1>7. CASE UNCHANGED vars
  BY <1>7 DEF vars, statics, hardware, history
<1> QED BY <1>1, <1>2, <1>3, <1>4, <1>5, <1>6, <1>7 DEF Next

\* Every step that moves the pin, the gate or the carrier keeps them together.
LEMMA PinStep == IInv /\ [Next]_vars => PinFollowsGate'
<1> SUFFICES ASSUME IInv, [Next]_vars PROVE PinFollowsGate'
  OBVIOUS
<1>1. /\ pin \in BOOLEAN /\ group \in BOOLEAN /\ inverted \in BOOLEAN
      /\ carrier \in {"stopped", "low", "high"}
  BY DEF IInv, TypeOK
<1>2. pin = ((carrier = "high" /\ group) # inverted)
  BY DEF IInv, PinFollowsGate
<1>3. CASE ActuatorInit
  BY <1>1, <1>2, <1>3 DEF IInv, SilentUnlessInited, Sending, ActuatorInit, CanInit, PinFollowsGate, history
<1>4. ASSUME NEW d \in Data, Execute(d) PROVE PinFollowsGate'
  BY <1>1, <1>2, <1>4 DEF IInv, BusyWhileSending, Sending, Execute, Accepts, PinFollowsGate
<1>5. ASSUME NEW d \in Data, ExecuteFails(d) PROVE PinFollowsGate'
  BY <1>1, <1>2, <1>5 DEF ExecuteFails, PinFollowsGate, hardware
<1>6. CASE LowEnds
  BY <1>1, <1>2, <1>6 DEF LowEnds, PinFollowsGate, history
<1>7. CASE HighEnds
  <2>1. /\ carrier = "high" /\ carrier' = "low" /\ inverted' = inverted
        /\ pin' = IF group THEN ~pin ELSE pin
    BY <1>7 DEF HighEnds
  <2> QED BY <1>1, <1>2, <2>1 DEF PinFollowsGate
<1>8. CASE Load \/ LastEdgeToCome
  BY <1>1, <1>2, <1>8 DEF Load, LastEdgeToCome, TakeEvent, PinFollowsGate
<1>9. CASE Stop
  <2>1. /\ carrier' = "stopped" /\ group' = group /\ pin' = pin
        /\ inverted' = (inverted # (carrier = "high" /\ group))
    BY <1>9 DEF Stop, TakeEvent
  <2> QED BY <1>1, <1>2, <2>1 DEF PinFollowsGate
<1>10. CASE UNCHANGED vars
  BY <1>2, <1>10 DEF vars, hardware, history, PinFollowsGate
<1> QED BY <1>3, <1>4, <1>5, <1>6, <1>7, <1>8, <1>9, <1>10 DEF Next, Handler

\* The strengthened invariant is inductive.
LEMMA Invariant == Spec => []IInv
<1>1. IInv /\ [Next]_vars => IInv'
  BY TypeStep, BusyStep, PinStep DEF IInv
<1> QED BY InitHolds, <1>1, PTL DEF Spec

\* Every variable keeps its type: a compare register holds what 16 bits can.
THEOREM IrTypeCorrect == Spec => []TypeOK
<1>1. IInv => TypeOK
  BY DEF IInv
<1> QED BY Invariant, <1>1, PTL

\* As long as every action's data could be encoded, the actuator refuses an
\* action exactly while it sends a signal, however late its handler is.
THEOREM BusyExactlyWhileSending == Spec => []BusyWhileSending
<1>1. IInv => BusyWhileSending
  BY DEF IInv
<1> QED BY Invariant, <1>1, PTL

\* The pin follows the gate and the carrier, turned over by every mark that the
\* handler cut in its high part, however often and however late.
THEOREM PinFollowsTheGate == Spec => []PinFollowsGate
<1>1. IInv => PinFollowsGate
  BY DEF IInv
<1> QED BY Invariant, <1>1, PTL

-----------------------------------------------------------------------------
(* A handler in time.                                                       *)

\* The turns the handler has taken for the signal.
Turns == Len(signal) - m_bits_remaining

\* The count of the k-th edge of the signal that is sent.
Count(k) == EdgeCount(signal, k)

\* The register of the next turn holds the next edge, the other the one after it; before the
\* last turn, the other still holds the edge before.
OtherEdge == IF Turns + 2 <= Len(signal) THEN Turns + 2 ELSE IF Len(signal) = 1 THEN 1 ELSE Turns

\* The registers, the events and the gate agree with the signal.
SendInv ==
    Sending =>
        /\ signal \in Data /\ Len(signal) \in 1..SEMS_IR_BUFFER_LEN
        /\ m_bits_remaining \in 1..Len(signal)
        /\ m_next_cc_for_update = Turns % 2
        /\ next = IF Turns + 2 <= Len(signal) THEN Turns + 2 ELSE IF Len(signal) = 1 THEN 2 ELSE Len(signal)
        /\ m_integrated_time_us = Instant(next)
        /\ counter = elapsed % CounterRange
        /\ CC[m_next_cc_for_update] = Count(Turns + 1) % CounterRange
        /\ CC[1 - m_next_cc_for_update] = Count(OtherEdge) % CounterRange
        /\ Due <=> Count(Turns + 1) <= elapsed
        /\ EVENTS_COMPARE[1 - m_next_cc_for_update] <=> OtherEdge # Turns /\ Count(OtherEdge) <= elapsed
        /\ Count(Turns) <= elapsed
        /\ Due => 2 * (elapsed - Count(Turns + 1)) + (IF carrier = "high" THEN 1 ELSE 0) <= late
        /\ edges = IF Len(signal) = 1 THEN (IF Due THEN 2 ELSE 0)
                   ELSE Turns + (IF Due THEN 1 ELSE 0)
                              + (IF EVENTS_COMPARE[1 - m_next_cc_for_update] THEN 1 ELSE 0)
        /\ edges < Len(signal) => (group <=> edges % 2 = 0)

\* After a signal of one duration, the handler has one more turn.
QuietInv ==
    ~Sending =>
        /\ next <= SEMS_IR_BUFFER_LEN
        /\ \/ ~Pending
           \/ /\ ~EVENTS_COMPARE[0] /\ m_next_cc_for_update = 1
              /\ m_bits_remaining = 0 /\ next = 2

SignalInv == SendInv /\ QuietInv

\* A larger factor, a larger product.
LEMMA ProductGrows ==
    ASSUME NEW a \in Int, NEW b \in Int, NEW n \in Nat, a <= b
    PROVE  n * a \in Int /\ n * b \in Int /\ n * a <= n * b
OBVIOUS

\* A number is its quotient and its remainder.
LEMMA Division ==
    ASSUME NEW a \in Int, NEW n \in Nat \ {0}
    PROVE  a \div n \in Int /\ a % n \in 0..n - 1 /\ a = n * (a \div n) + (a % n)
<1>1. a \div n \in Int
  OBVIOUS
<1>2. a % n \in 0..n - 1
  OBVIOUS
<1>3. a = n * (a \div n) + (a % n)
  OBVIOUS
<1> QED BY <1>1, <1>2, <1>3

\* Numbers less than a round apart are equal when their remainders are.
LEMMA SameRemainder ==
    ASSUME NEW a \in Int, NEW b \in Int, NEW n \in Nat \ {0}, a - b < n, b - a < n, a % n = b % n
    PROVE  a = b
<1> DEFINE p == a \div n
           q == b \div n
           r == a % n
<1>1. p \in Int /\ q \in Int /\ r \in Int /\ a = n * p + r /\ b = n * q + r
  BY Division
<1> HIDE DEF p, q, r
<1>2. n * p \in Int /\ n * q \in Int /\ n * p - n * q < n /\ n * q - n * p < n
  BY <1>1
<1>3. ASSUME NEW x \in Int, NEW y \in Int, n * y - n * x < n
      PROVE  ~(x + 1 <= y)
  <2> SUFFICES ASSUME x + 1 <= y PROVE FALSE
    OBVIOUS
  <2>1. n * (x + 1) \in Int /\ n * x \in Int /\ n * y \in Int /\ n * (x + 1) <= n * y
    BY ProductGrows
  <2>2. n * (x + 1) = n * x + n
    OBVIOUS
  <2> QED BY <1>3, <2>1, <2>2
<1>4. p = q
  BY <1>1, <1>2, <1>3
<1> QED BY <1>1, <1>4

\* Counting in rounds.
LEMMA NextRemainder ==
    ASSUME NEW a \in Nat, NEW n \in Nat \ {0}
    PROVE  ((a % n) + 1) % n = (a + 1) % n
<1> DEFINE r == a % n
           b == r + 1
           p == a \div n
           q == b \div n
<1>1. p \in Int /\ r \in 0..n - 1 /\ a = n * p + r
  BY Division
<1>2. b \in 1..n
  BY <1>1
<1> HIDE DEF p, r
<1>3. CASE b = n
  <2>1. a + 1 = n * (p + 1) + 0 /\ b % n = 0
    BY <1>1, <1>3
  <2> QED BY <1>1, <2>1
<1>4. CASE b < n
  <2>1. a + 1 = n * p + b /\ b % n = b
    BY <1>1, <1>2, <1>4
  <2> QED BY <1>1, <1>2, <1>4, <2>1
<1> QED BY <1>2, <1>3, <1>4 DEF b, r

\* The delay in periods.
LEMMA DelayType == MaxLate \in Nat /\ MaxLate \div 2 \in Nat /\ MaxLate <= 2 * (MaxLate \div 2) + 1
  BY IrAssumption

\* The counts of a signal that can be sent.
LEMMA CountFacts ==
    ASSUME HandlerInTime, NEW d \in Data, Len(d) \in 1..SEMS_IR_BUFFER_LEN
    PROVE  /\ Len(d) \in Nat
           /\ \A k \in 0..Len(d) : EdgeCount(d, k) \in Nat
           /\ EdgeCount(d, 0) = 0
           /\ \A k \in 1..Len(d) : EdgeCount(d, k) - EdgeCount(d, k - 1) \in 1..CounterRange - (MaxLate \div 2) - 1
           /\ \A k \in 2..Len(d) : EdgeCount(d, k) - EdgeCount(d, k - 2) \in (MaxLate \div 2) + 1..CounterRange
           /\ \A k \in 1..Len(d) : d[k] \in 0..WordRange - 1 /\ Compare(d[k]) = EdgeCount(d, k) % CounterRange
<1> DEFINE L == Len(d)
<1>1. d \in Seq(Nat) /\ L \in Nat /\ L >= 1 /\ \A k \in 1..L : d[k] \in Nat /\ d[k] < WordRange
  BY IrAssumption
<1>2. \A k \in 1..L : EdgeCount(d, k) = PulseCount(d[k]) /\ PulseCount(d[k]) \in Nat
  <2>1. ASSUME NEW t \in Nat PROVE PulseCount(t) \in Nat
    BY IrAssumption DEF PulseCount
  <2>2. \A k \in 1..L : k # 0
    BY <1>1
  <2>3. \A k \in 1..L : EdgeCount(d, k) = PulseCount(d[k])
    BY <2>2 DEF EdgeCount
  <2> QED BY <1>1, <2>1, <2>3
<1>3. EdgeCount(d, 0) = 0
  BY DEF EdgeCount
<1>4. Sendable(d)
  BY DEF HandlerInTime
<1>5. \A k \in 1..L : d[k] \in 0..WordRange - 1 /\ Compare(d[k]) = EdgeCount(d, k) % CounterRange
  <2>1. ASSUME NEW k \in 1..L PROVE d[k] \in 0..WordRange - 1
    BY <1>1, IrAssumption
  <2>2. ASSUME NEW k \in 1..L PROVE Compare(d[k]) = EdgeCount(d, k) % CounterRange
    BY <1>2 DEF Compare
  <2> QED BY <2>1, <2>2
<1>6. \A k \in 0..L : EdgeCount(d, k) \in Nat
  BY <1>1, <1>2, <1>3
<1>7. /\ \A k \in 1..L : EdgeCount(d, k) - EdgeCount(d, k - 1) \in 1..CounterRange - (MaxLate \div 2) - 1
      /\ \A k \in 2..L : EdgeCount(d, k) - EdgeCount(d, k - 2) \in (MaxLate \div 2) + 1..CounterRange
  BY <1>4 DEF Sendable
<1> QED BY <1>1, <1>3, <1>5, <1>6, <1>7

\* The instants of a signal, and the one after its end.
LEMMA InstantFacts ==
    ASSUME TypeOK, Len(signal) \in 1..SEMS_IR_BUFFER_LEN
    PROVE  /\ \A k \in 1..Len(signal) : Instant(k) = signal[k]
           /\ Len(signal) = 1 => Instant(2) = signal[1]
<1>1. signal \in Seq(Nat) /\ signal # <<>> /\ Len(signal) \in Nat
  BY IrAssumption DEF TypeOK
<1> QED BY <1>1 DEF Instant

\* Where the two registers, the counter and the delay stand while a signal is sent.
LEMMA Standing ==
    ASSUME TypeOK, HandlerInTime, SendInv, Sending
    PROVE  LET L == Len(signal)
               h == Turns
               delay == MaxLate \div 2
           IN  /\ signal \in Data /\ L \in 1..SEMS_IR_BUFFER_LEN /\ h \in 0..L - 1 /\ m_bits_remaining = L - h
               /\ delay \in Nat /\ elapsed \in Nat /\ CounterRange \in Nat \ {0}
               /\ Count(h) \in Nat /\ Count(h + 1) \in Nat /\ Count(OtherEdge) \in Nat
               /\ Count(h) <= elapsed /\ Count(h) < Count(h + 1) /\ Count(h + 1) - Count(h) + delay < CounterRange
               /\ Due => Count(h + 1) <= elapsed /\ elapsed - Count(h + 1) <= delay
               /\ ~Due => elapsed < Count(h + 1)
               /\ \/ /\ h + 2 <= L /\ OtherEdge = h + 2 /\ Count(h + 1) < Count(h + 2)
                     /\ delay < Count(h + 2) - Count(h) /\ Count(h + 2) - Count(h) <= CounterRange
                  \/ L = 1 /\ h = 0 /\ OtherEdge = 1
                  \/ L > 1 /\ h = L - 1 /\ OtherEdge = h
<1> DEFINE L == Len(signal)
           h == Turns
           delay == MaxLate \div 2
<1>1. /\ signal \in Data /\ L \in 1..SEMS_IR_BUFFER_LEN /\ m_bits_remaining \in 1..L
      /\ Count(h) <= elapsed /\ (Due <=> Count(h + 1) <= elapsed)
      /\ Due => 2 * (elapsed - Count(h + 1)) + (IF carrier = "high" THEN 1 ELSE 0) <= late
  BY DEF SendInv
<1>2. L \in Nat /\ h \in 0..L - 1 /\ m_bits_remaining = L - h
  BY <1>1, CountFacts DEF Turns
<1>3. /\ delay \in Nat /\ MaxLate <= 2 * delay + 1 /\ elapsed \in Nat /\ CounterRange \in Nat \ {0}
      /\ late \in Nat /\ MaxLate \in Nat /\ late <= MaxLate
  BY IrAssumption DEF TypeOK
<1>4. /\ \A k \in 0..L : Count(k) \in Nat
      /\ \A k \in 1..L : Count(k) - Count(k - 1) \in 1..CounterRange - delay - 1
      /\ \A k \in 2..L : Count(k) - Count(k - 2) \in delay + 1..CounterRange
  BY <1>1, CountFacts DEF Count
<1> HIDE DEF L, h, delay
<1>5. /\ Count(h) \in Nat /\ Count(h + 1) \in Nat
      /\ Count(h) < Count(h + 1) /\ Count(h + 1) - Count(h) + delay < CounterRange
  <2>1. h \in 0..L /\ h + 1 \in 0..L /\ h + 1 \in 1..L /\ (h + 1) - 1 = h
    BY <1>2
  <2>2. Count(h + 1) - Count(h) \in 1..CounterRange - delay - 1
    BY <1>4, <2>1
  <2> QED BY <1>3, <1>4, <2>1, <2>2
<1>6. Due => Count(h + 1) <= elapsed /\ elapsed - Count(h + 1) <= delay
  <2> SUFFICES ASSUME Due PROVE Count(h + 1) <= elapsed /\ elapsed - Count(h + 1) <= delay
    OBVIOUS
  <2> DEFINE A == Count(h + 1)
             half == IF carrier = "high" THEN 1 ELSE 0
  <2>1. A <= elapsed /\ A \in Nat /\ half \in Nat /\ 2 * (elapsed - A) + half <= late
    BY <1>1, <1>5
  <2> HIDE DEF A, half
  <2>2. A <= elapsed /\ elapsed - A <= delay
    BY <1>3, <2>1
  <2> QED BY <2>2 DEF A
<1>7. ~Due => elapsed < Count(h + 1)
  BY <1>1, <1>3, <1>5
<1>8. CASE h + 2 <= L
  <2>1. h + 2 \in 0..L /\ h + 2 \in 1..L /\ h + 2 \in 2..L /\ (h + 2) - 1 = h + 1 /\ (h + 2) - 2 = h
    BY <1>2, <1>8
  <2>2. /\ Count(h + 2) \in Nat /\ Count(h + 2) - Count(h + 1) \in 1..CounterRange - delay - 1
        /\ Count(h + 2) - Count(h) \in delay + 1..CounterRange
    BY <1>4, <2>1
  <2>3. OtherEdge = h + 2
    BY <1>8 DEF OtherEdge, h, L
  <2>4. /\ Count(OtherEdge) \in Nat /\ Count(h + 1) < Count(h + 2)
        /\ delay < Count(h + 2) - Count(h) /\ Count(h + 2) - Count(h) <= CounterRange
    <3>1. Count(OtherEdge) = Count(h + 2)
      BY <2>3
    <3> QED BY <1>3, <1>5, <2>2, <3>1
  <2> QED BY <1>1, <1>2, <1>3, <1>5, <1>6, <1>7, <1>8, <2>3, <2>4, Zenon DEF L, h, delay
<1>9. CASE h + 2 > L /\ L = 1
  <2>1. h = 0 /\ OtherEdge = 1
    BY <1>2, <1>9 DEF OtherEdge, h, L
  <2> QED BY <1>1, <1>2, <1>3, <1>5, <1>6, <1>7, <1>9, <2>1 DEF L, h, delay
<1>10. CASE h + 2 > L /\ L > 1
  <2>1. h = L - 1
    BY <1>2, <1>10
  <2>2. OtherEdge = h
    BY <1>2, <1>10 DEF OtherEdge, h, L
  <2> QED BY <1>1, <1>2, <1>3, <1>5, <1>6, <1>7, <1>10, <2>1, <2>2 DEF L, h, delay
<1> QED BY <1>2, <1>8, <1>9, <1>10

\* An actuator that was never used.
LEMMA InitSignal == Init => SignalInv
  BY IrAssumption DEF Init, SignalInv, SendInv, QuietInv, Sending, Pending

\* A signal begins.
LEMMA ExecuteSignal ==
    ASSUME TypeOK, HandlerInTime, SignalInv, NEW d \in Data, Execute(d)
    PROVE  SignalInv'
<1> DEFINE L == Len(d)
<1>1. /\ L \in 1..SEMS_IR_BUFFER_LEN /\ signal' = d /\ next' = 2 /\ m_bits_remaining' = L
      /\ m_integrated_time_us' = IF L = 1 THEN d[1] ELSE d[2]
      /\ CC' = [i \in {0, 1} |-> Compare(IF i = 0 \/ L = 1 THEN d[1] ELSE d[2])]
      /\ m_next_cc_for_update' = 0 /\ group' = TRUE /\ counter' = 0 /\ elapsed' = 0 /\ edges' = 0
      /\ carrier' = "low" /\ EVENTS_COMPARE' = EVENTS_COMPARE /\ ~Pending
  BY DEF Execute, Accepts
<1>2. /\ L \in Nat /\ d \in Seq(Nat) /\ d # <<>>
      /\ EdgeCount(d, 0) = 0 /\ EdgeCount(d, 1) \in Nat /\ EdgeCount(d, 1) >= 1
      /\ Compare(d[1]) = EdgeCount(d, 1) % CounterRange
      /\ L > 1 => /\ EdgeCount(d, 2) \in Nat /\ EdgeCount(d, 2) >= 1
                  /\ Compare(d[2]) = EdgeCount(d, 2) % CounterRange
  <2>1. L \in Nat /\ L >= 1 /\ d \in Seq(Nat)
    BY <1>1, IrAssumption
  <2>2. /\ EdgeCount(d, 0) = 0 /\ EdgeCount(d, 1) \in Nat
        /\ EdgeCount(d, 1) - EdgeCount(d, 0) \in 1..CounterRange - (MaxLate \div 2) - 1
        /\ Compare(d[1]) = EdgeCount(d, 1) % CounterRange
    <3>1. 1 \in 0..L /\ 1 \in 1..L /\ 1 - 1 = 0
      BY <2>1
    <3> HIDE DEF L
    <3> QED BY <1>1, <3>1, CountFacts DEF L
  <2>3. ASSUME L > 1
        PROVE  /\ EdgeCount(d, 2) \in Nat /\ EdgeCount(d, 2) - EdgeCount(d, 1) \in 1..CounterRange - (MaxLate \div 2) - 1
               /\ Compare(d[2]) = EdgeCount(d, 2) % CounterRange
    <3>1. 2 \in 0..L /\ 2 \in 1..L /\ 2 - 1 = 1
      BY <2>1, <2>3
    <3> HIDE DEF L
    <3> QED BY <1>1, <3>1, CountFacts DEF L
  <2> QED BY <2>1, <2>2, <2>3
<1>3. /\ Turns' = 0 /\ Count(Turns)' = 0 /\ Count(Turns + 1)' = EdgeCount(d, 1)
      /\ OtherEdge' = IF L = 1 THEN 1 ELSE 2
      /\ Count(OtherEdge)' = EdgeCount(d, IF L = 1 THEN 1 ELSE 2)
  <2>1. Turns' = 0
    BY <1>1, <1>2 DEF Turns
  <2>2. OtherEdge' = IF L = 1 THEN 1 ELSE 2
    BY <1>1, <1>2, <2>1 DEF OtherEdge
  <2> QED BY <1>1, <1>2, <2>1, <2>2 DEF Count
<1>4. Sending' /\ ~Due' /\ \A i \in {0, 1} : ~EVENTS_COMPARE'[i]
  BY <1>1 DEF Sending, Due, Pending
<1>5. m_integrated_time_us' = Instant(2)'
  BY <1>1, <1>2 DEF Instant
<1>6. /\ CC'[0] = EdgeCount(d, 1) % CounterRange
      /\ CC'[1] = EdgeCount(d, IF L = 1 THEN 1 ELSE 2) % CounterRange
  BY <1>1, <1>2
<1>7. 0 = 0 % CounterRange
  BY IrAssumption
<1>8. SendInv'
  <2> HIDE DEF L
  <2>1. signal' \in Data /\ Len(signal') \in 1..SEMS_IR_BUFFER_LEN /\ m_bits_remaining' \in 1..Len(signal')
    BY <1>1, <1>2 DEF L
  <2>2. m_next_cc_for_update' = Turns' % 2 /\ m_integrated_time_us' = Instant(next)'
    BY <1>1, <1>3, <1>5 DEF Instant
  <2>3. next' = IF Turns' + 2 <= Len(signal') THEN Turns' + 2 ELSE IF Len(signal') = 1 THEN 2 ELSE Len(signal')
    BY <1>1, <1>2, <1>3 DEF L
  <2>4. /\ counter' = elapsed' % CounterRange
        /\ CC'[m_next_cc_for_update'] = Count(Turns + 1)' % CounterRange
        /\ CC'[1 - m_next_cc_for_update'] = Count(OtherEdge)' % CounterRange
    BY <1>1, <1>3, <1>6, <1>7
  <2>5. /\ ~(Count(Turns + 1)' <= elapsed') /\ ~(Count(OtherEdge)' <= elapsed') /\ Count(Turns)' <= elapsed'
        /\ ~EVENTS_COMPARE'[1 - m_next_cc_for_update'] /\ edges' = 0 /\ (group' <=> edges' % 2 = 0)
    BY <1>1, <1>2, <1>3, <1>4 DEF L
  <2> QED BY <1>3, <1>4, <2>1, <2>2, <2>3, <2>4, <2>5 DEF SendInv
<1> QED BY <1>4, <1>8 DEF SignalInv, QuietInv

\* The counts stay with the signal.
LEMMA SameSignal ==
    ASSUME signal' = signal
    PROVE  /\ \A k : Instant(k)' = Instant(k)
           /\ \A k : Duration(k)' = Duration(k)
           /\ m_bits_remaining' = m_bits_remaining =>
                /\ Turns' = Turns /\ OtherEdge' = OtherEdge
                /\ Count(Turns)' = Count(Turns) /\ Count(Turns + 1)' = Count(Turns + 1)
                /\ Count(OtherEdge)' = Count(OtherEdge)
<1>1. \A k : Instant(k)' = Instant(k)
  BY DEF Instant
<1>2. \A k : Duration(k)' = Duration(k)
  BY <1>1 DEF Duration
<1>3. m_bits_remaining' = m_bits_remaining => Turns' = Turns /\ OtherEdge' = OtherEdge
  BY DEF Turns, OtherEdge
<1> QED BY <1>1, <1>2, <1>3 DEF Count

\* Half a period goes by.
LEMMA LowSignal ==
    ASSUME TypeOK, HandlerInTime, SignalInv, LowEnds
    PROVE  SignalInv'
<1>1. /\ carrier = "low" /\ carrier' = "high" /\ late' = IF Due THEN late + 1 ELSE 0
      /\ UNCHANGED <<signal, next, m_bits_remaining, m_integrated_time_us, m_next_cc_for_update,
                     CC, EVENTS_COMPARE, counter, group, elapsed, edges>>
  BY DEF LowEnds, Lateness, statics, history
<1>2. Sending /\ Sending' /\ Due' = Due
  BY <1>1 DEF Sending, Due
<1>3. /\ Turns' = Turns /\ OtherEdge' = OtherEdge /\ \A k : Instant(k)' = Instant(k)
      /\ Count(Turns)' = Count(Turns) /\ Count(Turns + 1)' = Count(Turns + 1)
      /\ Count(OtherEdge)' = Count(OtherEdge)
  BY <1>1, SameSignal
<1>4. Due => 2 * (elapsed' - Count(Turns + 1)') + (IF carrier' = "high" THEN 1 ELSE 0) <= late'
  <2> SUFFICES ASSUME Due PROVE 2 * (elapsed - Count(Turns + 1)) + 1 <= late + 1
    BY <1>1, <1>3
  <2>1. 2 * (elapsed - Count(Turns + 1)) + 0 <= late
    BY <1>1, <1>2 DEF SignalInv, SendInv
  <2>2. elapsed \in Nat /\ late \in Nat /\ Count(Turns + 1) \in Nat
    BY <1>2, Standing DEF TypeOK, SignalInv
  <2> QED BY <2>1, <2>2
<1>5. SendInv'
  BY <1>1, <1>2, <1>3, <1>4 DEF SignalInv, SendInv
<1> QED BY <1>2, <1>5 DEF SignalInv, QuietInv

\* How many registers are reached at once.
LEMMA ReachedCount ==
    ASSUME NEW R \in SUBSET {0, 1}
    PROVE  Cardinality(R) = (IF 0 \in R THEN 1 ELSE 0) + (IF 1 \in R THEN 1 ELSE 0)
<1>1. Cardinality({}) = 0 /\ IsFiniteSet({})
  BY FS_EmptySet
<1>2. Cardinality({0}) = 1 /\ Cardinality({1}) = 1 /\ IsFiniteSet({0})
  BY FS_Singleton
<1>3. Cardinality({0} \cup {1}) = 2
  BY <1>2, FS_AddElement
<1>4. CASE 0 \in R /\ 1 \in R
  <2>1. R = {0} \cup {1}
    BY <1>4
  <2> QED BY <1>3, <1>4, <2>1
<1>5. CASE 0 \in R /\ 1 \notin R
  <2>1. R = {0}
    BY <1>5
  <2> QED BY <1>2, <1>5, <2>1
<1>6. CASE 0 \notin R /\ 1 \in R
  <2>1. R = {1}
    BY <1>6
  <2> QED BY <1>2, <1>6, <2>1
<1>7. CASE 0 \notin R /\ 1 \notin R
  <2>1. R = {}
    BY <1>7
  <2> QED BY <1>1, <1>7, <2>1
<1> QED BY <1>4, <1>5, <1>6, <1>7

\* A period goes by: a register is reached when, and only when, its edge is due.
LEMMA HighSignal ==
    ASSUME TypeOK, HandlerInTime, SignalInv, HighEnds
    PROVE  SignalInv'
<1> DEFINE L == Len(signal)
           h == Turns
           n == m_next_cc_for_update
           A == Count(h + 1)
           B == Count(OtherEdge)
           e == elapsed
           delay == MaxLate \div 2
           reached == {i \in {0, 1} : counter' = CC[i]}
<1>1. /\ carrier = "high" /\ carrier' = "low" /\ late' = (IF Due THEN late + 1 ELSE 0) /\ (Due => late < MaxLate)
      /\ counter' = (counter + 1) % CounterRange /\ elapsed' = e + 1
      /\ EVENTS_COMPARE' = [i \in {0, 1} |-> EVENTS_COMPARE[i] \/ counter' = CC[i]]
      /\ edges' = edges + Cardinality(reached)
      /\ \/ \E i \in {0, 1} : counter' = CC[i] /\ group' = (i = 1)
         \/ (\A i \in {0, 1} : counter' # CC[i]) /\ group' = group
      /\ UNCHANGED <<signal, next, m_bits_remaining, m_integrated_time_us, m_next_cc_for_update, CC>>
  BY DEF HighEnds, Lateness, InTime, statics
<1>2. Sending /\ Sending' /\ SendInv
  BY <1>1 DEF Sending, SignalInv
<1>3. /\ Turns' = h /\ OtherEdge' = OtherEdge /\ \A k : Instant(k)' = Instant(k)
      /\ Count(Turns)' = Count(h) /\ Count(Turns + 1)' = A /\ Count(OtherEdge)' = B
  BY <1>1, SameSignal
<1>4. /\ L \in Nat \ {0} /\ h \in 0..L - 1 /\ delay \in Nat /\ e \in Nat /\ CounterRange \in Nat \ {0}
      /\ Count(h) \in Nat /\ A \in Nat /\ B \in Nat
      /\ Count(h) <= e /\ Count(h) < A /\ A - Count(h) + delay < CounterRange
      /\ Due => A <= e /\ e - A <= delay
      /\ ~Due => e < A
  <2> HIDE DEF L, h, A, B, e, delay
  <2> QED BY <1>2, Standing, CountFacts DEF L, h, A, B, e, delay
<1>5. \/ /\ h + 2 <= L /\ OtherEdge = h + 2 /\ A < B /\ delay < B - Count(h) /\ B - Count(h) <= CounterRange
      \/ L = 1 /\ h = 0 /\ OtherEdge = 1 /\ B = A
      \/ L > 1 /\ h = L - 1 /\ OtherEdge = h /\ B = Count(h)
  BY <1>2, Standing
<1>6. /\ n = h % 2 /\ n \in {0, 1} /\ 1 - n \in {0, 1} /\ counter = e % CounterRange
      /\ CC[n] = A % CounterRange /\ CC[1 - n] = B % CounterRange
      /\ (EVENTS_COMPARE[n] <=> A <= e) /\ (EVENTS_COMPARE[1 - n] <=> OtherEdge # h /\ B <= e)
      /\ (Due => 2 * (e - A) + 1 <= late)
      /\ edges = IF L = 1 THEN (IF Due THEN 2 ELSE 0)
                 ELSE h + (IF Due THEN 1 ELSE 0) + (IF EVENTS_COMPARE[1 - n] THEN 1 ELSE 0)
      /\ (edges < L => (group <=> edges % 2 = 0))
  BY <1>1, <1>2 DEF SendInv, TypeOK, Due
<1>7. (Due <=> A <= e) /\ late \in Nat /\ MaxLate \in Nat /\ MaxLate <= 2 * delay + 1
  <2>1. Due <=> A <= e
    BY <1>6, Zenon DEF Due
  <2>2. late \in Nat
    BY DelayType DEF TypeOK
  <2>3. MaxLate \in Nat /\ MaxLate <= 2 * delay + 1
    BY DelayType
  <2> QED BY <2>1, <2>2, <2>3, Zenon
<1> HIDE DEF L, h, n, A, B, e, delay
<1>8. counter' = (e + 1) % CounterRange
  BY <1>1, <1>4, <1>6, NextRemainder
<1>9. e + 1 - A <= delay /\ e + 1 - A < CounterRange /\ A - (e + 1) < CounterRange
  <2>1. Due => 2 * (e - A) + 1 < MaxLate
    <3>1. Due => late < MaxLate /\ 2 * (e - A) + 1 <= late
      BY <1>1, <1>6
    <3> QED BY <1>4, <1>7, <3>1
  <2>2. Due => e + 1 - A <= delay
    BY <1>4, <1>7, <2>1
  <2> QED BY <1>4, <1>7, <2>2
<1>10. e + 1 - B < CounterRange /\ B - (e + 1) < CounterRange
  BY <1>4, <1>5, <1>9
<1>11. (counter' = CC[n] <=> A = e + 1) /\ (counter' = CC[1 - n] <=> B = e + 1)
  <2> DEFINE x == e + 1
  <2>1. x \in Int /\ A \in Int /\ B \in Int /\ x - A < CounterRange /\ A - x < CounterRange /\ x - B < CounterRange /\ B - x < CounterRange
    BY <1>4, <1>9, <1>10
  <2>2. counter' = x % CounterRange
    BY <1>8
  <2> HIDE DEF x
  <2>3. x % CounterRange = A % CounterRange => A = x
    BY <1>4, <2>1, SameRemainder, Zenon
  <2>4. x % CounterRange = B % CounterRange => B = x
    BY <1>4, <2>1, SameRemainder, Zenon
  <2>5. (counter' = CC[n] <=> A = x) /\ (counter' = CC[1 - n] <=> B = x)
    BY <1>6, <2>2, <2>3, <2>4
  <2> QED BY <2>5 DEF x
<1>12. /\ EVENTS_COMPARE'[n] <=> A <= e + 1
       /\ EVENTS_COMPARE'[1 - n] <=> OtherEdge # h /\ B <= e + 1
  <2>1. /\ EVENTS_COMPARE'[n] <=> EVENTS_COMPARE[n] \/ A = e + 1
        /\ EVENTS_COMPARE'[1 - n] <=> EVENTS_COMPARE[1 - n] \/ B = e + 1
    BY <1>1, <1>6, <1>11
  <2> QED BY <1>4, <1>5, <1>6, <2>1
<1>13. Cardinality(reached) = (IF A = e + 1 THEN 1 ELSE 0) + (IF B = e + 1 THEN 1 ELSE 0)
  <2>1. (n \in reached <=> A = e + 1) /\ (1 - n \in reached <=> B = e + 1)
    BY <1>6, <1>11
  <2>2. reached \in SUBSET {0, 1}
    OBVIOUS
  <2> HIDE DEF reached
  <2>3. Cardinality(reached) = (IF 0 \in reached THEN 1 ELSE 0) + (IF 1 \in reached THEN 1 ELSE 0)
    BY <2>2, ReachedCount
  <2> QED BY <1>6, <2>1, <2>3
<1>14. edges' = edges + (IF A = e + 1 THEN 1 ELSE 0) + (IF B = e + 1 THEN 1 ELSE 0) /\ edges \in Nat
  <2>1. edges \in Nat /\ edges' = edges + Cardinality(reached)
    BY <1>1 DEF TypeOK
  <2> HIDE DEF reached
  <2> QED BY <1>13, <2>1
<1>15. edges' = IF L = 1 THEN (IF A <= e + 1 THEN 2 ELSE 0)
                ELSE h + (IF A <= e + 1 THEN 1 ELSE 0) + (IF OtherEdge # h /\ B <= e + 1 THEN 1 ELSE 0)
  <2>1. edges = IF L = 1 THEN (IF A <= e THEN 2 ELSE 0)
                ELSE h + (IF A <= e THEN 1 ELSE 0) + (IF OtherEdge # h /\ B <= e THEN 1 ELSE 0)
    BY <1>6, <1>7
  <2> HIDE DEF reached
  <2>2. CASE L = 1
    BY <1>4, <1>5, <1>14, <2>1, <2>2
  <2>3. CASE L > 1
    BY <1>4, <1>5, <1>14, <2>1, <2>3
  <2> QED BY <1>4, <2>2, <2>3
<1>16. edges' < L => (group' <=> edges' % 2 = 0)
  <2> SUFFICES ASSUME edges' < L PROVE group' <=> edges' % 2 = 0
    OBVIOUS
  <2>1. CASE A # e + 1 /\ B # e + 1
    <3>1. \A i \in {0, 1} : counter' # CC[i]
      BY <1>6, <1>11, <2>1
    <3>2. group' = group
      BY <1>1, <3>1
    <3>3. edges' = edges
      BY <1>14, <2>1
    <3> QED BY <1>6, <3>2, <3>3
  <2>2. CASE A = e + 1
    <3>1. B # A /\ L > 1
      BY <1>4, <1>5, <1>15, <2>2
    <3>2. group' <=> n = 1
      <4>1. \A i \in {0, 1} : counter' = CC[i] => i = n
        BY <1>6, <1>11, <2>2, <3>1
      <4>2. counter' = CC[n]
        BY <1>11, <2>2
      <4> QED BY <1>1, <1>6, <4>1, <4>2
    <3>3. edges' = h + 1
      BY <1>4, <1>5, <1>15, <2>2, <3>1
    <3>4. n = h % 2
      BY <1>6
    <3> QED BY <1>4, <3>2, <3>3, <3>4
  <2>3. CASE B = e + 1 /\ A # e + 1
    <3>1. h + 2 <= L /\ OtherEdge = h + 2 /\ A < B
      BY <1>4, <1>5, <2>3
    <3>2. group' <=> 1 - n = 1
      <4>1. \A i \in {0, 1} : counter' = CC[i] => i = 1 - n
        BY <1>6, <1>11, <2>3
      <4>2. counter' = CC[1 - n]
        BY <1>11, <2>3
      <4> QED BY <1>1, <1>6, <4>1, <4>2
    <3>3. edges' = h + 2
      BY <1>4, <1>15, <2>3, <3>1
    <3>4. n = h % 2 /\ n \in {0, 1}
      BY <1>6
    <3> QED BY <1>4, <3>2, <3>3, <3>4
  <2> QED BY <2>1, <2>2, <2>3
<1>17. Due' => 2 * (elapsed' - A) + 0 <= late'
  <2>1. Due' <=> A <= e + 1
    BY <1>1, <1>12, Zenon DEF Due, n
  <2>2. late' = (IF Due THEN late + 1 ELSE 0) /\ elapsed' = e + 1
    BY <1>1
  <2>3. CASE Due
    BY <1>4, <1>6, <1>7, <2>2, <2>3
  <2>4. CASE ~Due
    BY <1>4, <2>1, <2>2, <2>4
  <2> QED BY <2>3, <2>4
<1>18. SendInv'
  <2>1. Due' <=> A <= e + 1
    BY <1>1, <1>12, Zenon DEF Due, n
  <2>2. /\ EVENTS_COMPARE'[1 - m_next_cc_for_update'] <=> OtherEdge # h /\ B <= e + 1
        /\ elapsed' = e + 1 /\ Count(h) <= e + 1 /\ counter' = (e + 1) % CounterRange
    BY <1>1, <1>4, <1>8, <1>12 DEF n
  <2>3. /\ signal' \in Data /\ Len(signal') \in 1..SEMS_IR_BUFFER_LEN /\ m_bits_remaining' \in 1..Len(signal')
        /\ m_next_cc_for_update' = Turns' % 2
        /\ next' = IF Turns' + 2 <= Len(signal') THEN Turns' + 2 ELSE IF Len(signal') = 1 THEN 2 ELSE Len(signal')
        /\ CC'[m_next_cc_for_update'] = A % CounterRange
        /\ CC'[1 - m_next_cc_for_update'] = B % CounterRange
    BY <1>1, <1>2, <1>3 DEF SendInv, A, B, h
  <2>4. m_integrated_time_us' = Instant(next)'
    BY <1>1, <1>2, <1>3 DEF SendInv
  <2>5. edges' = IF Len(signal') = 1 THEN (IF Due' THEN 2 ELSE 0)
                 ELSE Turns' + (IF Due' THEN 1 ELSE 0)
                             + (IF EVENTS_COMPARE'[1 - m_next_cc_for_update'] THEN 1 ELSE 0)
    BY <1>1, <1>3, <1>15, <2>1, <2>2 DEF L
  <2>6. edges' < Len(signal') => (group' <=> edges' % 2 = 0)
    BY <1>1, <1>16 DEF L
  <2>7. Due' => 2 * (elapsed' - Count(Turns + 1)') + (IF carrier' = "high" THEN 1 ELSE 0) <= late'
    BY <1>1, <1>3, <1>17
  <2> HIDE DEF reached
  <2> QED BY <1>3, <2>1, <2>2, <2>3, <2>4, <2>5, <2>6, <2>7 DEF SendInv
<1> QED BY <1>2, <1>18 DEF SignalInv, QuietInv

\* A turn of the handler for the signal: the next register is the other one.
LEMMA TurnOfSignal ==
    ASSUME TypeOK, HandlerInTime, SignalInv, Sending, TakeEvent
    PROVE  LET L == Len(signal)
               h == Turns
               n == m_next_cc_for_update
           IN  /\ m_bits_remaining' = m_bits_remaining - 1 /\ signal' = signal /\ Turns' = h + 1
               /\ L \in 1..SEMS_IR_BUFFER_LEN /\ h \in 0..L - 1 /\ m_bits_remaining = L - h
               /\ n \in {0, 1} /\ n = h % 2 /\ m_next_cc_for_update' = 1 - n /\ 1 - n = (h + 1) % 2
               /\ EVENTS_COMPARE'[n] = FALSE /\ EVENTS_COMPARE'[1 - n] = EVENTS_COMPARE[1 - n]
               /\ Count(h + 1) <= elapsed
<1> DEFINE L == Len(signal)
           h == Turns
           n == m_next_cc_for_update
<1>1. /\ L \in 1..SEMS_IR_BUFFER_LEN /\ h \in 0..L - 1 /\ m_bits_remaining = L - h
      /\ Due => Count(h + 1) <= elapsed
  BY Standing DEF SignalInv
<1>2. L \in Nat
  BY <1>1, CountFacts, Standing DEF SignalInv
<1>3. n \in {0, 1} /\ n = h % 2
  BY DEF SignalInv, SendInv, TypeOK
<1>4. m_bits_remaining' = m_bits_remaining - 1 /\ signal' = signal
  <2>1. m_bits_remaining - 1 \in 0..WordRange - 1 /\ m_bits_remaining' = (m_bits_remaining - 1) % WordRange
    <3>1. m_bits_remaining' = (m_bits_remaining - 1) % WordRange
      BY DEF TakeEvent
    <3>2. m_bits_remaining \in 0..WordRange - 1 /\ WordRange \in Nat
      BY IrAssumption DEF TypeOK
    <3>3. m_bits_remaining >= 1
      BY <1>1, <1>2
    <3> QED BY <3>1, <3>2, <3>3
  <2>2. \A x \in 0..WordRange - 1 : x % WordRange = x
    BY IrAssumption
  <2> QED BY <2>1, <2>2 DEF TakeEvent
<1>5. Turns' = h + 1
  BY <1>1, <1>2, <1>4 DEF Turns
<1>6. 1 - n = (h + 1) % 2
  BY <1>1, <1>2, <1>3
<1>7. /\ Due /\ m_next_cc_for_update' = 1 - n
      /\ EVENTS_COMPARE'[n] = FALSE /\ EVENTS_COMPARE'[1 - n] = EVENTS_COMPARE[1 - n]
  <2>1. /\ Due /\ m_next_cc_for_update' = 1 - n
        /\ EVENTS_COMPARE' = [EVENTS_COMPARE EXCEPT ![n] = FALSE]
    BY DEF TakeEvent
  <2>2. EVENTS_COMPARE \in [{0, 1} -> BOOLEAN] /\ 1 - n \in {0, 1} /\ n # 1 - n
    BY <1>3 DEF TypeOK
  <2> QED BY <1>3, <2>1, <2>2
<1> QED BY <1>1, <1>3, <1>4, <1>5, <1>6, <1>7

\* A duration is loaded before its edge, and after the edge of the register it is loaded in.
LEMMA LoadSignal ==
    ASSUME TypeOK, HandlerInTime, SignalInv, Sending, Load
    PROVE  SignalInv'
<1> DEFINE L == Len(signal)
           h == Turns
           n == m_next_cc_for_update
           e == elapsed
<1>1. TakeEvent /\ SendInv
  BY DEF Load, SignalInv
<1>2. /\ m_bits_remaining' = m_bits_remaining - 1 /\ signal' = signal /\ Turns' = h + 1
      /\ L \in 1..SEMS_IR_BUFFER_LEN /\ h \in 0..L - 1 /\ m_bits_remaining = L - h
      /\ n \in {0, 1} /\ n = h % 2 /\ m_next_cc_for_update' = 1 - n /\ 1 - n = (h + 1) % 2
      /\ EVENTS_COMPARE'[n] = FALSE /\ EVENTS_COMPARE'[1 - n] = EVENTS_COMPARE[1 - n]
      /\ Count(h + 1) <= e
  BY <1>1, TurnOfSignal
<1>3. /\ m_bits_remaining' >= 2 /\ next' = next + 1
      /\ m_integrated_time_us' = (m_integrated_time_us + Duration(next)) % WordRange
      /\ CC' = [CC EXCEPT ![n] = Compare(m_integrated_time_us')]
      /\ carrier' = carrier /\ elapsed' = e /\ counter' = counter /\ group' = group /\ edges' = edges
      /\ late' = IF EVENTS_COMPARE[1 - n] THEN late ELSE 0
  BY DEF Load, TakeEvent
<1>4. L \in Nat /\ h + 3 <= L /\ signal \in Data
  <2>1. L \in Nat /\ signal \in Data
    BY <1>1, <1>2, CountFacts DEF SendInv
  <2> QED BY <1>2, <1>3, <2>1
<1>5. /\ OtherEdge = h + 2 /\ OtherEdge' = h + 3 /\ next = h + 2 /\ next' = h + 3
      /\ m_integrated_time_us = Instant(h + 2)
  <2>1. OtherEdge = h + 2
    BY <1>2, <1>4 DEF OtherEdge
  <2>2. next = h + 2
    BY <1>1, <1>2, <1>4 DEF SendInv
  <2>3. OtherEdge' = h + 3
    BY <1>2, <1>4 DEF OtherEdge
  <2>4. next' = h + 3
    BY <1>2, <1>3, <1>4, <2>2
  <2> QED BY <1>1, <2>1, <2>2, <2>3, <2>4 DEF SendInv
<1>6. /\ m_integrated_time_us' = Instant(h + 3) /\ signal[h + 3] \in 0..WordRange - 1
      /\ Instant(h + 3) = signal[h + 3] /\ Compare(signal[h + 3]) = Count(h + 3) % CounterRange
  <2>1. h + 2 \in 1..L /\ h + 3 \in 1..L /\ (h + 2) + 1 = h + 3
    BY <1>2, <1>4
  <2>2. /\ Instant(h + 2) = signal[h + 2] /\ Instant(h + 3) = signal[h + 3]
        /\ signal[h + 2] \in 0..WordRange - 1 /\ signal[h + 3] \in 0..WordRange - 1
        /\ Compare(signal[h + 3]) = Count(h + 3) % CounterRange
    BY <1>2, <1>4, <2>1, InstantFacts, CountFacts DEF Count
  <2>3. Duration(next) = signal[h + 3] - signal[h + 2]
    BY <1>5, <2>1, <2>2 DEF Duration
  <2> DEFINE t == signal[h + 2]
             u == signal[h + 3]
  <2>4. t \in 0..WordRange - 1 /\ u \in 0..WordRange - 1 /\ m_integrated_time_us' = (t + (u - t)) % WordRange
    BY <1>3, <1>5, <2>2, <2>3
  <2> HIDE DEF t, u
  <2>5. m_integrated_time_us' = u
    BY <2>4, IrAssumption
  <2> QED BY <2>2, <2>5 DEF u
<1>7. Count(h + 1) \in Nat /\ Count(h + 2) \in Nat /\ Count(h + 3) \in Nat /\ e \in Nat /\ e < Count(h + 3)
  <2>1. h + 1 \in 0..L /\ h + 2 \in 0..L /\ h + 3 \in 0..L /\ h + 3 \in 2..L /\ (h + 3) - 2 = h + 1
    BY <1>2, <1>4
  <2>2. /\ Count(h + 1) \in Nat /\ Count(h + 2) \in Nat /\ Count(h + 3) \in Nat
        /\ Count(h + 3) - Count(h + 1) \in (MaxLate \div 2) + 1..CounterRange
    BY <1>2, <1>4, <2>1, CountFacts DEF Count
  <2>3. e \in Nat /\ e - Count(h + 1) <= MaxLate \div 2
    BY <1>1, Standing DEF TakeEvent
  <2>4. CounterRange \in Nat
    BY IrAssumption
  <2> HIDE DEF e, h
  <2> QED BY <2>2, <2>3, <2>4, DelayType
<1>8. /\ Count(Turns)' = Count(h + 1) /\ Count(Turns + 1)' = Count(h + 2) /\ Count(OtherEdge)' = Count(h + 3)
  <2>1. (h + 1) + 1 = h + 2
    BY <1>2, <1>4
  <2> QED BY <1>2, <1>5, <2>1 DEF Count
<1>9. /\ CC'[1 - n] = Count(h + 2) % CounterRange /\ CC'[n] = Count(h + 3) % CounterRange
  <2>1. CC[1 - n] = Count(h + 2) % CounterRange
    BY <1>1, <1>5 DEF SendInv
  <2>2. n # 1 - n /\ CC \in [{0, 1} -> 0..CounterRange - 1]
    BY <1>2 DEF TypeOK
  <2>3. CC'[1 - n] = CC[1 - n] /\ CC'[n] = Compare(m_integrated_time_us')
    BY <1>2, <1>3, <2>2
  <2> QED BY <1>6, <2>1, <2>3
<1>10. (EVENTS_COMPARE[1 - n] <=> Count(h + 2) <= e) /\ (Due' <=> Count(h + 2) <= e)
  <2>1. EVENTS_COMPARE[1 - n] <=> Count(h + 2) <= e
    BY <1>1, <1>2, <1>4, <1>5 DEF SendInv
  <2> QED BY <1>2, <2>1, Zenon DEF Due
<1>11. edges = h + 1 + (IF Count(h + 2) <= e THEN 1 ELSE 0)
  <2>1. edges = h + 1 + (IF EVENTS_COMPARE[1 - n] THEN 1 ELSE 0)
    <3>1. /\ edges = IF L = 1 THEN (IF Due THEN 2 ELSE 0)
                     ELSE h + (IF Due THEN 1 ELSE 0) + (IF EVENTS_COMPARE[1 - n] THEN 1 ELSE 0)
          /\ Due
      BY <1>1 DEF SendInv, TakeEvent
    <3>2. L # 1
      BY <1>2, <1>4
    <3> QED BY <3>1, <3>2
  <2> QED BY <1>10, <2>1
<1>12. Due' => 2 * (elapsed' - Count(Turns + 1)') + (IF carrier' = "high" THEN 1 ELSE 0) <= late'
  <2> SUFFICES ASSUME Due'
               PROVE  2 * (e - Count(h + 2)) + (IF carrier = "high" THEN 1 ELSE 0) <= late
    BY <1>3, <1>8, <1>10
  <2>1. 2 * (e - Count(h + 1)) + (IF carrier = "high" THEN 1 ELSE 0) <= late /\ late \in Nat
    BY <1>1 DEF SendInv, TakeEvent, TypeOK
  <2>2. Count(h + 1) < Count(h + 2)
    BY <1>1, <1>4, <1>5, Standing
  <2> QED BY <1>7, <2>1, <2>2
<1>13. SendInv'
  <2> HIDE DEF e
  <2>1. /\ signal' \in Data /\ Len(signal') \in 1..SEMS_IR_BUFFER_LEN /\ m_bits_remaining' \in 1..Len(signal')
        /\ m_next_cc_for_update' = Turns' % 2 /\ counter' = elapsed' % CounterRange
        /\ next' = IF Turns' + 2 <= Len(signal') THEN Turns' + 2 ELSE IF Len(signal') = 1 THEN 2 ELSE Len(signal')
    BY <1>1, <1>2, <1>3, <1>4, <1>5 DEF SendInv, e
  <2>2. m_integrated_time_us' = Instant(next)'
    <3>1. \A k : Instant(k)' = Instant(k)
      BY <1>2, SameSignal
    <3> QED BY <1>5, <1>6, <3>1
  <2>3. /\ CC'[m_next_cc_for_update'] = Count(Turns + 1)' % CounterRange
        /\ CC'[1 - m_next_cc_for_update'] = Count(OtherEdge)' % CounterRange
        /\ EVENTS_COMPARE'[1 - m_next_cc_for_update'] = FALSE
    BY <1>2, <1>8, <1>9
  <2>4. ~(Count(OtherEdge)' <= elapsed') /\ Count(Turns)' <= elapsed' /\ (Due' <=> Count(Turns + 1)' <= elapsed')
    BY <1>2, <1>3, <1>7, <1>8, <1>10 DEF e
  <2>5. edges' = Turns' + (IF Due' THEN 1 ELSE 0) + 0 /\ Len(signal') # 1
    BY <1>2, <1>3, <1>4, <1>10, <1>11
  <2>6. edges' < Len(signal') => (group' <=> edges' % 2 = 0)
    BY <1>1, <1>2, <1>3 DEF SendInv
  <2> QED BY <1>12, <2>1, <2>2, <2>3, <2>4, <2>5, <2>6 DEF SendInv
<1> QED BY <1>3, <1>13 DEF SignalInv, QuietInv, Sending

\* Before the last edge nothing is loaded.
LEMMA LastEdgeSignal ==
    ASSUME TypeOK, HandlerInTime, SignalInv, Sending, LastEdgeToCome
    PROVE  SignalInv'
<1> DEFINE L == Len(signal)
           h == Turns
           n == m_next_cc_for_update
           e == elapsed
<1>1. TakeEvent /\ SendInv
  BY DEF LastEdgeToCome, SignalInv
<1>2. /\ m_bits_remaining' = m_bits_remaining - 1 /\ signal' = signal /\ Turns' = h + 1
      /\ L \in 1..SEMS_IR_BUFFER_LEN /\ h \in 0..L - 1 /\ m_bits_remaining = L - h
      /\ n \in {0, 1} /\ n = h % 2 /\ m_next_cc_for_update' = 1 - n /\ 1 - n = (h + 1) % 2
      /\ EVENTS_COMPARE'[n] = FALSE /\ EVENTS_COMPARE'[1 - n] = EVENTS_COMPARE[1 - n]
      /\ Count(h + 1) <= e
  BY <1>1, TurnOfSignal
<1>3. /\ m_bits_remaining' = 1 /\ next' = next /\ m_integrated_time_us' = m_integrated_time_us /\ CC' = CC
      /\ carrier' = carrier /\ elapsed' = e /\ counter' = counter /\ group' = group /\ edges' = edges
      /\ late' = IF EVENTS_COMPARE[1 - n] THEN late ELSE 0
  BY DEF LastEdgeToCome, TakeEvent
<1>4. L \in Nat /\ h + 2 = L /\ signal \in Data
  <2>1. L \in Nat /\ signal \in Data
    BY <1>1, <1>2, CountFacts DEF SendInv
  <2> QED BY <1>2, <1>3, <2>1
<1>5. /\ OtherEdge = h + 2 /\ OtherEdge' = h + 1 /\ next = h + 2
      /\ m_integrated_time_us = Instant(h + 2)
  <2>1. OtherEdge = h + 2
    BY <1>2, <1>4 DEF OtherEdge
  <2>2. next = h + 2
    BY <1>1, <1>2, <1>4 DEF SendInv
  <2>3. OtherEdge' = h + 1
    BY <1>2, <1>4 DEF OtherEdge
  <2> QED BY <1>1, <2>1, <2>2, <2>3 DEF SendInv
<1>6. /\ Count(Turns)' = Count(h + 1) /\ Count(Turns + 1)' = Count(h + 2) /\ Count(OtherEdge)' = Count(h + 1)
  <2>1. (h + 1) + 1 = h + 2
    BY <1>2, <1>4
  <2> QED BY <1>2, <1>5, <2>1 DEF Count
<1>7. /\ CC[1 - n] = Count(h + 2) % CounterRange /\ CC[n] = Count(h + 1) % CounterRange
  BY <1>1, <1>5 DEF SendInv
<1>8. (EVENTS_COMPARE[1 - n] <=> Count(h + 2) <= e) /\ (Due' <=> Count(h + 2) <= e)
  <2>1. EVENTS_COMPARE[1 - n] <=> Count(h + 2) <= e
    BY <1>1, <1>2, <1>4, <1>5 DEF SendInv
  <2> QED BY <1>2, <2>1, Zenon DEF Due
<1>9. edges = h + 1 + (IF Count(h + 2) <= e THEN 1 ELSE 0)
  <2>1. edges = h + 1 + (IF EVENTS_COMPARE[1 - n] THEN 1 ELSE 0)
    <3>1. /\ edges = IF L = 1 THEN (IF Due THEN 2 ELSE 0)
                     ELSE h + (IF Due THEN 1 ELSE 0) + (IF EVENTS_COMPARE[1 - n] THEN 1 ELSE 0)
          /\ Due
      BY <1>1 DEF SendInv, TakeEvent
    <3>2. L # 1
      BY <1>2, <1>4
    <3> QED BY <3>1, <3>2
  <2> QED BY <1>8, <2>1
<1>10. Due' => 2 * (elapsed' - Count(Turns + 1)') + (IF carrier' = "high" THEN 1 ELSE 0) <= late'
  <2> SUFFICES ASSUME Due'
               PROVE  2 * (e - Count(h + 2)) + (IF carrier = "high" THEN 1 ELSE 0) <= late
    BY <1>3, <1>6, <1>8
  <2>1. 2 * (e - Count(h + 1)) + (IF carrier = "high" THEN 1 ELSE 0) <= late /\ late \in Nat
    BY <1>1 DEF SendInv, TakeEvent, TypeOK
  <2>2. Count(h + 1) < Count(h + 2) /\ Count(h + 1) \in Nat /\ Count(h + 2) \in Nat /\ e \in Nat
    BY <1>1, <1>4, <1>5, Standing
  <2> QED BY <2>1, <2>2
<1>11. SendInv'
  <2> HIDE DEF e
  <2>1. /\ signal' \in Data /\ Len(signal') \in 1..SEMS_IR_BUFFER_LEN /\ m_bits_remaining' \in 1..Len(signal')
        /\ m_next_cc_for_update' = Turns' % 2 /\ counter' = elapsed' % CounterRange
        /\ next' = IF Turns' + 2 <= Len(signal') THEN Turns' + 2 ELSE IF Len(signal') = 1 THEN 2 ELSE Len(signal')
    BY <1>1, <1>2, <1>3, <1>4, <1>5 DEF SendInv, e
  <2>2. m_integrated_time_us' = Instant(next)'
    <3>1. \A k : Instant(k)' = Instant(k)
      BY <1>2, SameSignal
    <3> QED BY <1>3, <1>5, <3>1
  <2>3. /\ CC'[m_next_cc_for_update'] = Count(Turns + 1)' % CounterRange
        /\ CC'[1 - m_next_cc_for_update'] = Count(OtherEdge)' % CounterRange
        /\ EVENTS_COMPARE'[1 - m_next_cc_for_update'] = FALSE
    BY <1>2, <1>3, <1>6, <1>7
  <2>4. OtherEdge' = Turns' /\ Count(Turns)' <= elapsed' /\ (Due' <=> Count(Turns + 1)' <= elapsed')
    BY <1>2, <1>3, <1>5, <1>6, <1>8 DEF e
  <2>5. edges' = Turns' + (IF Due' THEN 1 ELSE 0) + 0 /\ Len(signal') # 1
    BY <1>2, <1>3, <1>4, <1>8, <1>9
  <2>6. edges' < Len(signal') => (group' <=> edges' % 2 = 0)
    BY <1>1, <1>2, <1>3 DEF SendInv
  <2> QED BY <1>10, <2>1, <2>2, <2>3, <2>4, <2>5, <2>6 DEF SendInv
<1> QED BY <1>3, <1>11 DEF SignalInv, QuietInv, Sending

\* The signal is over: all its edges were made, and the other event is pending after a signal of
\* one duration only.
LEMMA StopSignal ==
    ASSUME TypeOK, HandlerInTime, SignalInv, Sending, Stop
    PROVE  SignalInv' /\ (IF edges > Len(signal) THEN Len(signal) ELSE edges) = Len(signal)
<1> DEFINE L == Len(signal)
           h == Turns
           n == m_next_cc_for_update
<1>1. TakeEvent /\ SendInv /\ Due
  BY DEF Stop, SignalInv, TakeEvent
<1>2. /\ m_bits_remaining' = m_bits_remaining - 1
      /\ L \in 1..SEMS_IR_BUFFER_LEN /\ h \in 0..L - 1 /\ m_bits_remaining = L - h
      /\ n \in {0, 1} /\ n = h % 2 /\ m_next_cc_for_update' = 1 - n
      /\ EVENTS_COMPARE'[n] = FALSE /\ EVENTS_COMPARE'[1 - n] = EVENTS_COMPARE[1 - n]
  BY <1>1, TurnOfSignal
<1>3. m_bits_remaining' = 0 /\ next' = next /\ carrier' = "stopped"
  BY DEF Stop
<1>4. L \in Nat /\ h = L - 1 /\ SEMS_IR_BUFFER_LEN \in Nat /\ SEMS_IR_BUFFER_LEN >= 3
  <2>1. L \in Nat
    BY <1>1, <1>2, CountFacts DEF SendInv
  <2> QED BY <1>2, <1>3, <2>1, IrAssumption
<1>5. edges = IF L = 1 THEN (IF Due THEN 2 ELSE 0)
              ELSE h + (IF Due THEN 1 ELSE 0) + (IF EVENTS_COMPARE[1 - n] THEN 1 ELSE 0)
  BY <1>1 DEF SendInv
<1>6. CASE L = 1
  <2>1. h = 0 /\ n = 0 /\ next = 2
    BY <1>1, <1>2, <1>4, <1>6 DEF SendInv
  <2>2. ~EVENTS_COMPARE'[0] /\ m_next_cc_for_update' = 1 /\ next' = 2 /\ next' <= SEMS_IR_BUFFER_LEN
    BY <1>2, <1>3, <1>4, <2>1
  <2>3. edges = 2
    BY <1>1, <1>5, <1>6
  <2> QED BY <1>3, <1>6, <2>2, <2>3 DEF SignalInv, SendInv, QuietInv, Sending
<1>7. CASE L > 1
  <2>1. OtherEdge = h /\ next = L
    BY <1>1, <1>2, <1>4, <1>7 DEF SendInv, OtherEdge
  <2>2. ~EVENTS_COMPARE[1 - n]
    BY <1>1, <2>1 DEF SendInv
  <2>3. \A i \in {0, 1} : ~EVENTS_COMPARE'[i]
    BY <1>2, <2>2
  <2>4. next' <= SEMS_IR_BUFFER_LEN
    BY <1>2, <1>3, <2>1, <1>4
  <2>5. edges = L
    BY <1>1, <1>4, <1>5, <1>7, <2>2
  <2> QED BY <1>3, <1>4, <2>3, <2>4, <2>5 DEF SignalInv, SendInv, QuietInv, Sending, Pending
<1> QED BY <1>2, <1>4, <1>6, <1>7

\* The turn after a signal of one duration: the count wraps, and a duration is loaded.
LEMMA QuietTurn ==
    ASSUME TypeOK, SignalInv, ~Sending, Handler
    PROVE  SignalInv' /\ ~Sending'
<1>1. TakeEvent /\ Pending
  <2>1. TakeEvent
    BY DEF Handler, Load, LastEdgeToCome, Stop
  <2> QED BY <2>1 DEF TakeEvent, Due, Pending, TypeOK
<1>2. ~EVENTS_COMPARE[0] /\ m_next_cc_for_update = 1 /\ m_bits_remaining = 0 /\ next = 2
  BY <1>1 DEF SignalInv, QuietInv
<1>3. WordRange \in Nat /\ WordRange > 3 /\ SEMS_IR_BUFFER_LEN >= 3 /\ SEMS_IR_BUFFER_LEN \in Nat
  BY IrAssumption
<1>4. m_bits_remaining' = WordRange - 1
  <2>1. m_bits_remaining' = (0 - 1) % WordRange
    BY <1>1, <1>2 DEF TakeEvent
  <2> QED BY <1>3, <2>1
<1>5. Load
  BY <1>3, <1>4 DEF Handler, LastEdgeToCome, Stop
<1>6. next' = 3 /\ carrier' = carrier
  BY <1>2, <1>5 DEF Load
<1>7. \A i \in {0, 1} : ~EVENTS_COMPARE'[i]
  <2>1. EVENTS_COMPARE' = [EVENTS_COMPARE EXCEPT ![1] = FALSE] /\ EVENTS_COMPARE \in [{0, 1} -> BOOLEAN]
    BY <1>1, <1>2 DEF TakeEvent, TypeOK
  <2> QED BY <1>2, <2>1
<1> QED BY <1>3, <1>6, <1>7 DEF SignalInv, SendInv, QuietInv, Sending, Pending

\* Every step keeps the registers and the signal together.
LEMMA SignalStep ==
    ASSUME HandlerInTime, IInv, SignalInv, [Next]_vars
    PROVE  SignalInv'
<1>1. TypeOK
  BY DEF IInv
<1>2. CASE ActuatorInit
  <2>1. ~Sending /\ ~Sending' /\ next' = next /\ ~Pending'
    BY <1>2 DEF IInv, SilentUnlessInited, ActuatorInit, CanInit, Sending, Pending
  <2> QED BY <2>1 DEF SignalInv, SendInv, QuietInv
<1>3. ASSUME NEW d \in Data, Execute(d) PROVE SignalInv'
  BY <1>1, <1>3, ExecuteSignal
<1>4. ASSUME NEW d \in Data, ExecuteFails(d) PROVE SignalInv'
  <2>1. ~Sending /\ ~Sending' /\ next' = next /\ ~Pending'
    BY <1>4 DEF IInv, BusyWhileSending, ExecuteFails, Accepts, hardware, Sending, Pending
  <2> QED BY <2>1 DEF SignalInv, SendInv, QuietInv
<1>5. CASE LowEnds
  BY <1>1, <1>5, LowSignal
<1>6. CASE HighEnds
  BY <1>1, <1>6, HighSignal
<1>7. CASE Handler
  BY <1>1, <1>7, LoadSignal, LastEdgeSignal, StopSignal, QuietTurn DEF Handler
<1>8. CASE UNCHANGED vars
  <2>1. UNCHANGED <<m_busy, signal, next, m_bits_remaining, m_integrated_time_us, m_next_cc_for_update,
                    CC, EVENTS_COMPARE, counter, group, carrier, late, elapsed, edges>>
    BY <1>8 DEF vars, statics, hardware, history
  <2>2. /\ Turns' = Turns /\ OtherEdge' = OtherEdge /\ \A k : Instant(k)' = Instant(k)
        /\ Count(Turns)' = Count(Turns) /\ Count(Turns + 1)' = Count(Turns + 1)
        /\ Count(OtherEdge)' = Count(OtherEdge)
    BY <2>1, SameSignal
  <2>3. Sending' = Sending /\ Due' = Due /\ Pending' = Pending
    BY <2>1 DEF Sending, Due, Pending
  <2>4. SendInv'
    BY <2>1, <2>2, <2>3 DEF SignalInv, SendInv
  <2> QED BY <2>1, <2>3, <2>4 DEF SignalInv, QuietInv
<1> QED BY <1>2, <1>3, <1>4, <1>5, <1>6, <1>7, <1>8 DEF Next

\* With a handler in time, the registers agree with the signal in every state.
LEMMA AlwaysSignalInv ==
    ASSUME HandlerInTime
    PROVE  Spec => []SignalInv
<1>1. IInv /\ SignalInv /\ [Next]_vars => SignalInv'
  BY SignalStep
<1> QED BY InitSignal, Invariant, <1>1, PTL DEF Spec

\* A handler that is in time for every signal never takes a duration from beyond raw_buffer,
\* whatever the signals and although its count of turns wraps below 0.
THEOREM HandlerReadsInBuffer ==
    ASSUME HandlerInTime
    PROVE  Spec => []ReadsInBuffer
<1>1. ASSUME SignalInv PROVE ReadsInBuffer
  <2>1. CASE Sending
    <3>1. /\ Len(signal) \in 1..SEMS_IR_BUFFER_LEN
          /\ next = IF Turns + 2 <= Len(signal) THEN Turns + 2 ELSE IF Len(signal) = 1 THEN 2 ELSE Len(signal)
      BY <1>1, <2>1 DEF SignalInv, SendInv
    <3> HIDE DEF Turns
    <3> QED BY <3>1, IrAssumption DEF ReadsInBuffer
  <2> QED BY <1>1, <2>1 DEF SignalInv, QuietInv, ReadsInBuffer
<1> QED BY <1>1, AlwaysSignalInv, PTL

-----------------------------------------------------------------------------
(* The signal that IrSignal promises.                                       *)

\* How many edges of the signal have been made: TIMER2 reaches both registers at the one edge
\* of a signal of one duration.
Made == IF edges > Len(signal) THEN Len(signal) ELSE edges

\* A later instant has no smaller count.
LEMMA CountsGrow ==
    ASSUME NEW d \in Data, NEW j \in 1..Len(d), NEW k \in 1..Len(d), j <= k
    PROVE  EdgeCount(d, j) <= EdgeCount(d, k)
<1> DEFINE n == CarrierPeriod
           s == d[j] + n \div 2
           t == d[k] + n \div 2
           p == s \div n
           q == t \div n
<1>1. s \in Int /\ t \in Int /\ s <= t /\ n \in Nat \ {0}
  BY IrAssumption
<1>2. EdgeCount(d, j) = p /\ EdgeCount(d, k) = q
  <2>1. j # 0 /\ k # 0
    BY IrAssumption
  <2> QED BY <2>1 DEF EdgeCount, PulseCount
<1> HIDE DEF n, s, t
<1>3. /\ p \in Int /\ s % n \in 0..n - 1 /\ s = n * p + (s % n)
      /\ q \in Int /\ t % n \in 0..n - 1 /\ t = n * q + (t % n)
  BY <1>1, Division
<1> HIDE DEF p, q
<1>4. ~(q + 1 <= p)
  <2> SUFFICES ASSUME q + 1 <= p PROVE FALSE
    OBVIOUS
  <2>1. n * (q + 1) <= n * p /\ n * p \in Int /\ n * q \in Int
    BY <1>1, <1>3, ProductGrows
  <2>2. n * (q + 1) = n * q + n
    BY <1>1, <1>3
  <2> QED BY <1>1, <1>3, <2>1, <2>2
<1> QED BY <1>2, <1>3, <1>4

\* An edge made at its count is no earlier than half a period before its instant, and one that
\* is still to come is not overdue.
LEMMA WithinHalfAPeriod ==
    ASSUME NEW d \in Data, NEW k \in 1..Len(d), NEW e \in Nat
    PROVE  /\ EdgeCount(d, k) <= e => ~(2 * (d[k] - e * CarrierPeriod) > CarrierPeriod)
           /\ e < EdgeCount(d, k) => ~(2 * (e * CarrierPeriod - d[k]) > CarrierPeriod)
<1> DEFINE n == CarrierPeriod
           half == n \div 2
           s == d[k] + half
           c == s \div n
           x == d[k]
<1>1. x \in Nat /\ half \in Nat /\ 2 * half <= n /\ n <= 2 * half + 1 /\ n \in Nat \ {0}
      /\ s = x + half /\ s \in Int
  BY IrAssumption
<1>2. EdgeCount(d, k) = c
  <2>1. k # 0
    BY IrAssumption
  <2> QED BY <2>1 DEF EdgeCount, PulseCount
<1> HIDE DEF n, half, s, x
<1>3. c \in Int /\ s % n \in 0..n - 1 /\ s = n * c + (s % n)
  BY <1>1, Division
<1> HIDE DEF c
<1>4. e * n = n * e /\ n * e \in Int /\ n * c \in Int
  BY <1>1, <1>3
<1>5. ASSUME c <= e PROVE ~(2 * (x - e * n) > n)
  <2>1. n * c <= n * e
    BY <1>1, <1>3, <1>5, ProductGrows
  <2> QED BY <1>1, <1>3, <1>4, <2>1
<1>6. ASSUME e + 1 <= c PROVE ~(2 * (e * n - x) > n)
  <2>1. n * (e + 1) <= n * c /\ n * (e + 1) = n * e + n
    BY <1>1, <1>3, <1>6, ProductGrows
  <2> QED BY <1>1, <1>3, <1>4, <2>1
<1> QED BY <1>2, <1>3, <1>5, <1>6 DEF n, x

\* The edges made are those whose counts have been reached.
MadeReached ==
    /\ signal \in Data /\ Made \in 0..Len(signal)
    /\ \A k \in 1..Made : Count(k) <= elapsed
    /\ \A k \in Made + 1..Len(signal) : elapsed < Count(k)

\* It is so while the registers agree with the signal.
LEMMA MadeIsReached ==
    ASSUME HandlerInTime
    PROVE  TypeOK /\ SendInv /\ Sending => MadeReached
<1> SUFFICES ASSUME TypeOK, SendInv, Sending PROVE MadeReached
  OBVIOUS
<1> DEFINE L == Len(signal)
           h == Turns
           e == elapsed
           other == EVENTS_COMPARE[1 - m_next_cc_for_update]
<1>1. /\ signal \in Data /\ L \in Nat /\ L >= 1 /\ h \in 0..L - 1 /\ e \in Nat
      /\ Count(h) \in Nat /\ Count(h + 1) \in Nat /\ Count(OtherEdge) \in Nat
      /\ Count(h) <= e /\ Count(h) < Count(h + 1)
      /\ Due => Count(h + 1) <= e /\ e - Count(h + 1) <= MaxLate \div 2
      /\ ~Due => e < Count(h + 1)
      /\ \/ h + 2 <= L /\ OtherEdge = h + 2 /\ Count(h + 1) < Count(h + 2)
         \/ L = 1 /\ h = 0 /\ OtherEdge = 1
         \/ L > 1 /\ h = L - 1 /\ OtherEdge = h
  BY Standing, CountFacts
<1>2. /\ other <=> OtherEdge # h /\ Count(OtherEdge) <= e
      /\ edges = IF L = 1 THEN (IF Due THEN 2 ELSE 0)
                 ELSE h + (IF Due THEN 1 ELSE 0) + (IF other THEN 1 ELSE 0)
  BY DEF SendInv
<1>3. /\ \A k \in 1..L : Count(k) \in Nat
      /\ \A k \in 3..L : Count(k) - Count(k - 2) > MaxLate \div 2
  <2>1. 1..L \subseteq 0..L /\ 3..L \subseteq 2..L
    BY <1>1
  <2>2. L \in 1..SEMS_IR_BUFFER_LEN
    BY DEF SendInv
  <2>3. /\ \A k \in 0..L : Count(k) \in Nat
        /\ \A k \in 2..L : Count(k) - Count(k - 2) \in (MaxLate \div 2) + 1..CounterRange
    BY <1>1, <2>2, CountFacts DEF Count
  <2>4. \A k \in 2..L : Count(k) - Count(k - 2) > MaxLate \div 2
    BY <2>3, DelayType, IrAssumption
  <2> QED BY <2>1, <2>3, <2>4
<1>4. \A j, k \in 1..L : j <= k => Count(j) <= Count(k)
  BY <1>1, CountsGrow DEF Count
<1> HIDE DEF L, h, e, other
<1>5. Made \in 0..L /\ (Made # 0 => Count(Made) <= e) /\ (Made < L => e < Count(Made + 1))
  <2>1. Made = IF edges > L THEN L ELSE edges
    BY DEF Made, L
  <2>2. CASE ~Due /\ h + 2 <= L
    <3>1. Made = h
      BY <1>1, <1>2, <2>1, <2>2
    <3> QED BY <1>1, <2>2, <3>1
  <2>3. CASE ~Due /\ h + 2 > L
    <3>1. Made = h
      BY <1>1, <1>2, <2>1, <2>3
    <3> QED BY <1>1, <2>3, <3>1
  <2>4. CASE Due /\ h + 2 > L
    <3>1. Made = h + 1 /\ h + 1 = L
      BY <1>1, <1>2, <2>1, <2>4
    <3> QED BY <1>1, <2>4, <3>1
  <2>5. CASE Due /\ h + 2 <= L /\ ~(Count(h + 2) <= e)
    <3>1. Made = h + 1 /\ Count(h + 2) \in Nat /\ Made + 1 = h + 2
      BY <1>1, <1>2, <2>1, <2>5
    <3> QED BY <1>1, <2>5, <3>1
  <2>6. CASE Due /\ h + 2 <= L /\ Count(h + 2) <= e
    <3>1. Made = h + 2
      BY <1>1, <1>2, <2>1, <2>6
    <3>2. ASSUME h + 3 <= L PROVE e < Count(h + 3)
      <4>1. h + 3 \in 3..L /\ h + 3 \in 1..L /\ (h + 3) - 2 = h + 1
        BY <1>1, <3>2
      <4>2. Count(h + 3) \in Nat /\ Count(h + 3) - Count(h + 1) > MaxLate \div 2
        BY <1>3, <4>1
      <4> QED BY <1>1, <2>6, <4>2, DelayType
    <3>3. Made + 1 = h + 3 /\ Made \in 0..L
      BY <1>1, <2>6, <3>1
    <3> QED BY <1>1, <2>6, <3>1, <3>2, <3>3
  <2> QED BY <1>1, <2>2, <2>3, <2>4, <2>5, <2>6
<1>6. ASSUME NEW k \in 1..Made PROVE Count(k) <= e
  <2>1. k \in 1..L /\ Made \in 1..L /\ k <= Made /\ Made # 0
    BY <1>1, <1>5
  <2> QED BY <1>1, <1>3, <1>4, <1>5, <2>1
<1>7. ASSUME NEW k \in Made + 1..L PROVE e < Count(k)
  <2>1. k \in 1..L /\ Made + 1 \in 1..L /\ Made + 1 <= k /\ Made < L
    BY <1>1, <1>5
  <2> QED BY <1>1, <1>3, <1>4, <1>5, <2>1
<1> QED BY <1>1, <1>5, <1>6, <1>7 DEF L, e, MadeReached


\* Every step of the actuator is one of the signal's, or none.
LEMMA SignalMoves ==
    ASSUME HandlerInTime, IInv, SignalInv, [Next]_vars
    PROVE  [Out!Next]_Out!svars
<1> DEFINE Idle == ~Sending /\ ~Sending'
           Same == /\ Sending /\ Sending' /\ signal' = signal /\ elapsed' = elapsed /\ edges' = edges
                   /\ group' = group
<1>1. TypeOK /\ SilentUnlessInited /\ (~m_busy => ~Sending) /\ SignalInv' /\ TypeOK'
  BY SignalStep, TypeStep DEF IInv, BusyWhileSending
<1>2. ASSUME Idle \/ Same PROVE [Out!Next]_Out!svars
  <2>1. CASE Idle
    <3>1. /\ (IF Sending THEN signal ELSE <<>>)' = IF Sending THEN signal ELSE <<>>
          /\ (IF Sending THEN elapsed * CarrierPeriod ELSE 0)' = IF Sending THEN elapsed * CarrierPeriod ELSE 0
          /\ (IF ~Sending THEN 0 ELSE Made)' = IF ~Sending THEN 0 ELSE Made
          /\ (Sending /\ group)' = (Sending /\ group) /\ Sending' = Sending
      BY <2>1 DEF Sending
    <3> QED BY <3>1, Zenon DEF Out!svars, Made
  <2>2. CASE Same
    <3>1. /\ (IF Sending THEN signal ELSE <<>>)' = IF Sending THEN signal ELSE <<>>
          /\ (IF Sending THEN elapsed * CarrierPeriod ELSE 0)' = IF Sending THEN elapsed * CarrierPeriod ELSE 0
          /\ (IF ~Sending THEN 0 ELSE Made)' = IF ~Sending THEN 0 ELSE Made
          /\ (Sending /\ group)' = (Sending /\ group) /\ Sending' = Sending
      BY <2>2 DEF Made
    <3> QED BY <3>1, Zenon DEF Out!svars, Made
  <2> QED BY <1>2, <2>1, <2>2
<1>3. CASE ActuatorInit
  <2>1. Idle
    BY <1>1, <1>3 DEF SilentUnlessInited, ActuatorInit, CanInit, Sending
  <2> QED BY <1>2, <2>1
<1>4. ASSUME NEW d \in Data, Execute(d) PROVE Out!Send
  <2>1. /\ ~Sending /\ Sending' /\ Len(d) \in 1..SEMS_IR_BUFFER_LEN
        /\ signal' = d /\ elapsed' = 0 /\ edges' = 0 /\ group' = TRUE
    BY <1>1, <1>4 DEF Execute, Accepts, Sending
  <2>2. ~(0 > Len(d)) /\ 0 * CarrierPeriod = 0
    BY <2>1, IrAssumption
  <2> QED BY <2>1, <2>2 DEF Out!Send
<1>5. ASSUME NEW d \in Data, ExecuteFails(d) PROVE Idle
  BY <1>1, <1>5 DEF ExecuteFails, Accepts, hardware, Sending
<1>6. CASE LowEnds
  <2>1. Same
    BY <1>6 DEF LowEnds, statics, history, Sending
  <2> QED BY <1>2, <2>1
<1>7. CASE HighEnds
  <2>1. /\ Sending /\ Sending' /\ signal' = signal /\ elapsed' = elapsed + 1 /\ elapsed \in Nat
        /\ group' \in BOOLEAN /\ CarrierPeriod \in Nat
    BY <1>1, <1>7, IrAssumption DEF HighEnds, statics, Sending, TypeOK
  <2>2. edges \in Nat /\ edges' \in Nat /\ edges <= edges'
    <3> DEFINE R == {i \in {0, 1} : counter' = CC[i]}
    <3>1. Cardinality(R) \in Nat
      BY ReachedType
    <3>2. edges' = edges + Cardinality(R)
      BY <1>7 DEF HighEnds
    <3>3. edges \in Nat
      BY <1>1 DEF TypeOK
    <3> HIDE DEF R
    <3> QED BY <3>1, <3>2, <3>3
  <2>3. /\ signal \in Data /\ Len(signal) \in Nat
        /\ Made' \in 0..Len(signal)
        /\ \A k \in 1..Made' : EdgeCount(signal, k) <= elapsed'
        /\ \A k \in Made' + 1..Len(signal) : elapsed' < EdgeCount(signal, k)
    <3>1. /\ signal' \in Data /\ Made' \in 0..Len(signal')
          /\ \A k \in 1..Made' : EdgeCount(signal', k) <= elapsed'
          /\ \A k \in Made' + 1..Len(signal') : elapsed' < EdgeCount(signal', k)
      <4>1. TypeOK' /\ SendInv' /\ Sending' => MadeReached'
        BY MadeIsReached, PTL
      <4> QED BY <1>1, <2>1, <4>1 DEF SignalInv, MadeReached, Count
    <3>2. Len(signal) \in Nat
      BY <2>1, <3>1, IrAssumption
    <3> QED BY <2>1, <3>1, <3>2
  <2>4. Made' \in Made..Len(signal)
    BY <2>1, <2>2, <2>3 DEF Made
  <2>5. elapsed' * CarrierPeriod = elapsed * CarrierPeriod + CarrierPeriod
    BY <2>1
  <2>6. ASSUME NEW k \in 1..Made' PROVE ~Out!Early(k, elapsed' * CarrierPeriod)
    <3>1. k \in 1..Len(signal) /\ elapsed' \in Nat
      BY <2>1, <2>3
    <3>2. ~(2 * (signal[k] - elapsed' * CarrierPeriod) > CarrierPeriod)
      BY <2>3, <3>1, WithinHalfAPeriod
    <3> QED BY <2>1, <3>2 DEF Out!Early
  <2>7. ASSUME NEW k \in Made' + 1..Len(signal) PROVE ~Out!Overdue(k, elapsed' * CarrierPeriod)
    <3>1. k \in 1..Len(signal) /\ elapsed' \in Nat
      <4>1. \A m \in 0..Len(signal) : \A j \in m + 1..Len(signal) : j \in 1..Len(signal)
        BY <2>3
      <4>2. k \in 1..Len(signal)
        BY <2>3, <4>1, Zenon
      <4> QED BY <2>1, <4>2
    <3>2. ~(2 * (elapsed' * CarrierPeriod - signal[k]) > CarrierPeriod)
      BY <2>3, <3>1, WithinHalfAPeriod
    <3> QED BY <2>1, <3>2 DEF Out!Overdue
  <2>8. Made' < Len(signal) => group' = (Made' % 2 = 0)
    <3>1. edges' < Len(signal') => (group' <=> edges' % 2 = 0)
      BY <1>1, <2>1 DEF SignalInv, SendInv
    <3>2. Made' < Len(signal) => Made' = edges' /\ edges' < Len(signal')
      BY <2>1, <2>2, <2>3 DEF Made
    <3> QED BY <2>1, <3>1, <3>2
  <2>9. Out!Elapse
    <3> DEFINE time == IF Sending THEN elapsed * CarrierPeriod ELSE 0
               made == IF ~Sending THEN 0 ELSE Made
               mark == Sending /\ group
               sent == IF Sending THEN signal ELSE <<>>
    <3>1. /\ Sending /\ sent = signal /\ time' = time + CarrierPeriod /\ made' \in made..Len(sent)
          /\ time' = elapsed' * CarrierPeriod /\ made' = Made'
          /\ mark' \in BOOLEAN /\ mark' = group' /\ Sending' = Sending /\ sent' = sent
      BY <2>1, <2>4, <2>5 DEF Sending
    <3>2. \A k \in 1..made' : ~Out!Early(k, time')
      BY <2>6, <3>1
    <3>3. \A k \in made' + 1..Len(sent) : ~Out!Overdue(k, time')
      BY <2>7, <3>1
    <3>4. made' < Len(sent) => mark' = (made' % 2 = 0)
      BY <2>8, <3>1
    <3> QED BY <3>1, <3>2, <3>3, <3>4, Zenon DEF Out!Elapse, Made
  <2> QED BY <2>9 DEF Out!Next
<1>8. CASE Handler
  <2>1. CASE ~Sending
    BY <1>1, <1>2, <1>8, <2>1, QuietTurn
  <2>2. CASE Sending /\ (Load \/ LastEdgeToCome)
    <3>1. Same
      BY <2>2 DEF Load, LastEdgeToCome, TakeEvent, Sending
    <3> QED BY <1>2, <3>1
  <2>3. CASE Sending /\ Stop
    <3>1. Made = Len(signal) /\ ~Sending'
      BY <1>1, <2>3, StopSignal DEF Stop, Sending, Made
    <3> QED BY <2>3, <3>1 DEF Out!Finish, Out!Idle, Out!Next, Made
  <2> QED BY <1>8, <2>1, <2>2, <2>3 DEF Handler
<1>9. CASE UNCHANGED vars
  <2>1. Idle \/ Same
    BY <1>9 DEF vars, statics, hardware, history, Sending
  <2> QED BY <1>2, <2>1
<1> QED BY <1>2, <1>3, <1>4, <1>5, <1>6, <1>7, <1>8, <1>9 DEF Next, Out!Next


\* An actuator whose handler is in time for every signal implements IrSignal: it switches between
\* carrier and silence at every instant of the signal, in order and within half a carrier period,
\* without drift however long the signal is, and is done only when every edge was made.
THEOREM SendsThePromisedSignal ==
    ASSUME HandlerInTime
    PROVE  Spec => FollowsSignal
<1>1. Init => Out!Init
  BY DEF Init, Sending, Out!Init, Out!Idle
<1>2. IInv /\ SignalInv /\ [Next]_vars => [Out!Next]_Out!svars
  BY SignalMoves
<1> QED BY <1>1, <1>2, Invariant, AlwaysSignalInv, PTL DEF Spec, FollowsSignal, Out!Spec

=============================================================================
