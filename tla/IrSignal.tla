------------------------------ MODULE IrSignal ------------------------------
(***************************************************************************)
(* What the infrared actuator promises: it takes one signal at a time, and *)
(* switches between carrier and silence at the instants of the signal, in  *)
(* order, each within half a carrier period however long the signal is.    *)
(* After the last instant the line is undefined until the signal is over.  *)
(***************************************************************************)
EXTENDS Integers, Sequences

CONSTANTS
    Signal,     \* signals, each the instants of its edges in microseconds
    Period      \* the carrier's period in microseconds

VARIABLES
    sending,    \* a signal is being sent
    signal,     \* the signal
    time,       \* microseconds since its start
    edges,      \* how many of its edges have been made
    mark        \* the carrier is on

svars == <<sending, signal, time, edges, mark>>

Idle == sending = FALSE /\ signal = <<>> /\ time = 0 /\ edges = 0 /\ mark = FALSE
Init == Idle

Send == /\ ~sending
        /\ sending' = TRUE /\ signal' \in Signal
        /\ time' = 0 /\ edges' = 0 /\ mark' = TRUE

Early(k, t) == 2 * (signal[k] - t) > Period
Overdue(k, t) == 2 * (t - signal[k]) > Period

\* A period goes by: edges are made neither early nor overdue, and the carrier
\* is on until the first edge, off until the second, and so on.
Elapse == /\ sending
          /\ time' = time + Period
          /\ edges' \in edges..Len(signal)
          /\ \A k \in 1..edges' : ~Early(k, time')
          /\ \A k \in edges' + 1..Len(signal) : ~Overdue(k, time')
          /\ mark' \in BOOLEAN
          /\ edges' < Len(signal) => mark' = (edges' % 2 = 0)
          /\ UNCHANGED <<sending, signal>>

Finish == sending /\ edges = Len(signal) /\ Idle'

Next == Send \/ Elapse \/ Finish

Spec == Init /\ [][Next]_svars

=============================================================================
