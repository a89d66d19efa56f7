---------------------------- MODULE MCIrActuator ----------------------------
(* Instances of IrActuator for TLC. *)
EXTENDS IrActuator

\* Signals of one to five durations, some of a single period, whose instants
\* lie before, at and after the middle of a period of 26 us; one whose last
\* instant is in the second round of the counter; data that encodes to nothing,
\* and data too long for a buffer of 5.
MCData == {<<>>, <<30>>, <<40, 75>>, <<150, 300, 440>>, <<30, 66, 95>>, <<39, 65, 91, 130>>,
           <<35, 70, 105, 140, 178>>, <<30, 60, 90, 120, 150, 180>>}

\* With durations of less than a period too: both registers hold the same count.
MCShortData == MCData \cup {<<30, 30, 60>>, <<40, 45, 70, 120>>}

\* What the proofs assume of the signals and the delay holds of the instance of
\* a handler in time: there are such signals and such handlers.
ASSUME MCAssumption == Data = MCData => HandlerInTime

=============================================================================
