---------------------------- MODULE MCTwiReading ----------------------------
(* An instance of TwiReading for TLC. *)
EXTENDS TwiReading

\* The words of the HTU21D's datasheet (HTU21D.c:25): 0x4E85 with 0x6B, whose status bits are 01, and
\* 0x683A with 0x7C, whose status bits are 10.
MCTemperatures == {{22, 19, 18, 17, 15, 10, 8, 6, 5, 3, 1, 0}}
MCHumidities   == {{22, 21, 19, 13, 12, 11, 9, 6, 5, 4, 3, 2}}

\* Nothing, or the lowest bit of the measurement, the last the division comes to.
MCNoise == {{}, {8}}

\* What the theorems of TwiReadingProofs assume of the words and the noise.
ASSUME MCAssumption == NoiseIsDetected /\ NoWordIsACommand /\ CheckTellsWords

=============================================================================
