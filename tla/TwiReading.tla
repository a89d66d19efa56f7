----------------------------- MODULE TwiReading -----------------------------
(***************************************************************************)
(* The sensors on the TWI bus: HTU21D.c and TSL2561.c over app_twi, read   *)
(* by main (sems_sensor_flush_data), which app_timer's interrupt preempts  *)
(* to poll, which the bus's interrupt preempts.  The HTU21D is read        *)
(* through one static buffer, the TSL2561 through the device's register    *)
(* pointer and a buffer on the stack.  Floating point is left out: what is *)
(* stored is the raw value it is computed from.                            *)
(***************************************************************************)
EXTENDS Naturals, SequencesExt

CONSTANTS
    Tsl,           \* the TSL2561s
    Temperatures,  \* words of 24 bits that an HTU21D sends, as the set of the bits that are one:
    Humidities,    \*   the measurement and its status bits, then the check value
    Noise,         \* sets of the bits that are flipped on the way
    Light,         \* values of a TSL2561's channels
    Handled        \* sensors whose polling the handler of a poll starts or stops

Htu       == "htu21d"
Saturated == 65535
Sensors   == {Htu} \cup Tsl
Words     == Temperatures \cup Humidities
Contexts  == {"main", "timer"}

ASSUME WordAssumption ==
    /\ Htu \notin Tsl /\ Handled \subseteq Sensors /\ Light \subseteq 0..Saturated
    /\ \A w \in Words \cup Noise : w \subseteq 0..23

VARIABLES
    inited,    \* sensors that are initialised
    polling,   \* sensors whose poll timer runs
    job,       \* what each context does: main, and app_timer's interrupt
    twi,       \* the transaction of app_twi_perform
    buffer,    \* HTU21D.c's
    measured,  \* what the HTU21D was told to measure
    pointer,   \* register each TSL2561 points to
    power,     \* whether each TSL2561 is on
    stored     \* what in p_sensor_data was read, from the bus

vars == <<inited, polling, job, twi, buffer, measured, pointer, power, stored>>

-----------------------------------------------------------------------------
(* The check value.                                                         *)

Xor(a, b)     == (a \ b) \cup (b \ a)
FirstByte     == 16..23
Divisor       == {23, 20, 19, 15}
Shifted(i)    == {k - i : k \in Divisor}

\* HTU21D.c:52, 82.
Command == [temperature |-> {16, 17, 20, 21, 22, 23}, humidity |-> {16, 18, 20, 21, 22, 23}]

\* What comes in for a word.
Arrived == {Xor(w, e) : w \in Words, e \in Noise}

\* What the buffer can hold, empty at first: bytes of commands and of words that may have been read
\* at different times.
Received ==
    {(a \cap FirstByte) \cup (b \ FirstByte) :
        a \in Arrived \cup {{}, Command.temperature, Command.humidity}, b \in Arrived \cup {{}}}

Positions == [k \in 1..16 |-> k - 1]

\* The division leaves nothing of a good word.
CheckCRC ==
    LET Subtract(remainder, i) ==
            IF 23 - i \in remainder THEN Xor(remainder, Shifted(i)) ELSE remainder
    IN  [w \in Received |-> FoldLeft(Subtract, w, Positions) \cap 0..7 = {}]

-----------------------------------------------------------------------------
(* Contexts and jobs.                                                       *)

\* The registers a job goes through, one after the other.
Registers(what, s) ==
    CASE what = "read" /\ s = Htu -> <<"temperature", "humidity">>
      [] what = "read" /\ s # Htu -> <<"control", "timing", "data0", "data1">>
      [] what = "init"            -> <<"control", "timing">>
      [] OTHER                    -> <<"control">>

Nothing == <<"none", 0>>

\* got and data0 are on the stack.  History: whether the sensor was on when the job began, and whether
\* it was polled meanwhile.
Idle == [what |-> "idle", sensor |-> Htu, part |-> 1, at |-> "idle",
         got |-> Nothing, data0 |-> Nothing, on |-> FALSE, raced |-> FALSE]

Begin(what, s) ==
    [Idle EXCEPT !.what = what, !.sensor = s, !.at = "command", !.on = s \in Tsl /\ power[s]]

Register(j) == Registers(j.what, j.sensor)[j.part]

Priority == [main |-> 16, timer |-> 6, twi |-> 2]

\* app_timer's interrupt keeps what is not more urgent from running.
Runs(who) == job["timer"] = Idle \/ who = "timer" \/ Priority[who] < Priority.timer

\* A job ends; that of a poll goes on to its handler, whatever became of the reading.
Ended(c) == IF c = "timer" THEN [job[c] EXCEPT !.at = "handler", !.got = Nothing] ELSE Idle

\* Mutated: goes on after the last register.
ContinuedPast(c) ==
    LET j == job[c] IN
    IF j.part > Len(Registers(j.what, j.sensor)) THEN Ended(c)
    ELSE [j EXCEPT !.part = @ + 1, !.at = "command", !.got = Nothing]

\* The next register, or the end.
Continued(c) ==
    LET j == job[c] IN
    IF j.part = Len(Registers(j.what, j.sensor)) THEN Ended(c)
    ELSE [j EXCEPT !.part = @ + 1, !.at = "command", !.got = Nothing]

Goes(c, j) == job' = [job EXCEPT ![c] = j]

Free  == twi = "free"
Owner == job[twi]

-----------------------------------------------------------------------------
Init ==
    /\ inited = {Htu} /\ polling = {}
    /\ job = [c \in Contexts |-> Idle]
    /\ twi = "free" /\ buffer = {} /\ measured = "none"
    /\ pointer = [s \in Tsl |-> "control"] /\ power = [s \in Tsl |-> FALSE]
    /\ stored = {}

\* sems_sensor_init, sems_sensor_uninit and sems_sensor_flush_data, which refuse a sensor that polls.
Start(what, s) ==
    /\ Runs("main") /\ job["main"] = Idle
    /\ \/ what = "init" /\ s \in Tsl \ inited
       \/ what = "off" /\ s \in (Tsl \cap inited) \ polling
       \/ what = "read" /\ s \in inited \ polling
    /\ Goes("main", Begin(what, s))
    /\ UNCHANGED <<inited, polling, twi, buffer, measured, pointer, power, stored>>

\* sems_sensor_polling, from main or from the handler of a poll, of a sensor main is not initialising
\* or uninitialising (SensorLifecycle).
SetPolling(s) ==
    /\ \/ Runs("main") /\ job["main"] = Idle
       \/ /\ job["timer"].at = "handler" /\ s \in Handled
          /\ ~(job["main"].what \in {"init", "off"} /\ job["main"].sensor = s)
    /\ s \in inited
    /\ polling' = IF s \in polling THEN polling \ {s} ELSE polling \cup {s}
    /\ UNCHANGED <<inited, job, twi, buffer, measured, pointer, power, stored>>

\* timeout_handler.
Poll(s) ==
    /\ job["timer"] = Idle /\ s \in polling
    /\ job' = [timer |-> Begin("read", s),
                main |-> IF job["main"] # Idle /\ job["main"].sensor = s
                         THEN [job["main"] EXCEPT !.raced = TRUE] ELSE job["main"]]
    /\ UNCHANGED <<inited, polling, twi, buffer, measured, pointer, power, stored>>

\* The command of the HTU21D goes to the static buffer, a TSL2561's to one on the stack.
StoreCommand(c) ==
    /\ Runs(c) /\ job[c].at = "command"
    /\ buffer' = IF job[c].sensor = Htu THEN (buffer \ FirstByte) \cup Command[Register(job[c])]
                 ELSE buffer
    /\ Goes(c, [job[c] EXCEPT !.at = "write"])
    /\ UNCHANGED <<inited, polling, twi, measured, pointer, power, stored>>

\* app_twi_perform refuses a second transaction; the first byte of a write leaves at once.
Told == {q \in DOMAIN Command : Command[q] = buffer \cap FirstByte}

Perform(c) ==
    LET j == job[c]
        writes == Free /\ j.at = "write"
    IN
    /\ Runs(c) /\ j.at \in {"write", "read"}
    /\ twi' = IF Free THEN c ELSE twi
    /\ Goes(c, IF ~Free THEN Ended(c)
               ELSE [j EXCEPT !.at = IF writes THEN "writing" ELSE "reading"])
    /\ measured' \in IF writes /\ j.sensor = Htu THEN (IF Told = {} THEN {"none"} ELSE Told)
                     ELSE {measured}
    /\ pointer' = IF writes /\ j.sensor \in Tsl THEN [pointer EXCEPT ![j.sensor] = Register(j)]
                  ELSE pointer
    /\ UNCHANGED <<inited, polling, buffer, power, stored>>

\* The bus's interrupt.  A device does not answer,
TransferFails ==
    /\ ~Free /\ Runs("twi")
    /\ twi' = "free" /\ Goes(twi, [Owner EXCEPT !.at = "failed"])
    /\ UNCHANGED <<inited, polling, buffer, measured, pointer, power, stored>>

\* takes what is written,
WriteDone ==
    /\ ~Free /\ Runs("twi") /\ Owner.at = "writing"
    /\ twi' = "free" /\ Goes(twi, [Owner EXCEPT !.at = "written"])
    /\ power' = IF Owner.what # "read" /\ Register(Owner) = "control"
                THEN [power EXCEPT ![Owner.sensor] = (Owner.what = "init")] ELSE power
    /\ UNCHANGED <<inited, polling, buffer, measured, pointer, stored>>

\* sends a byte of a measurement, which goes to the buffer,
FirstByteRead ==
    /\ ~Free /\ Runs("twi") /\ Owner.at = "reading" /\ Owner.sensor = Htu
    /\ measured # "none" /\ Owner.got = Nothing
    /\ \E w \in (IF measured = "temperature" THEN Temperatures ELSE Humidities), e \in Noise :
        /\ Goes(twi, [Owner EXCEPT !.got = <<"word", Xor(w, e)>>])
        /\ buffer' = (Xor(w, e) \cap FirstByte) \cup (buffer \ FirstByte)
    /\ UNCHANGED <<inited, polling, twi, measured, pointer, power, stored>>

\* and the others,
HtuRead ==
    /\ ~Free /\ Runs("twi") /\ Owner.sensor = Htu /\ Owner.got # Nothing
    /\ buffer' = (buffer \cap FirstByte) \cup (Owner.got[2] \ FirstByte)
    /\ twi' = "free" /\ measured' = "none"
    /\ Goes(twi, [Owner EXCEPT !.at = "convert", !.got = Nothing])
    /\ UNCHANGED <<inited, polling, pointer, power, stored>>

\* or the register it points to: the timing is as init set it.
TslRead ==
    /\ ~Free /\ Runs("twi") /\ Owner.at = "reading" /\ Owner.sensor \in Tsl
    /\ LET register == pointer[Owner.sensor] IN
        \E v \in CASE register = "control" -> {IF power[Owner.sensor] THEN 3 ELSE 0}
                   [] register = "timing"  -> {2}
                   [] OTHER                -> Light :
            Goes(twi, [Owner EXCEPT !.at = "convert", !.got = <<register, v>>])
    /\ twi' = "free"
    /\ UNCHANGED <<inited, polling, buffer, measured, pointer, power, stored>>

\* A TSL2561 loses its supply and starts again, off.
PowerLost(s) ==
    /\ power[s]
    /\ power' = [power EXCEPT ![s] = FALSE]
    /\ UNCHANGED <<inited, polling, job, twi, buffer, measured, pointer, stored>>

\* Mutated: a device that does not answer is asked again.
FailedAsksAgain(c) ==
    /\ Runs(c) /\ job[c].at = "failed"
    /\ Goes(c, [job[c] EXCEPT !.at = "command"])
    /\ UNCHANGED <<inited, polling, twi, buffer, measured, pointer, power, stored>>

\* The perform returns: an error ends the job, and an init that fails frees the sensor.
Failed(c) ==
    /\ Runs(c) /\ job[c].at = "failed"
    /\ Goes(c, Ended(c))
    /\ UNCHANGED <<inited, polling, twi, buffer, measured, pointer, power, stored>>

\* What was written is to be read, or was all there is.
Written(c) ==
    LET j == job[c]
        last == j.part = Len(Registers(j.what, j.sensor))
    IN
    /\ Runs(c) /\ j.at = "written"
    /\ Goes(c, IF j.what = "read" THEN [j EXCEPT !.at = "read"] ELSE Continued(c))
    /\ inited' = CASE j.what = "init" /\ last -> inited \cup {j.sensor}
                   [] j.what = "off"          -> inited \ {j.sensor}
                   [] OTHER                   -> inited
    \* The sensor is freed, and what the next one's data holds is as malloc gives it.
    /\ stored' = IF j.what = "off" THEN stored \ {<<j.sensor, "lux">>} ELSE stored
    /\ UNCHANGED <<polling, twi, buffer, measured, pointer, power>>

\* Mutated: the result of checkCRC is dropped, as the drivers' error codes are elsewhere.
ConvertHtuUnchecked(c) ==
    /\ Runs(c) /\ job[c].at = "convert" /\ job[c].sensor = Htu
    /\ stored' = stored \cup {<<Htu, Register(job[c])>>} /\ Goes(c, Continued(c))
    /\ UNCHANGED <<inited, polling, twi, buffer, measured, pointer, power>>

\* get_htu21d_temperature and get_htu21d_humidity: a word that is good is stored at once.
ConvertHtu(c) ==
    /\ Runs(c) /\ job[c].at = "convert" /\ job[c].sensor = Htu
    /\ IF CheckCRC[buffer]
       THEN stored' = stored \cup {<<Htu, Register(job[c])>>} /\ Goes(c, Continued(c))
       ELSE UNCHANGED stored /\ Goes(c, Ended(c))
    /\ UNCHANGED <<inited, polling, twi, buffer, measured, pointer, power>>

\* Mutated: whether the sensor is on is not looked at.
AnyControl(register, value) == register = "timing" => value % 4 = 2

\* The sensor has to be on and to integrate for TSL2561_TIME2, with one byte read of each; its gain
\* is never seen, for (bool)buffer >> 4 is 0.
Passes(register, value) ==
    /\ register = "control" => value % 256 # 0
    /\ register = "timing" => value % 4 = 2

\* get_data of a TSL2561.
CheckTsl(c) ==
    LET j == job[c]
        ok == Passes(Register(j), j.got[2])
    IN
    /\ Runs(c) /\ j.at = "convert" /\ j.sensor \in Tsl /\ Register(j) # "data1"
    /\ Goes(c, IF ~ok THEN Ended(c)
               ELSE [Continued(c) EXCEPT !.data0 = IF Register(j) = "data0" THEN j.got ELSE @])
    /\ UNCHANGED <<inited, polling, twi, buffer, measured, pointer, power, stored>>

\* get_lux, unless a channel is saturated.
ConvertTsl(c) ==
    LET j == job[c] IN
    /\ Runs(c) /\ j.at = "convert" /\ j.sensor \in Tsl /\ Register(j) = "data1"
    /\ stored' = IF Saturated \in {j.data0[2], j.got[2]} THEN stored
                 ELSE stored \cup {<<j.sensor, "lux">>}
    /\ Goes(c, Ended(c))
    /\ UNCHANGED <<inited, polling, twi, buffer, measured, pointer, power>>

\* sems_ble_gatt_sensor_event_handler, which does not take the error code it is given, publishes data.
Publish ==
    /\ job["timer"].at = "handler"
    /\ Goes("timer", Idle)
    /\ UNCHANGED <<inited, polling, twi, buffer, measured, pointer, power, stored>>

Step(c) ==
    \/ StoreCommand(c) \/ Perform(c) \/ Failed(c) \/ Written(c)
    \/ ConvertHtu(c) \/ CheckTsl(c) \/ ConvertTsl(c)

Transfer == TransferFails \/ WriteDone \/ FirstByteRead \/ HtuRead \/ TslRead

Next ==
    \/ \E c \in Contexts : Step(c)
    \/ Transfer \/ Publish
    \/ \E s \in Sensors : Poll(s) \/ SetPolling(s)
    \/ \E s \in Sensors, what \in {"init", "off", "read"} : Start(what, s)
    \/ \E s \in Tsl : PowerLost(s)

\* A context that may run does, and a transfer comes to its end.
Spec ==
    /\ Init /\ [][Next]_vars
    /\ WF_vars(Step("timer")) /\ WF_vars(Publish) /\ WF_vars(Transfer)

-----------------------------------------------------------------------------
\* Types: what is stored was converted from words and channels.
TypeOK ==
    /\ {Htu} \subseteq inited /\ inited \subseteq Sensors /\ polling \subseteq inited
    /\ \A c \in Contexts :
        /\ job[c].sensor \in Sensors
        /\ job[c].what # "idle" => job[c].part \in DOMAIN Registers(job[c].what, job[c].sensor)
    /\ twi \in Contexts \cup {"free"} /\ (~Free => Owner.at \in {"writing", "reading"})
    /\ buffer \in Received /\ measured \in {"none", "temperature", "humidity"}
    /\ pointer \in [Tsl -> {"control", "timing", "data0", "data1"}] /\ power \in [Tsl -> BOOLEAN]

\* A reading of the HTU21D, a word as it may arrive.
Sent(r) == {Xor(w, e) : w \in IF r = "temperature" THEN Temperatures ELSE Humidities, e \in Noise}

\* What the check value is for: a word with a flipped bit does not pass as another one.
NoiseIsDetected ==
    \A r \in DOMAIN Command : \A b \in Sent(r) :
        CheckCRC[b] => b \in IF r = "temperature" THEN Temperatures ELSE Humidities

\* No measurement begins with the byte of a command, 0xF3 or 0xF5: it is below 119 degrees C and
\* 112 percent of relative humidity.
NoWordIsACommand ==
    \A w \in Words, e \in Noise, r \in DOMAIN Command : Xor(w, e) \cap FirstByte # Command[r]

\* What is converted if two contexts use the buffer: the first byte of one word, or of a command, and
\* the others of a word.
Mixed ==
    {(a \cap FirstByte) \cup (b \ FirstByte) :
        a \in Arrived \cup {Command.temperature, Command.humidity}, b \in Arrived}

\* The check value tells words from everything else that may be converted.
CheckTellsWords == \A b \in Mixed : CheckCRC[b] <=> b \in Words

\* A reading that is converted, and goes on or is stored.
Converts(c) == job[c].at = "convert" /\ job'[c].at # "convert"
Takes(c)    == Converts(c) /\ (stored' # stored \/ job'[c].at = "command")

\* A word is taken exactly if it arrived as it was sent, whatever was flipped, and whatever another
\* context did to the buffer while it came in.
WholeWords ==
    [][\A c \in Contexts : Converts(c) /\ job[c].sensor = Htu =>
        IF buffer \in Words THEN stored' = stored \cup {<<Htu, Register(job[c])>>}
        ELSE stored' = stored /\ job'[c] = Ended(c)]_vars

\* Unless a poll of the sensor preempts its reading in main, a reading is the sensor's own: the
\* temperature and the humidity are those it measured for them (nothing looks at the status bits,
\* which say what was measured), and a lux is of channel 0 and channel 1, of a sensor that was on
\* when the reading began.
OwnReading ==
    [][\A c \in Contexts : Takes(c) /\ ~job[c].raced =>
        CASE Register(job[c]) = "temperature" -> buffer \in Temperatures
          [] Register(job[c]) = "humidity"    -> buffer \in Humidities
          [] Register(job[c]) = "data1"       ->
                job[c].on /\ job[c].data0[1] = "data0" /\ job[c].got[1] = "data1"
          [] OTHER                            -> job[c].got[1] = Register(job[c])]_vars

\* A poll ends and its handler runs, whatever main was doing on the bus: the bus's interrupt preempts
\* app_timer's, which waits for it.
PollEnds == job["timer"] # Idle ~> job["timer"] = Idle

\* HTU21D.h:52 "setup a empty HTU21D  result data.": what the handler of a poll publishes was read,
\* or was emptied when the sensor was made.
PublishesNoGarbage == job["timer"].at = "handler" /\ job["timer"].sensor = Htu => <<Htu, "temperature">> \in stored

=============================================================================
