-------------------------- MODULE TwiReadingProofs --------------------------
(***************************************************************************)
(* A reading is the sensor's own, whatever preempts it, for every number   *)
(* of sensors and whatever words, noise and light the bus carries.         *)
(***************************************************************************)
EXTENDS TwiReading, TLAPS

TslRegister == {"control", "timing", "data0", "data1"}

Point == {"idle", "command", "write", "writing", "failed", "written",
          "read", "reading", "convert", "handler"}

\* Where the first byte of the buffer and the others come from.
First == Arrived \cup {{}, Command.temperature, Command.humidity}
Other == Arrived \cup {{}}

Got == {Nothing} \cup ({"word"} \X Arrived) \cup (TslRegister \X Nat)
Job == [what : {"idle", "read", "init", "off"}, sensor : Sensors, part : 1..4, at : Point,
        got : Got, data0 : Got, on : BOOLEAN, raced : BOOLEAN]

\* A job is at one of the registers it goes through.
InRegisters(j) == j.part \in DOMAIN Registers(j.what, j.sensor)

TypeInv ==
    /\ Htu \in inited /\ inited \subseteq Sensors /\ polling \subseteq inited
    /\ job \in [Contexts -> Job]
    /\ \A c \in Contexts : InRegisters(job[c])
    /\ twi \in Contexts \cup {"free"}
    /\ buffer \in Received /\ measured \in {"none", "temperature", "humidity"}
    /\ pointer \in [Tsl -> TslRegister] /\ power \in [Tsl -> BOOLEAN]

\* Where a context is: on the bus exactly while it waits for it, with data only where data is read.
ContextInv(c) ==
    /\ twi = c <=> job[c].at \in {"writing", "reading"}
    /\ job[c].what = "idle" \/ job[c].at = "idle" => job[c] = Idle
    /\ job[c].at = "handler" => c = "timer"
    /\ job[c].got # Nothing => job[c].at \in {"reading", "convert", "failed"}
    /\ job[c].got # Nothing /\ job[c].sensor = Htu => job[c].got[1] = "word"
    /\ job[c].what \in {"init", "off"} => c = "main" /\ job[c].sensor \in Tsl
    /\ job[c].at \in {"read", "reading", "convert"} => job[c].what = "read"

\* A poll reads a sensor that is initialised, and main initialises and uninitialises none that polls.
ControlInv ==
    /\ \A c \in Contexts : ContextInv(c)
    /\ job["timer"] # Idle =>
        job["timer"].what = "read" /\ job["timer"].sensor \in inited /\ ~job["timer"].raced
    /\ job["main"].what = "init" => job["main"].sensor \notin inited
    /\ job["main"].what = "off" => job["main"].sensor \notin polling

\* Where a context is once it has got the bus for a register, until it has converted what it read.
Busy == {"writing", "written", "read", "reading", "convert"}

\* A poll of the sensor that main reads shows in its history, and while a poll is busy main has no
\* transaction.
Alone ==
    /\ job["main"] # Idle /\ job["timer"] # Idle /\ ~job["main"].raced =>
        job["timer"].sensor # job["main"].sensor
    /\ job["timer"].at \in Busy => twi # "main"

\* A reading of the HTU21D that is not raced: the command in the buffer, if there is one, is its own,
\* and so are what is measured, the first byte that came and the word.
HtuOwn(c) ==
    LET j == job[c]
        r == Register(j)
    IN  j.what = "read" /\ j.sensor = Htu /\ ~j.raced =>
            /\ j.at = "write" => Told \subseteq {r}
            /\ j.at \in {"writing", "written", "read", "reading"} => measured \in {"none", r}
            /\ j.at = "reading" /\ j.got # Nothing =>
                j.got[2] \in Sent(r) /\ buffer \cap FirstByte = j.got[2] \cap FirstByte
            /\ j.at = "convert" => buffer \in Sent(r)

\* A reading of a TSL2561 that is not raced: the device points to the register that is asked for, and
\* the sensor was on when the reading began if it is after its control register was read.
TslOwn(c) ==
    LET j == job[c]
        r == Register(j)
    IN  j.what = "read" /\ j.sensor \in Tsl /\ ~j.raced =>
            /\ j.at \in {"writing", "written", "read", "reading"} => pointer[j.sensor] = r
            /\ j.at = "convert" => j.got[1] = r
            /\ j.part > 1 => j.on
            /\ j.part = 1 /\ power[j.sensor] => j.on
            /\ j.part = 1 /\ j.at = "convert" /\ j.got[2] % 256 # 0 => j.on
            /\ j.part = 4 => j.data0[1] = "data0"

OwnInv == Alone /\ \A c \in Contexts : HtuOwn(c) /\ TslOwn(c)

\* Whoever uses the buffer, what is converted has the first byte of a word or of a command, and the
\* others of one word.
MixedInv ==
    \A c \in Contexts : job[c].sensor = Htu =>
        /\ job[c].at = "reading" /\ job[c].got # Nothing =>
            \E a \in Arrived \cup {Command.temperature, Command.humidity} :
                buffer \cap FirstByte = a \cap FirstByte
        /\ job[c].at = "convert" => buffer \in Mixed

-----------------------------------------------------------------------------
(* Jobs.                                                                     *)

\* The registers of each kind of job.
LEMMA RegistersOf ==
    ASSUME NEW s \in Sensors
    PROVE  /\ Registers("read", Htu) = <<"temperature", "humidity">>
           /\ s # Htu => Registers("read", s) = <<"control", "timing", "data0", "data1">>
           /\ Registers("init", s) = <<"control", "timing">>
           /\ Registers("off", s) = <<"control">> /\ Registers("idle", s) = <<"control">>
  BY DEF Registers

\* The register a job is at, and whether it is the last.
LEMMA RegisterAt ==
    ASSUME NEW j \in Job, InRegisters(j)
    PROVE  LET n == Len(Registers(j.what, j.sensor)) IN
           /\ n \in 1..4 /\ j.part \in 1..n
           /\ j.what = "read" /\ j.sensor = Htu =>
                n = 2 /\ Register(j) = IF j.part = 1 THEN "temperature" ELSE "humidity"
           /\ j.what = "read" /\ j.sensor # Htu =>
                /\ n = 4
                /\ j.part = 1 <=> Register(j) = "control"
                /\ j.part = 2 <=> Register(j) = "timing"
                /\ j.part = 3 <=> Register(j) = "data0"
                /\ j.part = 4 <=> Register(j) = "data1"
           /\ j.what # "read" => Register(j) \in TslRegister
           /\ \A k \in Job : k.what = j.what /\ k.sensor = j.sensor /\ k.part \in 1..n => InRegisters(k)
<1>1. j.sensor \in Sensors /\ j.what \in {"idle", "read", "init", "off"} /\ j.part \in 1..4
  BY DEF Job
<1>2. CASE j.what = "read" /\ j.sensor = Htu
  <2>1. Registers(j.what, j.sensor) = <<"temperature", "humidity">>
    BY <1>1, <1>2, RegistersOf
  <2> QED BY <1>1, <1>2, <2>1 DEF InRegisters, Register
<1>3. CASE j.what = "read" /\ j.sensor # Htu
  <2>1. Registers(j.what, j.sensor) = <<"control", "timing", "data0", "data1">>
    BY <1>1, <1>3, RegistersOf
  <2> QED BY <1>1, <1>3, <2>1 DEF InRegisters, Register
<1>4. CASE j.what = "init"
  <2>1. Registers(j.what, j.sensor) = <<"control", "timing">>
    BY <1>1, <1>4, RegistersOf
  <2> QED BY <1>1, <1>4, <2>1 DEF InRegisters, Register, TslRegister
<1>5. CASE j.what \in {"off", "idle"}
  <2>1. Registers(j.what, j.sensor) = <<"control">>
    BY <1>1, <1>5, RegistersOf
  <2> QED BY <1>1, <1>5, <2>1 DEF InRegisters, Register, TslRegister
<1> QED BY <1>1, <1>2, <1>3, <1>4, <1>5

\* A context that does nothing.
LEMMA IdleJob ==
    /\ Idle \in Job /\ InRegisters(Idle)
    /\ Idle.what = "idle" /\ Idle.at = "idle" /\ Idle.got = Nothing /\ Idle.sensor = Htu
    /\ Idle.part = 1 /\ ~Idle.raced
<1>1. Idle \in Job /\ Idle.what = "idle" /\ Idle.part = 1
  BY DEF Idle, Job, Sensors, Point, Got
<1>2. Registers(Idle.what, Idle.sensor) = <<"control">>
  BY <1>1, RegistersOf DEF Job
<1> QED BY <1>1, <1>2 DEF Idle, InRegisters

\* A job that begins.
LEMMA BeginJob ==
    ASSUME TypeInv, NEW what \in {"read", "init", "off"}, NEW s \in Sensors
    PROVE  LET j == Begin(what, s) IN
           /\ j \in Job /\ InRegisters(j)
           /\ j.what = what /\ j.sensor = s /\ j.part = 1 /\ j.at = "command" /\ j.got = Nothing
           /\ s \in Tsl /\ power[s] => j.on
           /\ ~j.raced
<1> DEFINE j == Begin(what, s)
<1> DEFINE on == s \in Tsl /\ power[s]
<1>0. on \in BOOLEAN /\ Nothing \in Got
  BY DEF TypeInv, Got
<1>1. /\ j \in Job /\ j.what = what /\ j.sensor = s /\ j.part = 1 /\ j.at = "command" /\ j.got = Nothing
      /\ j.on = on /\ ~j.raced
  <2>1. j = [Idle EXCEPT !.what = what, !.sensor = s, !.at = "command", !.on = on]
    BY DEF Begin
  <2> HIDE DEF on, j
  <2> QED BY <1>0, <2>1, IdleJob DEF Job, Point
<1>2. InRegisters(j)
  BY <1>1, RegistersOf DEF InRegisters, Job
<1>3. s \in Tsl /\ power[s] => j.on
  <2>1. on => j.on
    <3> HIDE DEF on, j
    <3> QED BY <1>1
  <2> HIDE DEF j
  <2> QED BY <2>1
<1> QED BY <1>1, <1>2, <1>3

\* A job that ends: of main, and of a poll.
LEMMA EndedJob ==
    ASSUME TypeInv, NEW c \in Contexts
    PROVE  LET k == Ended(c) IN
           /\ k \in Job /\ InRegisters(k) /\ k.got = Nothing
           /\ c = "main" => k = Idle
           /\ c = "timer" => /\ k.at = "handler"
                             /\ k.what = job[c].what /\ k.sensor = job[c].sensor
                             /\ k.part = job[c].part /\ k.raced = job[c].raced
                             /\ k.on = job[c].on /\ k.data0 = job[c].data0
<1>1. job[c] \in Job /\ InRegisters(job[c])
  BY DEF TypeInv
<1>2. CASE c = "main"
  BY <1>2, IdleJob DEF Ended
<1>3. CASE c = "timer"
  <2>1. Ended(c) = [job[c] EXCEPT !.at = "handler", !.got = Nothing]
    BY <1>3 DEF Ended
  <2> QED BY <1>1, <1>3, <2>1 DEF Job, Point, Got, InRegisters
<1> QED BY <1>2, <1>3 DEF Contexts

\* A job that goes on, or ends after its last register.
LEMMA ContinuedJob ==
    ASSUME TypeInv, NEW c \in Contexts
    PROVE  LET j == job[c]
               k == Continued(c)
               n == Len(Registers(j.what, j.sensor))
           IN  /\ j.part = n => k = Ended(c)
               /\ j.part # n => /\ k \in Job /\ InRegisters(k)
                                /\ k.at = "command" /\ k.got = Nothing /\ k.part = j.part + 1
                                /\ k.what = j.what /\ k.sensor = j.sensor
                                /\ k.data0 = j.data0 /\ k.on = j.on /\ k.raced = j.raced
<1> DEFINE j == job[c]
           n == Len(Registers(j.what, j.sensor))
           k == [j EXCEPT !.part = @ + 1, !.at = "command", !.got = Nothing]
<1>1. j \in Job /\ InRegisters(j)
  BY DEF TypeInv
<1>2. n \in 1..4 /\ j.part \in 1..n
  BY <1>1, RegisterAt
<1>3. ASSUME j.part # n
      PROVE  /\ k \in Job /\ k.part \in 1..n
             /\ k.at = "command" /\ k.got = Nothing /\ k.part = j.part + 1
             /\ k.what = j.what /\ k.sensor = j.sensor
             /\ k.data0 = j.data0 /\ k.on = j.on /\ k.raced = j.raced
  <2>0. Nothing \in Got
    BY DEF Got
  <2>1. j.part + 1 \in 1..n /\ j.part + 1 \in 1..4
    <3> HIDE DEF n, j
    <3> QED BY <1>2, <1>3
  <2> HIDE DEF n
  <2> QED BY <1>1, <2>0, <2>1 DEF Job, Point
<1>4. ASSUME j.part # n PROVE InRegisters(k)
  <2> HIDE DEF k
  <2> QED BY <1>1, <1>3, <1>4, RegisterAt
<1> QED BY <1>3, <1>4 DEF Continued

\* One context's job changes.
LEMMA JobGoes ==
    ASSUME TypeInv, NEW c \in Contexts, NEW k \in Job, InRegisters(k), Goes(c, k)
    PROVE  /\ job' \in [Contexts -> Job] /\ \A d \in Contexts : InRegisters(job[d])'
           /\ job'[c] = k /\ \A d \in Contexts : d # c => job'[d] = job[d]
<1>1. /\ job' \in [Contexts -> Job]
      /\ job'[c] = k /\ \A d \in Contexts : d # c => job'[d] = job[d]
  BY DEF Goes, TypeInv
<1> QED BY <1>1 DEF TypeInv, InRegisters

\* A job that only moves on to another point.
LEMMA JobMoves ==
    ASSUME TypeInv, NEW c \in Contexts, NEW point \in Point
    PROVE  LET k == [job[c] EXCEPT !.at = point] IN
           /\ k \in Job /\ InRegisters(k) /\ k.at = point
           /\ k.what = job[c].what /\ k.sensor = job[c].sensor /\ k.part = job[c].part
           /\ k.got = job[c].got /\ k.data0 = job[c].data0 /\ k.on = job[c].on /\ k.raced = job[c].raced
  BY DEF TypeInv, Job, InRegisters

\* Main runs only if app_timer's interrupt does not, the bus's interrupt always.
LEMMA WhoRuns ==
    /\ Runs("main") <=> job["timer"] = Idle
    /\ Runs("timer") /\ Runs("twi")
  BY DEF Runs, Priority

-----------------------------------------------------------------------------
(* Types and control.                                                        *)

\* A context's job goes on to what it may be, or is over.
LEMMA ControlKept ==
    ASSUME TypeInv, ControlInv, NEW c \in Contexts, NEW k \in Job, InRegisters(k), Goes(c, k),
           \/ k = Idle
           \/ /\ k.what = job[c].what /\ k.sensor = job[c].sensor /\ k.raced = job[c].raced
              /\ job[c] # Idle /\ k.at # "idle",
           polling' = polling, inited' = inited \/ (c = "main" /\ k = Idle),
           \A d \in Contexts : twi' = d <=> IF d = c THEN k.at \in {"writing", "reading"} ELSE twi = d,
           k.at = "handler" => c = "timer",
           k.got # Nothing => k.at \in {"reading", "convert", "failed"},
           k.got # Nothing /\ k.sensor = Htu => k.got[1] = "word",
           k.at \in {"read", "reading", "convert"} => k.what = "read",
           inited' # inited => job["timer"] = Idle
    PROVE  ControlInv' /\ job' \in [Contexts -> Job] /\ \A d \in Contexts : InRegisters(job[d])'
<1>1. /\ job' \in [Contexts -> Job] /\ \A d \in Contexts : InRegisters(job[d])'
      /\ job'[c] = k /\ \A d \in Contexts : d # c => job'[d] = job[d]
  BY JobGoes
<1>2. /\ Idle.what = "idle" /\ Idle.at = "idle" /\ Idle.got = Nothing
  BY IdleJob
<1>3. ASSUME NEW d \in Contexts PROVE ContextInv(d)'
  <2>1. CASE d = c
    BY <1>1, <1>2, <2>1 DEF ControlInv, ContextInv
  <2>2. CASE d # c
    BY <1>1, <2>2 DEF ControlInv, ContextInv
  <2> QED BY <2>1, <2>2
<1>4. job'["timer"] # Idle =>
        job'["timer"].what = "read" /\ job'["timer"].sensor \in inited' /\ ~job'["timer"].raced
  BY <1>1 DEF ControlInv, Contexts
<1>5. job'["main"].what = "init" => job'["main"].sensor \notin inited'
  BY <1>1, <1>2 DEF ControlInv, Contexts
<1>6. job'["main"].what = "off" => job'["main"].sensor \notin polling'
  BY <1>1, <1>2 DEF ControlInv, Contexts
<1> QED BY <1>1, <1>3, <1>4, <1>5, <1>6 DEF ControlInv

\* What the buffer can hold.
LEMMA ReceivedBytes ==
    /\ \A x \in First, y \in Other : (x \cap FirstByte) \cup (y \ FirstByte) \in Received
    /\ \A b \in Received : \E x \in First, y \in Other : b = (x \cap FirstByte) \cup (y \ FirstByte)
<1> DEFINE Bytes(x, y) == (x \cap FirstByte) \cup (y \ FirstByte)
<1>1. Received = {Bytes(x, y) : x \in First, y \in Other}
  BY DEF Received, First, Other
<1> HIDE DEF Bytes
<1>2. /\ \A x \in First, y \in Other : Bytes(x, y) \in Received
      /\ \A b \in Received : \E x \in First, y \in Other : b = Bytes(x, y)
  BY <1>1
<1> QED BY <1>2 DEF Bytes

\* The bytes of words and commands that come to the buffer leave it with such bytes.
LEMMA BytesReceived ==
    ASSUME NEW b \in Received
    PROVE  /\ \A a \in Arrived : /\ (a \cap FirstByte) \cup (b \ FirstByte) \in Received
                                 /\ (b \cap FirstByte) \cup (a \ FirstByte) \in Received
           /\ \A r \in DOMAIN Command : (b \ FirstByte) \cup Command[r] \in Received
<1>1. PICK x \in First, y \in Other :
        b = (x \cap FirstByte) \cup (y \ FirstByte)
  BY ReceivedBytes
<1>2. ASSUME NEW a \in First, NEW z \in Other
      PROVE  (a \cap FirstByte) \cup (z \ FirstByte) \in Received
  BY ReceivedBytes
<1>3. ASSUME NEW a \in Arrived
      PROVE  /\ (a \cap FirstByte) \cup (b \ FirstByte) \in Received
             /\ (b \cap FirstByte) \cup (a \ FirstByte) \in Received
  <2>0. a \in First /\ a \in Other
    BY DEF First, Other
  <2>1. (a \cap FirstByte) \cup (b \ FirstByte) = (a \cap FirstByte) \cup (y \ FirstByte)
    BY <1>1
  <2>2. (b \cap FirstByte) \cup (a \ FirstByte) = (x \cap FirstByte) \cup (a \ FirstByte)
    BY <1>1
  <2> QED BY <1>2, <2>0, <2>1, <2>2
<1>4. ASSUME NEW r \in DOMAIN Command
      PROVE  (b \ FirstByte) \cup Command[r] \in Received
  <2>1. Command[r] \in First /\ Command[r] \subseteq FirstByte
    BY DEF Command, FirstByte, First
  <2>2. (b \ FirstByte) \cup Command[r] = (Command[r] \cap FirstByte) \cup (y \ FirstByte)
    BY <1>1, <2>1
  <2> QED BY <1>2, <2>1, <2>2
<1> QED BY <1>3, <1>4

\* Nothing polls, and nobody is on the bus, when main starts.
LEMMA InitControl == Init => TypeInv /\ ControlInv
<1> SUFFICES ASSUME Init PROVE TypeInv /\ ControlInv
  OBVIOUS
<1>1. {} \in Received
  <2>1. {} \in First /\ {} \in Other /\ {} = ({} \cap FirstByte) \cup ({} \ FirstByte)
    BY DEF First, Other
  <2> QED BY <2>1, ReceivedBytes
<1>2. TypeInv
  BY <1>1, IdleJob DEF Init, TypeInv, Sensors, Contexts, TslRegister
<1>3. ControlInv
  BY IdleJob DEF Init, ControlInv, ContextInv, Contexts
<1> QED BY <1>2, <1>3

\* Main starts a job.
LEMMA StartControl ==
    ASSUME TypeInv, ControlInv, NEW what \in {"init", "off", "read"}, NEW s \in Sensors, Start(what, s)
    PROVE  TypeInv' /\ ControlInv'
<1> DEFINE k == Begin(what, s)
<1>1. /\ k \in Job /\ InRegisters(k)
      /\ k.what = what /\ k.sensor = s /\ k.at = "command" /\ k.got = Nothing
  BY BeginJob
<1>2. /\ Goes("main", k) /\ job["timer"] = Idle /\ job["main"] = Idle
      /\ what = "init" => s \in Tsl \ inited
      /\ what = "off" => s \in Tsl \ polling
      /\ UNCHANGED <<inited, polling, twi, buffer, measured, pointer, power, stored>>
  BY WhoRuns DEF Start
<1> HIDE DEF k
<1>3. /\ job' \in [Contexts -> Job] /\ \A d \in Contexts : InRegisters(job[d])'
      /\ job'["main"] = k /\ job'["timer"] = job["timer"]
  BY <1>1, <1>2, JobGoes DEF Contexts
<1>4. TypeInv'
  BY <1>2, <1>3 DEF TypeInv
<1>5. ControlInv'
  BY <1>1, <1>2, <1>3, IdleJob DEF ControlInv, ContextInv, Contexts
<1> QED BY <1>4, <1>5

\* A poll begins.
LEMMA PollControl ==
    ASSUME TypeInv, ControlInv, NEW s \in Sensors, Poll(s)
    PROVE  TypeInv' /\ ControlInv'
<1> DEFINE k == Begin("read", s)
           m == IF job["main"] # Idle /\ job["main"].sensor = s
                THEN [job["main"] EXCEPT !.raced = TRUE] ELSE job["main"]
<1>1. /\ k \in Job /\ InRegisters(k)
      /\ k.what = "read" /\ k.sensor = s /\ k.at = "command" /\ k.got = Nothing /\ ~k.raced
  BY BeginJob
<1>2. job["main"] \in Job /\ InRegisters(job["main"])
  BY DEF TypeInv, Contexts
<1>3. /\ m \in Job /\ m.what = job["main"].what /\ m.sensor = job["main"].sensor /\ m.at = job["main"].at
      /\ m.part = job["main"].part /\ m.got = job["main"].got /\ (job["main"] = Idle => m = Idle)
  BY <1>2 DEF Job
<1>4. /\ job' = [timer |-> k, main |-> m] /\ job["timer"] = Idle /\ s \in polling
      /\ UNCHANGED <<inited, polling, twi, buffer, measured, pointer, power, stored>>
  BY DEF Poll
<1> HIDE DEF k, m
<1>5. job' \in [Contexts -> Job] /\ job'["timer"] = k /\ job'["main"] = m
  BY <1>1, <1>3, <1>4 DEF Contexts
<1>6. TypeInv'
  BY <1>1, <1>2, <1>3, <1>4, <1>5 DEF TypeInv, Contexts, InRegisters
<1>7. ControlInv'
  BY <1>1, <1>3, <1>4, <1>5, IdleJob DEF ControlInv, ContextInv, Contexts, TypeInv
<1> QED BY <1>6, <1>7

\* A poll timer starts or stops, of a sensor that is initialised.
LEMMA SetPollingControl ==
    ASSUME TypeInv, ControlInv, NEW s \in Sensors, SetPolling(s)
    PROVE  TypeInv' /\ ControlInv'
<1>1. job["main"].what = "off" => job["main"].sensor # s
  BY IdleJob DEF SetPolling
<1>2. /\ s \in inited /\ polling' \subseteq polling \cup {s}
      /\ UNCHANGED <<inited, job, twi, buffer, measured, pointer, power, stored>>
  BY DEF SetPolling
<1> QED BY <1>1, <1>2 DEF TypeInv, ControlInv, ContextInv, InRegisters

\* A sensor and the registers of its jobs.
LEMMA OfSensor ==
    ASSUME TypeInv, ControlInv, NEW c \in Contexts, job[c].at # "idle"
    PROVE  /\ job[c] \in Job /\ InRegisters(job[c]) /\ job[c] # Idle
           /\ job[c].what \in {"read", "init", "off"}
           /\ job[c].sensor = Htu => job[c].what = "read" /\ Register(job[c]) \in DOMAIN Command
           /\ job[c].sensor \in Tsl => Register(job[c]) \in TslRegister
           /\ job[c].sensor \in Tsl <=> job[c].sensor # Htu
<1>1. job[c] \in Job /\ InRegisters(job[c]) /\ ContextInv(c)
  BY DEF TypeInv, ControlInv
<1>2. job[c] # Idle /\ job[c].what # "idle"
  BY <1>1, IdleJob DEF ContextInv
<1>3. DOMAIN Command = {"temperature", "humidity"}
  BY DEF Command
<1>4. job[c].sensor \in Tsl <=> job[c].sensor # Htu
  <2>1. job[c].sensor \in Sensors
    BY <1>1 DEF Job
  <2>2. Htu \notin Tsl
    BY WordAssumption
  <2> QED BY <2>1, <2>2 DEF Sensors
<1>5. job[c].what \in {"read", "init", "off"} /\ (job[c].sensor = Htu => job[c].what = "read")
  BY <1>1, <1>2, <1>4 DEF Job, ContextInv
<1>6. /\ job[c].sensor = Htu => Register(job[c]) \in DOMAIN Command
      /\ job[c].sensor \in Tsl => Register(job[c]) \in TslRegister
  <2>1. CASE job[c].sensor = Htu
    <3>1. Register(job[c]) = IF job[c].part = 1 THEN "temperature" ELSE "humidity"
      BY <1>1, <1>5, <2>1, RegisterAt
    <3> QED BY <1>3, <1>4, <2>1, <3>1
  <2>2. CASE job[c].what # "read"
    <3>1. Register(job[c]) \in TslRegister
      BY <1>1, <2>2, RegisterAt
    <3> QED BY <1>5, <2>2, <3>1
  <2>3. CASE job[c].sensor # Htu /\ job[c].what = "read"
    <3>1. /\ job[c].part \in 1..4
          /\ job[c].part = 1 <=> Register(job[c]) = "control"
          /\ job[c].part = 2 <=> Register(job[c]) = "timing"
          /\ job[c].part = 3 <=> Register(job[c]) = "data0"
          /\ job[c].part = 4 <=> Register(job[c]) = "data1"
      BY <1>1, <2>3, RegisterAt
    <3>2. job[c].part = 1 \/ job[c].part = 2 \/ job[c].part = 3 \/ job[c].part = 4
      BY <3>1
    <3>3. Register(job[c]) \in TslRegister
      BY <3>1, <3>2 DEF TslRegister
    <3> QED BY <2>3, <3>3
  <2> QED BY <2>1, <2>2, <2>3
<1> QED BY <1>1, <1>2, <1>4, <1>5, <1>6

\* The command is stored.
LEMMA StoreCommandControl ==
    ASSUME TypeInv, ControlInv, NEW c \in Contexts, StoreCommand(c)
    PROVE  TypeInv' /\ ControlInv'
<1> DEFINE k == [job[c] EXCEPT !.at = "write"]
<1>1. /\ job[c].at = "command" /\ Goes(c, k)
      /\ buffer' = IF job[c].sensor = Htu THEN (buffer \ FirstByte) \cup Command[Register(job[c])]
                   ELSE buffer
      /\ UNCHANGED <<inited, polling, twi, measured, pointer, power, stored>>
  BY DEF StoreCommand
<1>2. /\ k \in Job /\ InRegisters(k) /\ k.at = "write"
      /\ k.what = job[c].what /\ k.sensor = job[c].sensor /\ k.got = job[c].got /\ k.raced = job[c].raced
  BY JobMoves DEF Point
<1>3. /\ job[c] # Idle /\ ContextInv(c)
      /\ job[c].sensor = Htu => Register(job[c]) \in DOMAIN Command
  BY <1>1, OfSensor DEF ControlInv
<1>4. buffer' \in Received
  BY <1>1, <1>3, BytesReceived DEF TypeInv
<1> HIDE DEF k
<1>5. ControlInv' /\ job' \in [Contexts -> Job] /\ \A d \in Contexts : InRegisters(job[d])'
  BY <1>1, <1>2, <1>3, ControlKept DEF ContextInv
<1> QED BY <1>1, <1>4, <1>5 DEF TypeInv

\* The transaction is performed, or refused.
LEMMA PerformControl ==
    ASSUME TypeInv, ControlInv, NEW c \in Contexts, Perform(c)
    PROVE  TypeInv' /\ ControlInv'
<1> DEFINE j == job[c]
           point == IF j.at = "write" THEN "writing" ELSE "reading"
           k == IF ~Free THEN Ended(c) ELSE [j EXCEPT !.at = point]
<1>1. /\ j.at \in {"write", "read"} /\ Goes(c, k) /\ twi' = IF Free THEN c ELSE twi
      /\ UNCHANGED <<inited, polling, buffer, power, stored>>
  BY DEF Perform
<1>2. measured' \in {measured, "none"} \cup Told /\ Told \subseteq {"temperature", "humidity"}
  BY DEF Perform, Told, Command
<1>3. pointer' = pointer \/ (j.sensor \in Tsl /\ pointer' = [pointer EXCEPT ![j.sensor] = Register(j)])
  BY DEF Perform
<1>4. /\ j # Idle /\ ContextInv(c) /\ j \in Job
      /\ j.sensor \in Tsl => Register(j) \in TslRegister
  BY <1>1, OfSensor DEF ControlInv
<1>5. CASE Free
  <2>1. /\ k \in Job /\ InRegisters(k) /\ k.at = point
        /\ k.what = j.what /\ k.sensor = j.sensor /\ k.got = j.got /\ k.raced = j.raced
    <3>1. point \in Point
      BY DEF Point
    <3>2. k = [job[c] EXCEPT !.at = point]
      BY <1>5
    <3> HIDE DEF point, k
    <3> QED BY <3>1, <3>2, JobMoves
  <2>2. \A d \in Contexts : twi' = d <=> IF d = c THEN k.at \in {"writing", "reading"} ELSE twi = d
    BY <1>1, <1>5, <2>1 DEF Free, Contexts
  <2>3. k.at = "reading" => k.what = "read"
    BY <1>1, <1>4, <2>1 DEF ContextInv
  <2>4. k.at \in {"writing", "reading"} /\ k.got = Nothing
    BY <1>1, <1>4, <2>1 DEF ContextInv
  <2> HIDE DEF k
  <2>5. ControlInv' /\ job' \in [Contexts -> Job] /\ \A d \in Contexts : InRegisters(job[d])'
    BY <1>1, <1>4, <2>1, <2>2, <2>3, <2>4, ControlKept
  <2> QED BY <1>1, <1>2, <1>3, <1>4, <2>5, <1>5 DEF TypeInv, Free
<1>6. CASE ~Free
  <2>1. /\ k = Ended(c) /\ k \in Job /\ InRegisters(k) /\ k.got = Nothing
        /\ c = "main" => k = Idle
        /\ c = "timer" => k.at = "handler" /\ k.what = j.what /\ k.sensor = j.sensor /\ k.raced = j.raced
    BY <1>6, EndedJob
  <2>2. k.at \in {"idle", "handler"} /\ (k.at = "handler" => c = "timer")
    BY <2>1, IdleJob DEF Contexts
  <2>3. \A d \in Contexts : twi' = d <=> IF d = c THEN k.at \in {"writing", "reading"} ELSE twi = d
    BY <1>1, <1>4, <1>6, <2>2 DEF ContextInv
  <2> HIDE DEF k
  <2>4. ControlInv' /\ job' \in [Contexts -> Job] /\ \A d \in Contexts : InRegisters(job[d])'
    BY <1>1, <1>4, <2>1, <2>2, <2>3, ControlKept DEF Contexts
  <2> QED BY <1>1, <1>2, <1>3, <1>4, <2>4, <1>6 DEF TypeInv
<1> QED BY <1>5, <1>6

\* What the bus's interrupt does to the job it belongs to.
LEMMA TransferControl ==
    ASSUME TypeInv, ControlInv, ~Free, NEW point \in {"failed", "written", "convert"}, NEW got \in Got,
           Goes(twi, [Owner EXCEPT !.at = point, !.got = got]), twi' = "free",
           got # Nothing => point \in {"convert", "failed"},
           got # Nothing /\ Owner.sensor = Htu => got[1] = "word",
           point = "convert" => Owner.at = "reading",
           UNCHANGED <<inited, polling>>
    PROVE  ControlInv' /\ job' \in [Contexts -> Job] /\ \A d \in Contexts : InRegisters(job[d])'
<1> DEFINE k == [Owner EXCEPT !.at = point, !.got = got]
<1>1. twi \in Contexts /\ Owner = job[twi] /\ Goes(twi, k)
  BY DEF TypeInv, Free, Owner
<1>2. Owner \in Job /\ InRegisters(Owner) /\ ContextInv(twi)
  BY <1>1 DEF TypeInv, ControlInv
<1>3. Owner.at \in {"writing", "reading"} /\ Owner # Idle
  BY <1>1, <1>2, IdleJob DEF ContextInv
<1>4. /\ k \in Job /\ k.at = point /\ k.got = got
      /\ k.what = Owner.what /\ k.sensor = Owner.sensor /\ k.part = Owner.part /\ k.raced = Owner.raced
  BY <1>2 DEF Job, Point
<1>5. InRegisters(k)
  BY <1>2, <1>4 DEF InRegisters
<1>6. \A d \in Contexts : twi' = d <=> IF d = twi THEN k.at \in {"writing", "reading"} ELSE twi = d
  BY <1>4 DEF Contexts
<1>7. k.at \in {"read", "reading", "convert"} => k.what = "read"
  BY <1>1, <1>2, <1>4 DEF ContextInv
<1> HIDE DEF k
<1> QED BY <1>1, <1>3, <1>4, <1>5, <1>6, <1>7, ControlKept

\* A transfer that fails.
LEMMA TransferFailsControl ==
    ASSUME TypeInv, ControlInv, TransferFails
    PROVE  TypeInv' /\ ControlInv'
<1>1. /\ ~Free /\ twi' = "free" /\ Goes(twi, [Owner EXCEPT !.at = "failed"])
      /\ UNCHANGED <<inited, polling, buffer, measured, pointer, power, stored>>
  BY DEF TransferFails
<1>2. Owner \in Job /\ (Owner.got # Nothing /\ Owner.sensor = Htu => Owner.got[1] = "word")
  BY <1>1 DEF TypeInv, ControlInv, ContextInv, Owner, Free
<1>3. [Owner EXCEPT !.at = "failed"] = [Owner EXCEPT !.at = "failed", !.got = Owner.got] /\ Owner.got \in Got
  BY <1>2 DEF Job
<1>4. ControlInv' /\ job' \in [Contexts -> Job] /\ \A d \in Contexts : InRegisters(job[d])'
  BY <1>1, <1>2, <1>3, TransferControl
<1> QED BY <1>1, <1>4 DEF TypeInv

\* What is written has arrived.
LEMMA WriteDoneControl ==
    ASSUME TypeInv, ControlInv, WriteDone
    PROVE  TypeInv' /\ ControlInv'
<1>1. /\ ~Free /\ Owner.at = "writing" /\ twi' = "free" /\ Goes(twi, [Owner EXCEPT !.at = "written"])
      /\ \/ power' = power
         \/ power' = [power EXCEPT ![Owner.sensor] = (Owner.what = "init")]
      /\ UNCHANGED <<inited, polling, buffer, measured, pointer, stored>>
  BY DEF WriteDone
<1>2. Owner \in Job /\ Owner.got = Nothing
  BY <1>1 DEF TypeInv, ControlInv, ContextInv, Owner, Free
<1>3. [Owner EXCEPT !.at = "written"] = [Owner EXCEPT !.at = "written", !.got = Nothing] /\ Nothing \in Got
  BY <1>2 DEF Job, Got
<1>4. ControlInv' /\ job' \in [Contexts -> Job] /\ \A d \in Contexts : InRegisters(job[d])'
  BY <1>1, <1>3, TransferControl
<1>5. power' \in [Tsl -> BOOLEAN]
  BY <1>1 DEF TypeInv
<1> QED BY <1>1, <1>4, <1>5 DEF TypeInv

\* The first byte of a measurement, and of what is got.
LEMMA FirstByteControl ==
    ASSUME TypeInv, ControlInv, FirstByteRead
    PROVE  TypeInv' /\ ControlInv'
<1>1. /\ twi \in Contexts /\ Owner = job[twi] /\ Owner.at = "reading" /\ Owner.sensor = Htu
      /\ UNCHANGED <<inited, polling, twi, measured, pointer, power, stored>>
  BY DEF FirstByteRead, TypeInv, Owner, Free
<1>2. PICK w \in Words, e \in Noise :
        /\ Goes(twi, [Owner EXCEPT !.got = <<"word", Xor(w, e)>>])
        /\ buffer' = (Xor(w, e) \cap FirstByte) \cup (buffer \ FirstByte)
  BY DEF FirstByteRead, Words
<1> DEFINE a == Xor(w, e)
           k == [Owner EXCEPT !.got = <<"word", a>>]
<1>3. a \in Arrived
  BY DEF Arrived
<1> HIDE DEF a
<1>4. Owner \in Job /\ InRegisters(Owner) /\ ContextInv(twi) /\ Owner # Idle
  BY <1>1, IdleJob DEF TypeInv, ControlInv
<1>5. <<"word", a>> \in Got /\ <<"word", a>>[1] = "word"
  BY <1>3 DEF Got
<1>6. /\ k \in Job /\ k.at = "reading" /\ k.got = <<"word", a>> /\ k.what = Owner.what
      /\ k.sensor = Owner.sensor /\ k.part = Owner.part /\ k.raced = Owner.raced
  BY <1>1, <1>4, <1>5 DEF Job
<1>7. InRegisters(k) /\ k.what = "read"
  BY <1>1, <1>4, <1>6 DEF InRegisters, ContextInv
<1>8. \A d \in Contexts : twi' = d <=> IF d = twi THEN k.at \in {"writing", "reading"} ELSE twi = d
  BY <1>1, <1>6
<1>9. buffer' \in Received
  BY <1>2, <1>3, BytesReceived DEF TypeInv, a
<1>10. Goes(twi, k)
  BY <1>2 DEF a
<1> HIDE DEF k
<1>11. ControlInv' /\ job' \in [Contexts -> Job] /\ \A d \in Contexts : InRegisters(job[d])'
  BY <1>1, <1>4, <1>5, <1>6, <1>7, <1>8, <1>10, ControlKept
<1> QED BY <1>1, <1>9, <1>11 DEF TypeInv

\* The others, and a word is there.
LEMMA HtuReadControl ==
    ASSUME TypeInv, ControlInv, HtuRead
    PROVE  TypeInv' /\ ControlInv'
<1>1. /\ ~Free /\ Owner.sensor = Htu /\ Owner.got # Nothing /\ twi' = "free" /\ measured' = "none"
      /\ buffer' = (buffer \cap FirstByte) \cup (Owner.got[2] \ FirstByte)
      /\ Goes(twi, [Owner EXCEPT !.at = "convert", !.got = Nothing])
      /\ UNCHANGED <<inited, polling, pointer, power, stored>>
  BY DEF HtuRead
<1>2. /\ Owner \in Job /\ Owner.got[1] = "word"
      /\ Owner.at \in {"writing", "reading"} /\ Owner.at \in {"reading", "convert", "failed"}
  BY <1>1 DEF TypeInv, ControlInv, ContextInv, Owner, Free
<1>3. Owner.got[2] \in Arrived
  BY <1>1, <1>2 DEF Job, Got, TslRegister
<1>4. buffer' \in Received
  BY <1>1, <1>3, BytesReceived DEF TypeInv
<1>5. ControlInv' /\ job' \in [Contexts -> Job] /\ \A d \in Contexts : InRegisters(job[d])'
  <2>1. Nothing \in Got
    BY DEF Got
  <2> QED BY <1>1, <1>2, <2>1, TransferControl
<1> QED BY <1>1, <1>4, <1>5 DEF TypeInv

\* The register of a TSL2561 is read.
LEMMA TslReadControl ==
    ASSUME TypeInv, ControlInv, TslRead
    PROVE  TypeInv' /\ ControlInv'
<1>1. /\ ~Free /\ Owner.at = "reading" /\ Owner.sensor \in Tsl /\ twi' = "free"
      /\ UNCHANGED <<inited, polling, buffer, measured, pointer, power, stored>>
  BY DEF TslRead
<1>2. PICK v \in {0, 2, 3} \cup Light :
        Goes(twi, [Owner EXCEPT !.at = "convert", !.got = <<pointer[Owner.sensor], v>>])
  BY DEF TslRead
<1>3. <<pointer[Owner.sensor], v>> \in Got
  <2>1. Light \subseteq 0..Saturated
    BY WordAssumption
  <2>2. Saturated \in Nat
    BY SMT DEF Saturated
  <2>3. v \in Nat
    BY <2>1, <2>2
  <2> QED BY <1>1, <2>3 DEF TypeInv, Got
<1>4. Owner.sensor # Htu
  BY <1>1, WordAssumption
<1>5. ControlInv' /\ job' \in [Contexts -> Job] /\ \A d \in Contexts : InRegisters(job[d])'
  BY <1>1, <1>2, <1>3, <1>4, TransferControl
<1> QED BY <1>1, <1>5 DEF TypeInv

\* A job that ends or goes on to the next register.
LEMMA GoesOn ==
    ASSUME TypeInv, ControlInv, NEW c \in Contexts, job[c].at \notin {"idle", "writing", "reading"},
           NEW k \in {Ended(c), Continued(c)}, Goes(c, k), twi' = twi, polling' = polling,
           inited' = inited \/ (c = "main" /\ k = Idle /\ job["timer"] = Idle)
    PROVE  ControlInv' /\ job' \in [Contexts -> Job] /\ \A d \in Contexts : InRegisters(job[d])'
<1>1. job[c] # Idle /\ ContextInv(c)
  BY OfSensor DEF ControlInv
<1>2. /\ k \in Job /\ InRegisters(k) /\ k.got = Nothing
      /\ \/ k = Idle
         \/ /\ k.what = job[c].what /\ k.sensor = job[c].sensor /\ k.raced = job[c].raced
            /\ k.at \in {"command", "handler"} /\ (k.at = "handler" => c = "timer")
  BY EndedJob, ContinuedJob, IdleJob DEF Contexts
<1>3. \A d \in Contexts : twi' = d <=> IF d = c THEN k.at \in {"writing", "reading"} ELSE twi = d
  BY <1>1, <1>2, IdleJob DEF ContextInv
<1> QED BY <1>1, <1>2, <1>3, IdleJob, ControlKept

\* The perform returns an error.
LEMMA FailedControl ==
    ASSUME TypeInv, ControlInv, NEW c \in Contexts, Failed(c)
    PROVE  TypeInv' /\ ControlInv'
<1>1. /\ job[c].at = "failed" /\ Goes(c, Ended(c))
      /\ UNCHANGED <<inited, polling, twi, buffer, measured, pointer, power, stored>>
  BY DEF Failed
<1>2. ControlInv' /\ job' \in [Contexts -> Job] /\ \A d \in Contexts : InRegisters(job[d])'
  BY <1>1, GoesOn
<1> QED BY <1>1, <1>2 DEF TypeInv

\* What was written is to be read, or was all there is: main then has initialised the sensor, or
\* freed it.
LEMMA WrittenControl ==
    ASSUME TypeInv, ControlInv, NEW c \in Contexts, Written(c)
    PROVE  TypeInv' /\ ControlInv'
<1> DEFINE j == job[c]
           n == Len(Registers(j.what, j.sensor))
<1>1. /\ Runs(c) /\ j.at = "written"
      /\ Goes(c, IF j.what = "read" THEN [j EXCEPT !.at = "read"] ELSE Continued(c))
      /\ UNCHANGED <<polling, twi, buffer, measured, pointer, power>>
  BY DEF Written
<1>2. inited' = CASE j.what = "init" /\ j.part = n -> inited \cup {j.sensor}
                  [] j.what = "off"                -> inited \ {j.sensor}
                  [] OTHER                         -> inited
  BY DEF Written
<1>3. /\ j \in Job /\ InRegisters(j) /\ j # Idle /\ ContextInv(c) /\ j.what \in {"read", "init", "off"}
      /\ j.part \in 1..n
  BY <1>1, OfSensor, RegisterAt DEF ControlInv
<1>4. j.what = "off" => n = 1
  BY <1>3, RegistersOf DEF Job
<1>5. CASE j.what = "read"
  <2> DEFINE k == [j EXCEPT !.at = "read"]
  <2>1. /\ k \in Job /\ InRegisters(k) /\ k.at = "read" /\ k.what = j.what /\ k.sensor = j.sensor
        /\ k.got = j.got /\ k.raced = j.raced
    BY JobMoves DEF Point
  <2>2. Goes(c, k) /\ inited' = inited
    BY <1>1, <1>2, <1>5
  <2>3. \A d \in Contexts : twi' = d <=> IF d = c THEN k.at \in {"writing", "reading"} ELSE twi = d
    BY <1>1, <1>3, <2>1 DEF ContextInv
  <2>4. k.got = Nothing
    BY <1>1, <1>3, <2>1 DEF ContextInv
  <2> HIDE DEF k
  <2>5. ControlInv' /\ job' \in [Contexts -> Job] /\ \A d \in Contexts : InRegisters(job[d])'
    BY <1>1, <1>3, <1>5, <2>1, <2>2, <2>3, <2>4, ControlKept
  <2> QED BY <1>1, <2>2, <2>5 DEF TypeInv
<1>6. CASE j.what # "read"
  <2>1. c = "main" /\ j.sensor \in Tsl /\ job["timer"] = Idle
    BY <1>1, <1>3, <1>6, WhoRuns DEF ContextInv
  <2>2. Goes(c, Continued(c))
    BY <1>1, <1>6
  <2>3. j.part = n => Continued(c) = Idle
    BY <2>1, ContinuedJob, EndedJob
  <2>4. inited' # inited => j.part = n
    <3>1. CASE j.what = "off"
      <4>1. n = 1 /\ j.part \in 1..n
        BY <1>3, <1>4, <3>1
      <4> HIDE DEF n
      <4> QED BY <4>1
    <3>2. CASE j.what # "off"
      <4> HIDE DEF n
      <4> QED BY <1>2, <3>2
    <3> QED BY <3>1, <3>2
  <2>5. ControlInv' /\ job' \in [Contexts -> Job] /\ \A d \in Contexts : InRegisters(job[d])'
    <3> HIDE DEF n
    <3> QED BY <1>1, <2>1, <2>2, <2>3, <2>4, GoesOn
  <2>6. Htu \in inited' /\ inited' \subseteq Sensors /\ polling' \subseteq inited'
    <3>1. Htu # j.sensor /\ j.sensor \in Sensors /\ (j.what = "off" => j.sensor \notin polling)
      BY <2>1, WordAssumption DEF Sensors, ControlInv
    <3> QED BY <1>1, <1>2, <3>1 DEF TypeInv
  <2> QED BY <1>1, <2>5, <2>6 DEF TypeInv
<1> QED BY <1>5, <1>6

\* A word is converted.
LEMMA ConvertHtuControl ==
    ASSUME TypeInv, ControlInv, NEW c \in Contexts, ConvertHtu(c)
    PROVE  TypeInv' /\ ControlInv'
<1>1. /\ job[c].at = "convert" /\ (Goes(c, Ended(c)) \/ Goes(c, Continued(c)))
      /\ UNCHANGED <<inited, polling, twi, buffer, measured, pointer, power>>
  BY DEF ConvertHtu
<1>2. ControlInv' /\ job' \in [Contexts -> Job] /\ \A d \in Contexts : InRegisters(job[d])'
  BY <1>1, GoesOn
<1> QED BY <1>1, <1>2 DEF TypeInv

\* A register is checked, and channel 0 kept.
LEMMA CheckTslControl ==
    ASSUME TypeInv, ControlInv, NEW c \in Contexts, CheckTsl(c)
    PROVE  TypeInv' /\ ControlInv'
<1> DEFINE j == job[c]
           k == [Continued(c) EXCEPT !.data0 = IF Register(j) = "data0" THEN j.got ELSE @]
<1>1. /\ j.at = "convert" /\ j.sensor \in Tsl /\ Register(j) # "data1"
      /\ Goes(c, Ended(c)) \/ Goes(c, k)
      /\ UNCHANGED <<inited, polling, twi, buffer, measured, pointer, power, stored>>
  BY DEF CheckTsl
<1>2. /\ j \in Job /\ InRegisters(j) /\ j # Idle /\ ContextInv(c) /\ j.what = "read" /\ j.sensor # Htu
  BY <1>1, OfSensor DEF ControlInv, ContextInv
<1>3. ControlInv' /\ job' \in [Contexts -> Job] /\ \A d \in Contexts : InRegisters(job[d])'
  <2>1. CASE Goes(c, Ended(c))
    BY <1>1, <2>1, GoesOn
  <2>2. CASE Goes(c, k)
    <3>1. j.part # Len(Registers(j.what, j.sensor))
      BY <1>1, <1>2, RegisterAt
    <3>2. /\ Continued(c) \in Job /\ InRegisters(Continued(c))
          /\ Continued(c).at = "command" /\ Continued(c).got = Nothing
          /\ Continued(c).what = j.what /\ Continued(c).sensor = j.sensor /\ Continued(c).raced = j.raced
      BY <3>1, ContinuedJob
    <3>3. /\ k \in Job /\ k.at = "command" /\ k.got = Nothing /\ k.what = j.what
          /\ k.sensor = j.sensor /\ k.raced = j.raced /\ k.part = Continued(c).part
      BY <1>2, <3>2 DEF Job
    <3>4. InRegisters(k)
      BY <3>2, <3>3 DEF InRegisters
    <3>5. \A d \in Contexts : twi' = d <=> IF d = c THEN k.at \in {"writing", "reading"} ELSE twi = d
      BY <1>1, <1>2, <3>3 DEF ContextInv
    <3> HIDE DEF k
    <3> QED BY <1>1, <1>2, <2>2, <3>3, <3>4, <3>5, ControlKept
  <2> QED BY <1>1, <2>1, <2>2
<1> QED BY <1>1, <1>3 DEF TypeInv

\* A lux is converted.
LEMMA ConvertTslControl ==
    ASSUME TypeInv, ControlInv, NEW c \in Contexts, ConvertTsl(c)
    PROVE  TypeInv' /\ ControlInv'
<1>1. /\ job[c].at = "convert" /\ Goes(c, Ended(c))
      /\ UNCHANGED <<inited, polling, twi, buffer, measured, pointer, power>>
  BY DEF ConvertTsl
<1>2. ControlInv' /\ job' \in [Contexts -> Job] /\ \A d \in Contexts : InRegisters(job[d])'
  BY <1>1, GoesOn
<1> QED BY <1>1, <1>2 DEF TypeInv

\* The handler of a poll is done.
LEMMA PublishControl ==
    ASSUME TypeInv, ControlInv, Publish
    PROVE  TypeInv' /\ ControlInv'
<1>1. /\ job["timer"].at = "handler" /\ Goes("timer", Idle)
      /\ UNCHANGED <<inited, polling, twi, buffer, measured, pointer, power, stored>>
  BY DEF Publish
<1>2. \A d \in Contexts :
        twi' = d <=> IF d = "timer" THEN Idle.at \in {"writing", "reading"} ELSE twi = d
  BY <1>1, IdleJob DEF ControlInv, ContextInv, Contexts
<1>3. ControlInv' /\ job' \in [Contexts -> Job] /\ \A d \in Contexts : InRegisters(job[d])'
  BY <1>1, <1>2, IdleJob, ControlKept DEF Contexts
<1> QED BY <1>1, <1>3 DEF TypeInv

\* A TSL2561 loses its supply.
LEMMA PowerLostControl ==
    ASSUME TypeInv, ControlInv, NEW s \in Tsl, PowerLost(s)
    PROVE  TypeInv' /\ ControlInv'
<1>1. /\ power' \in [Tsl -> BOOLEAN]
      /\ UNCHANGED <<inited, polling, job, twi, buffer, measured, pointer, stored>>
  BY DEF PowerLost, TypeInv
<1> QED BY <1>1 DEF TypeInv, ControlInv, ContextInv, InRegisters

\* Types and control are kept by every step.
LEMMA NextControl == TypeInv /\ ControlInv /\ [Next]_vars => TypeInv' /\ ControlInv'
<1> SUFFICES ASSUME TypeInv, ControlInv, [Next]_vars PROVE TypeInv' /\ ControlInv'
  OBVIOUS
<1>1. CASE \E c \in Contexts : Step(c)
  BY <1>1, StoreCommandControl, PerformControl, FailedControl, WrittenControl, ConvertHtuControl,
     CheckTslControl, ConvertTslControl DEF Step
<1>2. CASE Transfer
  BY <1>2, TransferFailsControl, WriteDoneControl, FirstByteControl, HtuReadControl, TslReadControl
     DEF Transfer
<1>3. CASE Publish
  BY <1>3, PublishControl
<1>4. CASE \E s \in Sensors : Poll(s) \/ SetPolling(s)
  BY <1>4, PollControl, SetPollingControl
<1>5. CASE \E s \in Sensors, what \in {"init", "off", "read"} : Start(what, s)
  BY <1>5, StartControl
<1>6. CASE \E s \in Tsl : PowerLost(s)
  BY <1>6, PowerLostControl
<1>7. CASE UNCHANGED vars
  BY <1>7 DEF vars, TypeInv, ControlInv, ContextInv, InRegisters
<1> QED BY <1>1, <1>2, <1>3, <1>4, <1>5, <1>6, <1>7 DEF Next

\* The variables keep their types: a sensor polls only while it is initialised, a job is at one of its
\* registers, and the transaction under way is that of a context that waits for it.
THEOREM TypesKept == Spec => []TypeOK
<1>1. TypeInv /\ ControlInv => TypeOK
  <2> SUFFICES ASSUME TypeInv, ControlInv PROVE TypeOK
    OBVIOUS
  <2>1. \A c \in Contexts :
            /\ job[c].sensor \in Sensors
            /\ job[c].what # "idle" => job[c].part \in DOMAIN Registers(job[c].what, job[c].sensor)
    BY DEF TypeInv, Job, InRegisters
  <2>2. ~Free => Owner.at \in {"writing", "reading"}
    BY DEF TypeInv, ControlInv, ContextInv, Free, Owner
  <2> QED BY <2>1, <2>2 DEF TypeInv, TypeOK, TslRegister
<1>2. Init => TypeInv /\ ControlInv
  BY InitControl
<1>3. TypeInv /\ ControlInv /\ [Next]_vars => (TypeInv /\ ControlInv)'
  BY NextControl
<1> QED BY <1>1, <1>2, <1>3, PTL DEF Spec

-----------------------------------------------------------------------------
(* Own readings.                                                             *)

\* The first byte of the buffer names at most one command.
LEMMA Commands ==
    /\ DOMAIN Command = {"temperature", "humidity"}
    /\ \A r \in DOMAIN Command : Command[r] \subseteq FirstByte
    /\ Command["temperature"] # Command["humidity"]
    /\ Told \subseteq DOMAIN Command /\ \A q \in Told : Command[q] = buffer \cap FirstByte
<1>1. 16 \in 16..23 /\ 17 \in Command["temperature"] /\ 17 \notin Command["humidity"]
  BY DEF Command
<1> QED BY <1>1 DEF Command, FirstByte, Told

\* A step of one context's job leaves a poll beside main as it was.
LEMMA AloneKept ==
    ASSUME TypeInv, Alone, NEW c \in Contexts, job[c] # Idle,
           \A d \in Contexts : d # c => job'[d] = job[d],
           job'[c] = Idle \/ (job'[c].sensor = job[c].sensor /\ job'[c].raced = job[c].raced),
           twi' = "main" => twi = "main" \/ (c = "main" /\ job["timer"] = Idle),
           c = "timer" /\ job'[c].at \in Busy => twi' # "main"
    PROVE  Alone'
<1>1. Idle.at \notin Busy
  BY IdleJob DEF Busy
<1>2. CASE c = "main"
  BY <1>1, <1>2 DEF Alone, Contexts
<1>3. CASE c = "timer"
  BY <1>1, <1>3 DEF Alone, Contexts
<1> QED BY <1>2, <1>3 DEF Contexts

\* What one context does to the buffer and the devices is nothing to a reading of the other, unless
\* the reading is raced.
LEMMA OtherKept ==
    ASSUME TypeInv, ControlInv, OwnInv, NEW c \in Contexts, job[c] # Idle,
           NEW d \in Contexts, d # c, job'[d] = job[d],
           job[c].sensor # Htu => buffer' = buffer /\ measured' = measured,
           \A s \in Tsl : s # job[c].sensor => pointer'[s] = pointer[s] /\ (power'[s] => power[s]),
           \/ c = "timer" \/ job["timer"] = Idle
           \/ /\ twi = "main" /\ Told' \subseteq Told /\ pointer' = pointer
              /\ \A s \in Tsl \cap inited : power'[s] => power[s]
    PROVE  HtuOwn(d)' /\ TslOwn(d)'
<1>1. d \in {"main", "timer"} /\ job[d] \in Job /\ HtuOwn(d) /\ TslOwn(d) /\ Alone
  BY DEF Contexts, TypeInv, OwnInv
<1>2. CASE job[d] = Idle
  BY <1>2, IdleJob DEF HtuOwn, TslOwn
<1>3. CASE c = "timer" /\ job[d] # Idle /\ ~job[d].raced
  <2>1. d = "main" /\ job[c].sensor # job[d].sensor
    BY <1>1, <1>3 DEF Alone, Contexts
  <2>2. HtuOwn(d)'
    BY <1>1, <2>1 DEF HtuOwn, Told
  <2>3. TslOwn(d)'
    BY <1>1, <2>1 DEF TslOwn
  <2> QED BY <2>2, <2>3
<1>4. CASE job[d].raced
  BY <1>4 DEF HtuOwn, TslOwn
<1>5. CASE c # "timer" /\ job[d] # Idle
  <2>1. d = "timer" /\ job[d].what = "read" /\ job[d].sensor \in inited /\ ~job[d].raced
    BY <1>1, <1>5 DEF ControlInv, Contexts
  <2>2. /\ twi = "main" /\ Told' \subseteq Told /\ pointer' = pointer /\ job[d].at \notin Busy
        /\ \A s \in Tsl \cap inited : power'[s] => power[s]
    BY <1>1, <1>5, <2>1 DEF Alone
  <2>3. HtuOwn(d)'
    BY <1>1, <2>1, <2>2 DEF HtuOwn, Busy
  <2>4. TslOwn(d)'
    BY <1>1, <2>1, <2>2 DEF TslOwn, Busy
  <2> QED BY <2>3, <2>4
<1> QED BY <1>2, <1>3, <1>4, <1>5

\* A job that ends is no reading any more.
LEMMA EndedOwn ==
    ASSUME TypeInv, ControlInv, OwnInv, NEW c \in Contexts, job[c] # Idle, job'[c] = Ended(c),
           \A s \in Tsl : power'[s] => power[s]
    PROVE  HtuOwn(c)' /\ TslOwn(c)'
<1>1. CASE c = "main"
  BY <1>1, EndedJob, IdleJob DEF HtuOwn, TslOwn
<1>2. CASE c = "timer"
  BY <1>2, EndedJob DEF HtuOwn, TslOwn, OwnInv
<1> QED BY <1>1, <1>2 DEF Contexts

\* Main starts a job, with nobody beside it.
LEMMA StartOwn ==
    ASSUME TypeInv, ControlInv, OwnInv, NEW what \in {"init", "off", "read"}, NEW s \in Sensors, Start(what, s)
    PROVE  OwnInv'
<1> DEFINE k == Begin(what, s)
<1>1. /\ k \in Job /\ InRegisters(k) /\ k.what = what /\ k.sensor = s /\ k.part = 1 /\ k.at = "command"
      /\ s \in Tsl /\ power[s] => k.on
      /\ ~k.raced
  BY BeginJob
<1>2. /\ Goes("main", k) /\ job["timer"] = Idle
      /\ UNCHANGED <<inited, polling, twi, buffer, measured, pointer, power, stored>>
  BY WhoRuns DEF Start
<1> HIDE DEF k
<1>3. job'["main"] = k /\ job'["timer"] = Idle
  BY <1>1, <1>2, JobGoes DEF Contexts
<1>4. HtuOwn("main")' /\ TslOwn("main")'
  BY <1>1, <1>2, <1>3 DEF HtuOwn, TslOwn
<1>5. HtuOwn("timer")' /\ TslOwn("timer")'
  BY <1>3, IdleJob DEF HtuOwn, TslOwn
<1>6. Alone'
  BY <1>3, IdleJob DEF Alone, Busy
<1> QED BY <1>4, <1>5, <1>6 DEF OwnInv, Contexts

\* A poll begins, and a reading of the same sensor in main is raced.
LEMMA PollOwn ==
    ASSUME TypeInv, ControlInv, OwnInv, NEW s \in Sensors, Poll(s)
    PROVE  OwnInv'
<1> DEFINE k == Begin("read", s)
           m == IF job["main"] # Idle /\ job["main"].sensor = s
                THEN [job["main"] EXCEPT !.raced = TRUE] ELSE job["main"]
<1>1. /\ k.what = "read" /\ k.sensor = s /\ k.part = 1 /\ k.at = "command"
      /\ s \in Tsl /\ power[s] => k.on
      /\ ~k.raced
  BY BeginJob
<1>2. job["main"] \in Job /\ HtuOwn("main") /\ TslOwn("main")
  BY DEF TypeInv, OwnInv, Contexts
<1>3. (m = job["main"] /\ (m # Idle => m.sensor # s)) \/ m.raced
  BY <1>2 DEF Job
<1>4. /\ job' = [timer |-> k, main |-> m]
      /\ UNCHANGED <<inited, polling, twi, buffer, measured, pointer, power, stored>>
  BY DEF Poll
<1> HIDE DEF k, m
<1>5. job'["timer"] = k /\ job'["main"] = m
  BY <1>4
<1>6. HtuOwn("timer")' /\ TslOwn("timer")'
  BY <1>1, <1>4, <1>5 DEF HtuOwn, TslOwn
<1>7. HtuOwn("main")' /\ TslOwn("main")'
  BY <1>2, <1>3, <1>4, <1>5 DEF HtuOwn, TslOwn, Told
<1>8. Alone'
  BY <1>1, <1>3, <1>5 DEF Alone, Busy
<1> QED BY <1>6, <1>7, <1>8 DEF OwnInv, Contexts

\* The command is stored over whatever was in the buffer.
LEMMA StoreCommandOwn ==
    ASSUME TypeInv, ControlInv, OwnInv, NEW c \in Contexts, StoreCommand(c)
    PROVE  OwnInv'
<1> DEFINE j == job[c]
           k == [j EXCEPT !.at = "write"]
<1>1. /\ Runs(c) /\ j.at = "command" /\ Goes(c, k)
      /\ j.sensor = Htu => buffer' = (buffer \ FirstByte) \cup Command[Register(j)]
      /\ j.sensor # Htu => buffer' = buffer
      /\ UNCHANGED <<inited, polling, twi, measured, pointer, power, stored>>
  BY DEF StoreCommand
<1>2. /\ k \in Job /\ InRegisters(k) /\ k.at = "write" /\ k.what = j.what /\ k.sensor = j.sensor
      /\ k.part = j.part /\ k.got = j.got /\ k.data0 = j.data0 /\ k.on = j.on /\ k.raced = j.raced
  BY JobMoves DEF Point
<1>3. j # Idle /\ HtuOwn(c) /\ TslOwn(c) /\ Alone /\ (j.sensor = Htu => Register(j) \in DOMAIN Command)
  BY <1>1, OfSensor DEF OwnInv
<1>4. Register(k) = Register(j)
  BY <1>2 DEF Register
<1> HIDE DEF k
<1>5. job'[c] = k /\ \A d \in Contexts : d # c => job'[d] = job[d]
  BY <1>1, <1>2, JobGoes
<1>6. j.sensor = Htu => Told' \subseteq {Register(j)}
  BY <1>1, <1>3, Commands DEF Told
<1>7. HtuOwn(c)' /\ TslOwn(c)'
  <2>1. HtuOwn(c)'
    BY <1>1, <1>2, <1>4, <1>5, <1>6 DEF HtuOwn
  <2>2. TslOwn(c)'
    BY <1>1, <1>2, <1>3, <1>5 DEF TslOwn
  <2> QED BY <2>1, <2>2
<1>8. ASSUME NEW d \in Contexts, d # c PROVE HtuOwn(d)' /\ TslOwn(d)'
  BY <1>1, <1>3, <1>5, <1>8, WhoRuns, OtherKept DEF Contexts
<1>9. Alone'
  BY <1>1, <1>2, <1>3, <1>5, AloneKept DEF Busy
<1> QED BY <1>7, <1>8, <1>9 DEF OwnInv

\* The transaction is performed: the device is told what the reading is of.
LEMMA PerformOwn ==
    ASSUME TypeInv, ControlInv, OwnInv, NEW c \in Contexts, Perform(c)
    PROVE  OwnInv'
<1> DEFINE j == job[c]
           point == IF j.at = "write" THEN "writing" ELSE "reading"
           k == IF ~Free THEN Ended(c) ELSE [j EXCEPT !.at = point]
           writes == Free /\ j.at = "write"
<1>1. /\ Runs(c) /\ j.at \in {"write", "read"} /\ Goes(c, k) /\ twi' = IF Free THEN c ELSE twi
      /\ UNCHANGED <<inited, polling, buffer, power, stored>>
  BY DEF Perform
<1>2. /\ writes /\ j.sensor = Htu => measured' \in {"none"} \cup Told
      /\ ~(writes /\ j.sensor = Htu) => measured' = measured
      /\ pointer' = IF writes /\ j.sensor \in Tsl THEN [pointer EXCEPT ![j.sensor] = Register(j)]
                    ELSE pointer
  BY DEF Perform
<1>3. /\ j # Idle /\ ContextInv(c) /\ j \in Job /\ InRegisters(j) /\ HtuOwn(c) /\ TslOwn(c) /\ Alone
      /\ j.sensor \in Tsl => j.sensor # Htu
  BY <1>1, OfSensor DEF ControlInv, OwnInv
<1>4. ASSUME Free
      PROVE  /\ k \in Job /\ InRegisters(k) /\ k.at = point /\ k.what = j.what /\ k.sensor = j.sensor
             /\ k.part = j.part /\ k.got = j.got /\ k.data0 = j.data0 /\ k.on = j.on /\ k.raced = j.raced
  <2>1. point \in Point
    BY DEF Point
  <2>2. k = [job[c] EXCEPT !.at = point]
    BY <1>4
  <2> HIDE DEF point, k
  <2> QED BY <2>1, <2>2, JobMoves
<1>5. ~Free => k = Ended(c) /\ k \in Job /\ InRegisters(k)
  BY EndedJob
<1>6. Free => Register(k) = Register(j)
  BY <1>4 DEF Register
<1>7. job'[c] = k /\ \A d \in Contexts : d # c => job'[d] = job[d]
  <2> HIDE DEF k
  <2> QED BY <1>1, <1>4, <1>5, JobGoes
<1>8. HtuOwn(c)' /\ TslOwn(c)'
  <2>1. CASE Free
    <3>1. k.got = Nothing
      BY <1>1, <1>3, <1>4, <2>1 DEF ContextInv
    <3> HIDE DEF k
    <3>2. HtuOwn(c)'
      BY <1>1, <1>2, <1>3, <1>4, <1>6, <1>7, <2>1, <3>1 DEF HtuOwn
    <3>3. TslOwn(c)'
      BY <1>1, <1>2, <1>3, <1>4, <1>6, <1>7, <2>1 DEF TslOwn, TypeInv
    <3> QED BY <3>2, <3>3
  <2>2. CASE ~Free
    BY <1>1, <1>3, <1>5, <1>7, <2>2, EndedOwn
  <2> QED BY <2>1, <2>2
<1>9. ASSUME NEW d \in Contexts, d # c PROVE HtuOwn(d)' /\ TslOwn(d)'
  <2>1. \A s \in Tsl : s # job[c].sensor => pointer'[s] = pointer[s] /\ (power'[s] => power[s])
    BY <1>1, <1>2 DEF TypeInv
  <2>2. c = "timer" \/ job["timer"] = Idle
    BY <1>1, WhoRuns DEF Contexts
  <2> HIDE DEF k, point, writes
  <2> QED BY <1>1, <1>2, <1>3, <1>7, <1>9, <2>1, <2>2, OtherKept DEF writes
<1>10. Alone'
  <2>1. twi' = "main" => twi = "main" \/ (c = "main" /\ job["timer"] = Idle)
    BY <1>1, WhoRuns
  <2>2. job'[c] = Idle \/ (job'[c].sensor = j.sensor /\ job'[c].raced = j.raced)
    BY <1>4, <1>5, <1>7, EndedJob DEF Contexts
  <2>3. c = "timer" /\ job'[c].at \in Busy => twi' # "main"
    BY <1>1, <1>4, <1>5, <1>7, EndedJob DEF Busy
  <2> HIDE DEF k
  <2> QED BY <1>3, <1>7, <2>1, <2>2, <2>3, AloneKept
<1> QED BY <1>8, <1>9, <1>10 DEF OwnInv

\* The job that has the bus, after what the bus's interrupt does to it.
LEMMA OwnerGoes ==
    ASSUME TypeInv, ControlInv, OwnInv, NEW c \in Contexts, twi = c, NEW point \in Point, NEW got \in Got,
           Goes(twi, [Owner EXCEPT !.at = point, !.got = got])
    PROVE  LET j == job[c]
               k == job'[c]
           IN  /\ Owner = j /\ j \in Job /\ j # Idle /\ j.at \in {"writing", "reading"}
               /\ InRegisters(j) /\ ContextInv(c) /\ HtuOwn(c) /\ TslOwn(c) /\ Alone
               /\ k.at = point /\ k.got = got /\ Register(k) = Register(j)
               /\ k.what = j.what /\ k.sensor = j.sensor /\ k.part = j.part
               /\ k.data0 = j.data0 /\ k.on = j.on /\ k.raced = j.raced
               /\ \A d \in Contexts : d # c => job'[d] = job[d]
<1> DEFINE j == job[c]
           k == [j EXCEPT !.at = point, !.got = got]
<1>1. Owner = j /\ Goes(c, k)
  BY DEF Owner
<1>2. j \in Job /\ InRegisters(j) /\ ContextInv(c) /\ HtuOwn(c) /\ TslOwn(c) /\ Alone
  BY DEF TypeInv, ControlInv, OwnInv
<1>3. j # Idle /\ j.at \in {"writing", "reading"}
  BY <1>2, IdleJob DEF ContextInv
<1>4. /\ k \in Job /\ k.at = point /\ k.got = got
      /\ k.what = j.what /\ k.sensor = j.sensor /\ k.part = j.part
      /\ k.data0 = j.data0 /\ k.on = j.on /\ k.raced = j.raced
  BY <1>2 DEF Job
<1>5. InRegisters(k) /\ Register(k) = Register(j)
  BY <1>2, <1>4 DEF InRegisters, Register
<1> HIDE DEF k
<1>6. job'[c] = k /\ \A d \in Contexts : d # c => job'[d] = job[d]
  BY <1>1, <1>4, <1>5, JobGoes
<1> QED BY <1>1, <1>2, <1>3, <1>4, <1>5, <1>6

\* Main and a poll, one of which has the bus.
LEMMA OwnerIs ==
    ASSUME TypeInv, ~Free
    PROVE  \E c \in Contexts : twi = c
  BY DEF TypeInv, Free

\* A transfer that fails changes no device and not the buffer.
LEMMA TransferFailsOwn ==
    ASSUME TypeInv, ControlInv, OwnInv, TransferFails
    PROVE  OwnInv'
<1>1. /\ ~Free /\ twi' = "free" /\ Goes(twi, [Owner EXCEPT !.at = "failed"])
      /\ UNCHANGED <<inited, polling, buffer, measured, pointer, power, stored>>
  BY DEF TransferFails
<1>2. PICK c \in Contexts : twi = c
  BY <1>1, OwnerIs
<1> DEFINE j == job[c]
           k == job'[c]
<1>3. j.got \in Got /\ "failed" \in Point
      /\ Goes(twi, [Owner EXCEPT !.at = "failed", !.got = j.got])
  BY <1>1, <1>2 DEF TypeInv, Job, Point, Owner
<1>4. /\ j # Idle /\ TslOwn(c) /\ Alone
      /\ k.at = "failed" /\ k.what = j.what /\ k.sensor = j.sensor /\ k.part = j.part
      /\ k.data0 = j.data0 /\ k.on = j.on /\ k.raced = j.raced
      /\ \A d \in Contexts : d # c => job'[d] = job[d]
  BY <1>2, <1>3, OwnerGoes
<1> HIDE DEF k, j
<1>5. HtuOwn(c)' /\ TslOwn(c)'
  BY <1>1, <1>4 DEF HtuOwn, TslOwn, j, k
<1>6. ASSUME NEW d \in Contexts, d # c PROVE HtuOwn(d)' /\ TslOwn(d)'
  BY <1>1, <1>2, <1>4, <1>6, OtherKept DEF Contexts, Told, j
<1>7. Alone'
  BY <1>1, <1>2, <1>4, AloneKept DEF j, k
<1> QED BY <1>5, <1>6, <1>7 DEF OwnInv

\* A TSL2561 points to the register it was told, and is on or off as main wants it.
LEMMA WriteDoneOwn ==
    ASSUME TypeInv, ControlInv, OwnInv, WriteDone
    PROVE  OwnInv'
<1>1. /\ ~Free /\ twi' = "free" /\ Owner.at = "writing" /\ Goes(twi, [Owner EXCEPT !.at = "written"])
      /\ UNCHANGED <<inited, polling, buffer, measured, pointer, stored>>
      /\ \/ power' = power
         \/ Owner.what # "read" /\ power' = [power EXCEPT ![Owner.sensor] = (Owner.what = "init")]
  BY DEF WriteDone
<1>2. PICK c \in Contexts : twi = c
  BY <1>1, OwnerIs
<1> DEFINE j == job[c]
           k == job'[c]
<1>3. Nothing \in Got /\ "written" \in Point
      /\ Goes(twi, [Owner EXCEPT !.at = "written", !.got = Nothing]) /\ Owner.at = "writing"
  <2>1. Owner = j /\ j \in Job /\ ContextInv(c)
    BY <1>2 DEF TypeInv, ControlInv, Owner
  <2>2. j.got = Nothing
    BY <1>1, <2>1 DEF ContextInv
  <2>3. [Owner EXCEPT !.at = "written"] = [Owner EXCEPT !.at = "written", !.got = Nothing]
    BY <2>1, <2>2 DEF Job
  <2> QED BY <1>1, <2>3 DEF Got, Point
<1>4. /\ j # Idle /\ Owner = j /\ j.at = "writing" /\ ContextInv(c) /\ HtuOwn(c) /\ TslOwn(c) /\ Alone
      /\ k.at = "written" /\ Register(k) = Register(j)
      /\ k.what = j.what /\ k.sensor = j.sensor /\ k.part = j.part
      /\ k.data0 = j.data0 /\ k.on = j.on /\ k.raced = j.raced
      /\ \A d \in Contexts : d # c => job'[d] = job[d]
  BY <1>2, <1>3, OwnerGoes
<1>5. /\ j.what = "read" => power' = power
      /\ \A s \in Tsl : s # j.sensor \/ s \in inited => (power'[s] => power[s])
  <2>1. j.what = "init" => j.sensor \notin inited
    BY <1>4 DEF ControlInv, ContextInv
  <2> QED BY <1>1, <1>4, <2>1 DEF TypeInv
<1> HIDE DEF k, j
<1>6. HtuOwn(c)' /\ TslOwn(c)'
  <2>1. HtuOwn(c)'
    BY <1>1, <1>4 DEF HtuOwn, j, k
  <2>2. TslOwn(c)'
    BY <1>1, <1>4, <1>5 DEF TslOwn, j, k
  <2> QED BY <2>1, <2>2
<1>7. ASSUME NEW d \in Contexts, d # c PROVE HtuOwn(d)' /\ TslOwn(d)'
  BY <1>1, <1>2, <1>4, <1>5, <1>7, OtherKept DEF Contexts, Told, j
<1>8. Alone'
  BY <1>1, <1>2, <1>4, AloneKept DEF j, k
<1> QED BY <1>6, <1>7, <1>8 DEF OwnInv

\* The first byte of a measurement comes for what was measured, and is no command for a poll.
LEMMA FirstByteOwn ==
    ASSUME NoWordIsACommand, TypeInv, ControlInv, OwnInv, FirstByteRead
    PROVE  OwnInv'
<1>1. /\ ~Free /\ Owner.at = "reading" /\ Owner.sensor = Htu /\ measured # "none"
      /\ UNCHANGED <<inited, polling, twi, measured, pointer, power, stored>>
  BY DEF FirstByteRead
<1>2. PICK c \in Contexts : twi = c
  BY <1>1, OwnerIs
<1>3. PICK w \in (IF measured = "temperature" THEN Temperatures ELSE Humidities), e \in Noise :
        /\ Goes(twi, [Owner EXCEPT !.got = <<"word", Xor(w, e)>>])
        /\ buffer' = (Xor(w, e) \cap FirstByte) \cup (buffer \ FirstByte)
  BY DEF FirstByteRead
<1> DEFINE a == Xor(w, e)
           j == job[c]
           k == job'[c]
<1>4. a \in Arrived /\ a \in Sent(measured) /\ \A r \in DOMAIN Command : a \cap FirstByte # Command[r]
  BY <1>3 DEF Arrived, Sent, NoWordIsACommand, Words
<1> HIDE DEF a
<1>5. <<"word", a>> \in Got /\ "reading" \in Point
      /\ Goes(twi, [Owner EXCEPT !.at = "reading", !.got = <<"word", a>>])
  <2>1. Owner = j /\ j \in Job
    BY <1>2 DEF TypeInv, Owner
  <2>2. [Owner EXCEPT !.got = <<"word", a>>] = [Owner EXCEPT !.at = "reading", !.got = <<"word", a>>]
    BY <1>1, <2>1 DEF Job
  <2> QED BY <1>3, <1>4, <2>2 DEF Got, Point, a
<1>6. /\ j # Idle /\ Owner = j /\ ContextInv(c) /\ HtuOwn(c) /\ TslOwn(c) /\ Alone
      /\ k.at = "reading" /\ k.got = <<"word", a>> /\ Register(k) = Register(j)
      /\ k.what = j.what /\ k.sensor = j.sensor /\ k.part = j.part
      /\ k.data0 = j.data0 /\ k.on = j.on /\ k.raced = j.raced
      /\ \A d \in Contexts : d # c => job'[d] = job[d]
  BY <1>2, <1>5, OwnerGoes
<1>7. buffer' \cap FirstByte = a \cap FirstByte
  BY <1>3 DEF a
<1>8. Told' = {}
  BY <1>4, <1>7 DEF Told
<1> HIDE DEF k, j
<1>9. HtuOwn(c)' /\ TslOwn(c)'
  <2>1. j.what = "read" /\ ~j.raced => measured = Register(j)
    BY <1>1, <1>6 DEF HtuOwn, j
  <2>2. HtuOwn(c)'
    BY <1>1, <1>4, <1>6, <1>7, <2>1 DEF HtuOwn, j, k
  <2>3. TslOwn(c)'
    BY <1>1, <1>6, WordAssumption DEF TslOwn, j, k
  <2> QED BY <2>2, <2>3
<1>10. ASSUME NEW d \in Contexts, d # c PROVE HtuOwn(d)' /\ TslOwn(d)'
  BY <1>1, <1>2, <1>6, <1>8, <1>10, OtherKept DEF Contexts, j
<1>11. Alone'
  <2>1. c = "timer" => twi' # "main"
    BY <1>1, <1>2
  <2> QED BY <1>1, <1>2, <1>6, <2>1, AloneKept DEF j, k
<1> QED BY <1>9, <1>10, <1>11 DEF OwnInv

\* The other bytes complete the word whose first byte came.
LEMMA HtuReadOwn ==
    ASSUME TypeInv, ControlInv, OwnInv, HtuRead
    PROVE  OwnInv'
<1>1. /\ ~Free /\ Owner.sensor = Htu /\ Owner.got # Nothing /\ twi' = "free" /\ measured' = "none"
      /\ buffer' = (buffer \cap FirstByte) \cup (Owner.got[2] \ FirstByte)
      /\ Goes(twi, [Owner EXCEPT !.at = "convert", !.got = Nothing])
      /\ UNCHANGED <<inited, polling, pointer, power, stored>>
  BY DEF HtuRead
<1>2. PICK c \in Contexts : twi = c
  BY <1>1, OwnerIs
<1> DEFINE j == job[c]
           k == job'[c]
<1>3. /\ Nothing \in Got /\ "convert" \in Point
      /\ Goes(twi, [Owner EXCEPT !.at = "convert", !.got = Nothing])
  BY <1>1 DEF Got, Point
<1>4. /\ j # Idle /\ Owner = j /\ ContextInv(c) /\ HtuOwn(c) /\ TslOwn(c) /\ Alone
      /\ j.at \in {"writing", "reading"}
      /\ k.at = "convert" /\ k.got = Nothing /\ Register(k) = Register(j)
      /\ k.what = j.what /\ k.sensor = j.sensor /\ k.part = j.part
      /\ k.data0 = j.data0 /\ k.on = j.on /\ k.raced = j.raced
      /\ \A d \in Contexts : d # c => job'[d] = job[d]
  BY <1>2, <1>3, OwnerGoes
<1> HIDE DEF k, j
<1>5. j.at = "reading"
  BY <1>1, <1>4 DEF ContextInv, j
<1>6. buffer' \cap FirstByte = buffer \cap FirstByte
  BY <1>1
<1>7. Told' = Told
  BY <1>6 DEF Told
<1>8. HtuOwn(c)' /\ TslOwn(c)'
  <2>1. j.what = "read" /\ ~j.raced => buffer' \in Sent(Register(j))
    <3> SUFFICES ASSUME j.what = "read", ~j.raced PROVE buffer' \in Sent(Register(j))
      OBVIOUS
    <3>1. j.got[2] \in Sent(Register(j)) /\ buffer \cap FirstByte = j.got[2] \cap FirstByte
      BY <1>1, <1>4, <1>5 DEF HtuOwn, j
    <3>2. buffer' = j.got[2]
      BY <1>1, <1>4, <3>1
    <3> QED BY <3>1, <3>2
  <2>2. HtuOwn(c)'
    BY <1>4, <2>1 DEF HtuOwn, j, k
  <2>3. TslOwn(c)'
    BY <1>1, <1>4, WordAssumption DEF TslOwn, j, k
  <2> QED BY <2>2, <2>3
<1>9. ASSUME NEW d \in Contexts, d # c PROVE HtuOwn(d)' /\ TslOwn(d)'
  BY <1>1, <1>2, <1>4, <1>7, <1>9, OtherKept DEF Contexts, j
<1>10. Alone'
  BY <1>1, <1>2, <1>4, AloneKept DEF j, k
<1> QED BY <1>8, <1>9, <1>10 DEF OwnInv

\* A TSL2561 sends the register it points to.
LEMMA TslReadOwn ==
    ASSUME TypeInv, ControlInv, OwnInv, TslRead
    PROVE  OwnInv'
<1>1. /\ ~Free /\ Owner.at = "reading" /\ Owner.sensor \in Tsl /\ twi' = "free"
      /\ UNCHANGED <<inited, polling, buffer, measured, pointer, power, stored>>
  BY DEF TslRead
<1> DEFINE register == pointer[Owner.sensor]
<1>2. PICK v \in {0, 2, 3} \cup Light :
        /\ Goes(twi, [Owner EXCEPT !.at = "convert", !.got = <<register, v>>])
        /\ register = "control" => v = IF power[Owner.sensor] THEN 3 ELSE 0
  BY DEF TslRead
<1>3. PICK c \in Contexts : twi = c
  BY <1>1, OwnerIs
<1> DEFINE j == job[c]
           k == job'[c]
<1>4. <<register, v>> \in Got /\ "convert" \in Point
  <2>1. Light \subseteq 0..Saturated
    BY WordAssumption
  <2>2. Saturated \in Nat
    BY SMT DEF Saturated
  <2>3. v \in Nat
    BY <2>1, <2>2
  <2> QED BY <1>1, <2>3 DEF TypeInv, Got, Point
<1> HIDE DEF register
<1>5. /\ j # Idle /\ Owner = j /\ ContextInv(c) /\ HtuOwn(c) /\ TslOwn(c) /\ Alone /\ InRegisters(j)
      /\ j \in Job
      /\ k.at = "convert" /\ k.got = <<register, v>> /\ Register(k) = Register(j)
      /\ k.what = j.what /\ k.sensor = j.sensor /\ k.part = j.part
      /\ k.data0 = j.data0 /\ k.on = j.on /\ k.raced = j.raced
      /\ \A d \in Contexts : d # c => job'[d] = job[d]
  BY <1>2, <1>3, <1>4, OwnerGoes
<1>6. j.sensor # Htu
  BY <1>1, <1>5, WordAssumption
<1> HIDE DEF k, j
<1>7. HtuOwn(c)' /\ TslOwn(c)'
  <2>1. HtuOwn(c)'
    BY <1>5, <1>6 DEF HtuOwn, j, k
  <2>2. ASSUME j.what = "read", ~j.raced
        PROVE  register = Register(j) /\ (j.part = 1 /\ k.got[2] % 256 # 0 => j.on)
    <3>1. register = Register(j) /\ (j.part = 1 /\ power[j.sensor] => j.on)
      BY <1>1, <1>5, <2>2 DEF TslOwn, register, j
    <3>2. j.part = 1 => register = "control"
      BY <1>5, <1>6, <2>2, <3>1, RegisterAt
    <3>3. j.part = 1 => k.got[2] = IF power[j.sensor] THEN 3 ELSE 0
      BY <1>2, <1>5, <3>2
    <3>4. 0 % 256 = 0
      BY SMT
    <3> QED BY <3>1, <3>3, <3>4
  <2>3. TslOwn(c)'
    BY <1>1, <1>5, <2>2 DEF TslOwn, j, k
  <2> QED BY <2>1, <2>3
<1>8. ASSUME NEW d \in Contexts, d # c PROVE HtuOwn(d)' /\ TslOwn(d)'
  BY <1>1, <1>3, <1>5, <1>8, OtherKept DEF Contexts, Told, j
<1>9. Alone'
  BY <1>1, <1>3, <1>5, AloneKept DEF j, k
<1> QED BY <1>7, <1>8, <1>9 DEF OwnInv

\* A job that ends, and one that goes on, without a device or the buffer.
LEMMA GoesOnOwn ==
    ASSUME TypeInv, ControlInv, OwnInv, NEW c \in Contexts, Runs(c), job[c] # Idle, NEW k \in Job,
           InRegisters(k), Goes(c, k), HtuOwn(c)', TslOwn(c)',
           k = Idle \/ (k.sensor = job[c].sensor /\ k.raced = job[c].raced), k.at \notin Busy \/ twi # "main",
           UNCHANGED <<twi, buffer, measured, pointer, power>>
    PROVE  OwnInv'
<1>1. job'[c] = k /\ \A d \in Contexts : d # c => job'[d] = job[d]
  BY JobGoes
<1>2. Alone
  BY DEF OwnInv
<1>3. ASSUME NEW d \in Contexts, d # c PROVE HtuOwn(d)' /\ TslOwn(d)'
  BY <1>1, <1>3, WhoRuns, OtherKept DEF Contexts
<1>4. Alone'
  BY <1>1, <1>2, AloneKept
<1> QED BY <1>3, <1>4 DEF OwnInv

\* A job that ends is over for good.
LEMMA EndsOwn ==
    ASSUME TypeInv, ControlInv, OwnInv, NEW c \in Contexts, Runs(c), job[c] # Idle, Goes(c, Ended(c)),
           UNCHANGED <<twi, buffer, measured, pointer, power>>
    PROVE  OwnInv'
<1> DEFINE k == Ended(c)
<1>1. /\ k \in Job /\ InRegisters(k) /\ k.at \notin Busy
      /\ k = Idle \/ (k.sensor = job[c].sensor /\ k.raced = job[c].raced)
  BY EndedJob, IdleJob DEF Contexts, Busy
<1>2. job'[c] = Ended(c)
  BY <1>1, JobGoes
<1>3. HtuOwn(c)' /\ TslOwn(c)'
  BY <1>2, EndedOwn
<1> HIDE DEF k
<1> QED BY <1>1, <1>3, GoesOnOwn DEF k

\* What was written is to be read, or was all there is.
LEMMA WrittenOwn ==
    ASSUME TypeInv, ControlInv, OwnInv, NEW c \in Contexts, Written(c)
    PROVE  OwnInv'
<1> DEFINE j == job[c]
           n == Len(Registers(j.what, j.sensor))
<1>1. /\ Runs(c) /\ j.at = "written"
      /\ Goes(c, IF j.what = "read" THEN [j EXCEPT !.at = "read"] ELSE Continued(c))
      /\ UNCHANGED <<polling, twi, buffer, measured, pointer, power>>
  BY DEF Written
<1>2. /\ j \in Job /\ j # Idle /\ ContextInv(c) /\ HtuOwn(c) /\ TslOwn(c) /\ Alone
  BY <1>1, OfSensor DEF ControlInv, OwnInv
<1>3. CASE j.what = "read"
  <2> DEFINE k == [j EXCEPT !.at = "read"]
  <2>1. /\ k \in Job /\ InRegisters(k) /\ k.at = "read" /\ k.what = j.what /\ k.sensor = j.sensor
        /\ k.part = j.part /\ k.got = j.got /\ k.data0 = j.data0 /\ k.on = j.on /\ k.raced = j.raced
    BY JobMoves DEF Point
  <2>2. Goes(c, k)
    BY <1>1, <1>3
  <2>3. Register(k) = Register(j)
    BY <2>1 DEF Register
  <2> HIDE DEF k
  <2>4. job'[c] = k
    BY <2>1, <2>2, JobGoes
  <2>5. HtuOwn(c)'
    BY <1>1, <1>2, <2>1, <2>3, <2>4 DEF HtuOwn
  <2>6. TslOwn(c)'
    BY <1>1, <1>2, <2>1, <2>3, <2>4 DEF TslOwn
  <2>7. twi # "main"
    BY <1>1, <1>2 DEF Alone, Busy, ContextInv, Contexts
  <2> QED BY <1>1, <1>2, <2>1, <2>2, <2>5, <2>6, <2>7, GoesOnOwn
<1>4. CASE j.what # "read"
  <2>1. Goes(c, Continued(c))
    BY <1>1, <1>4
  <2>2. CASE j.part = n
    BY <1>1, <1>2, <2>1, <2>2, ContinuedJob, EndsOwn
  <2>3. CASE j.part # n
    <3>1. /\ Continued(c) \in Job /\ InRegisters(Continued(c)) /\ Continued(c).at = "command"
          /\ Continued(c).what = j.what /\ Continued(c).sensor = j.sensor /\ Continued(c).raced = j.raced
      BY <2>3, ContinuedJob
    <3>2. job'[c] = Continued(c)
      BY <2>1, <3>1, JobGoes
    <3>3. HtuOwn(c)' /\ TslOwn(c)'
      BY <1>4, <3>1, <3>2 DEF HtuOwn, TslOwn
    <3> QED BY <1>1, <1>2, <2>1, <3>1, <3>3, GoesOnOwn DEF Busy
  <2> QED BY <2>2, <2>3
<1> QED BY <1>3, <1>4

\* A word is converted, and the next one is asked for.
LEMMA ConvertHtuOwn ==
    ASSUME TypeInv, ControlInv, OwnInv, NEW c \in Contexts, ConvertHtu(c)
    PROVE  OwnInv'
<1> DEFINE j == job[c]
           n == Len(Registers(j.what, j.sensor))
<1>1. /\ Runs(c) /\ j.at = "convert" /\ j.sensor = Htu /\ (Goes(c, Ended(c)) \/ Goes(c, Continued(c)))
      /\ UNCHANGED <<polling, twi, buffer, measured, pointer, power>>
  BY DEF ConvertHtu
<1>2. j # Idle
  BY <1>1, OfSensor
<1>3. CASE Goes(c, Ended(c)) \/ j.part = n
  BY <1>1, <1>2, <1>3, ContinuedJob, EndsOwn
<1>4. CASE Goes(c, Continued(c)) /\ j.part # n
  <2>1. /\ Continued(c) \in Job /\ InRegisters(Continued(c)) /\ Continued(c).at = "command"
        /\ Continued(c).what = j.what /\ Continued(c).sensor = j.sensor /\ Continued(c).raced = j.raced
    BY <1>4, ContinuedJob
  <2>2. job'[c] = Continued(c)
    BY <1>4, <2>1, JobGoes
  <2>3. HtuOwn(c)' /\ TslOwn(c)'
    BY <1>1, <2>1, <2>2, WordAssumption DEF HtuOwn, TslOwn
  <2> QED BY <1>1, <1>2, <1>4, <2>1, <2>3, GoesOnOwn DEF Busy
<1> QED BY <1>1, <1>3, <1>4

\* A register is checked: after the control register the sensor was on, and data0 is channel 0.
LEMMA CheckTslOwn ==
    ASSUME TypeInv, ControlInv, OwnInv, NEW c \in Contexts, CheckTsl(c)
    PROVE  OwnInv'
<1> DEFINE j == job[c]
           ok == Passes(Register(j), j.got[2])
           k == [Continued(c) EXCEPT !.data0 = IF Register(j) = "data0" THEN j.got ELSE @]
<1>1. /\ Runs(c) /\ j.at = "convert" /\ j.sensor \in Tsl /\ Register(j) # "data1"
      /\ ~ok => Goes(c, Ended(c))
      /\ ok => Goes(c, k)
      /\ UNCHANGED <<inited, polling, twi, buffer, measured, pointer, power, stored>>
  BY DEF CheckTsl
<1>2. /\ j \in Job /\ InRegisters(j) /\ j # Idle /\ ContextInv(c) /\ j.what = "read" /\ j.sensor # Htu
      /\ TslOwn(c)
  BY <1>1, OfSensor DEF ControlInv, ContextInv, OwnInv
<1>3. CASE ~ok
  BY <1>1, <1>2, <1>3, EndsOwn
<1>4. CASE ok
  <2>1. /\ j.part # Len(Registers(j.what, j.sensor)) /\ j.part \in 1..4
        /\ j.part = 1 => Register(j) = "control"
        /\ j.part = 3 => Register(j) = "data0"
    BY <1>1, <1>2, RegisterAt
  <2>2. /\ Continued(c) \in Job /\ InRegisters(Continued(c)) /\ Continued(c).at = "command"
        /\ Continued(c).what = j.what /\ Continued(c).sensor = j.sensor /\ Continued(c).raced = j.raced
        /\ Continued(c).part = j.part + 1 /\ Continued(c).on = j.on
    BY <2>1, ContinuedJob
  <2>3. /\ k \in Job /\ k.at = "command" /\ k.what = j.what /\ k.part = j.part + 1 /\ k.on = j.on
        /\ k.sensor = j.sensor /\ k.raced = j.raced
        /\ Register(j) = "data0" => k.data0 = j.got
    BY <1>2, <2>2 DEF Job
  <2>4. InRegisters(k)
    BY <2>2, <2>3 DEF InRegisters
  <2>5. j.part = 1 => j.got[2] % 256 # 0
    BY <1>4, <2>1 DEF Passes
  <2>6. Goes(c, k)
    BY <1>1, <1>4
  <2> HIDE DEF k, ok
  <2>7. job'[c] = k
    BY <2>3, <2>4, <2>6, JobGoes
  <2>8. HtuOwn(c)'
    BY <1>2, <2>3, <2>7 DEF HtuOwn
  <2>9. TslOwn(c)'
    <3> SUFFICES ASSUME ~j.raced PROVE k.on /\ (k.part = 4 => k.data0[1] = "data0")
      BY <1>1, <2>1, <2>3, <2>7 DEF TslOwn
    <3>1. j.on
      BY <1>1, <1>2, <2>1, <2>5 DEF TslOwn
    <3>2. j.part = 3 => j.got[1] = "data0"
      BY <1>1, <1>2, <2>1 DEF TslOwn
    <3> QED BY <2>1, <2>3, <3>1, <3>2
  <2> QED BY <1>1, <1>2, <2>3, <2>4, <2>6, <2>8, <2>9, GoesOnOwn DEF Busy
<1> QED BY <1>3, <1>4

\* What belongs to readings that are not raced stays so by every step.
LEMMA NextOwn == NoWordIsACommand /\ TypeInv /\ ControlInv /\ OwnInv /\ [Next]_vars => OwnInv'
<1> SUFFICES ASSUME NoWordIsACommand, TypeInv, ControlInv, OwnInv, [Next]_vars PROVE OwnInv'
  OBVIOUS
<1>1. ASSUME NEW c \in Contexts, Failed(c) \/ ConvertTsl(c) PROVE OwnInv'
  <2>1. /\ Runs(c) /\ job[c].at \in {"failed", "convert"} /\ Goes(c, Ended(c))
        /\ UNCHANGED <<twi, buffer, measured, pointer, power>>
    BY <1>1 DEF Failed, ConvertTsl
  <2> QED BY <2>1, OfSensor, EndsOwn
<1>2. CASE \E c \in Contexts : Step(c)
  BY <1>1, <1>2, StoreCommandOwn, PerformOwn, WrittenOwn, ConvertHtuOwn, CheckTslOwn DEF Step
<1>3. CASE Transfer
  BY <1>3, TransferFailsOwn, WriteDoneOwn, FirstByteOwn, HtuReadOwn, TslReadOwn DEF Transfer
<1>4. CASE Publish
  <2>1. /\ job["timer"].at = "handler" /\ Goes("timer", Idle)
        /\ UNCHANGED <<twi, buffer, measured, pointer, power>>
    BY <1>4 DEF Publish
  <2>2. "timer" \in Contexts /\ job["timer"] # Idle /\ job'["timer"] = Idle
    BY <2>1, IdleJob, JobGoes DEF Contexts
  <2>3. HtuOwn("timer")' /\ TslOwn("timer")'
    BY <2>2, IdleJob DEF HtuOwn, TslOwn
  <2> QED BY <2>1, <2>2, <2>3, IdleJob, WhoRuns, GoesOnOwn DEF Busy
<1>5. ASSUME NEW s \in Sensors, SetPolling(s) PROVE OwnInv'
  <2>1. UNCHANGED <<job, twi, buffer, measured, pointer, power>>
    BY <1>5 DEF SetPolling
  <2> QED BY <2>1 DEF OwnInv, Alone, HtuOwn, TslOwn, Told
<1>6. CASE \E s \in Sensors : Poll(s) \/ SetPolling(s)
  BY <1>5, <1>6, PollOwn
<1>7. CASE \E s \in Sensors, what \in {"init", "off", "read"} : Start(what, s)
  BY <1>7, StartOwn
<1>8. CASE \E s \in Tsl : PowerLost(s)
  <2>1. /\ UNCHANGED <<job, twi, buffer, measured, pointer>>
        /\ \A s \in Tsl : power'[s] => power[s]
    BY <1>8 DEF PowerLost, TypeInv
  <2> QED BY <2>1 DEF OwnInv, Alone, HtuOwn, TslOwn, Told
<1>9. CASE UNCHANGED vars
  BY <1>9 DEF vars, OwnInv, Alone, HtuOwn, TslOwn, Told
<1> QED BY <1>2, <1>3, <1>4, <1>6, <1>7, <1>8, <1>9 DEF Next

\* Only the conversion of what was read leads on from there.
LEMMA Converting ==
    ASSUME TypeInv, ControlInv, Next, NEW c \in Contexts, Converts(c)
    PROVE  ConvertHtu(c) \/ CheckTsl(c) \/ ConvertTsl(c)
<1>1. job[c].at = "convert" /\ job'[c].at # "convert" /\ job \in [Contexts -> Job] /\ ContextInv(c)
  BY DEF Converts, TypeInv, ControlInv
<1>2. ASSUME NEW d, NEW k, Goes(d, k) PROVE d = c
  BY <1>1, <1>2 DEF Goes
<1>3. CASE \E d \in Contexts : Step(d)
  <2>1. PICK d \in Contexts : Step(d)
    BY <1>3
  <2>2. \E k : Goes(d, k)
    BY <2>1 DEF Step, StoreCommand, Perform, Failed, Written, ConvertHtu, CheckTsl, ConvertTsl
  <2>3. d = c
    BY <1>2, <2>2
  <2> QED BY <1>1, <2>1, <2>3 DEF Step, StoreCommand, Perform, Failed, Written
<1>4. CASE Transfer
  <2>1. ~Free /\ \E k : Goes(twi, k)
    BY <1>4 DEF Transfer, TransferFails, WriteDone, FirstByteRead, HtuRead, TslRead
  <2>2. twi = c
    BY <1>2, <2>1
  <2> QED BY <1>1, <2>2 DEF ContextInv
<1>5. CASE Publish
  BY <1>1, <1>2, <1>5 DEF Publish
<1>6. CASE \E s \in Sensors : Poll(s) \/ SetPolling(s)
  <2>1. CASE \E s \in Sensors : SetPolling(s)
    BY <1>1, <2>1 DEF SetPolling
  <2>2. CASE \E s \in Sensors : Poll(s)
    <3>1. PICK s \in Sensors : Poll(s)
      BY <2>2
    <3>2. c = "main"
      BY <1>1, <3>1, IdleJob DEF Poll, Contexts
    <3>3. job'["main"] \in {job["main"], [job["main"] EXCEPT !.raced = TRUE]}
      BY <3>1 DEF Poll
    <3> QED BY <1>1, <3>2, <3>3 DEF Job
  <2> QED BY <1>6, <2>1, <2>2
<1>7. CASE \E s \in Sensors, what \in {"init", "off", "read"} : Start(what, s)
  BY <1>1, <1>2, <1>7, IdleJob DEF Start
<1>8. CASE \E s \in Tsl : PowerLost(s)
  BY <1>1, <1>8 DEF PowerLost
<1> QED BY <1>3, <1>4, <1>5, <1>6, <1>7, <1>8 DEF Next

\* What is taken from a reading that is not raced.
LEMMA TakesOwn ==
    ASSUME NoiseIsDetected, TypeInv, ControlInv, OwnInv, Next, NEW c \in Contexts, Takes(c), ~job[c].raced
    PROVE  CASE Register(job[c]) = "temperature" -> buffer \in Temperatures
             [] Register(job[c]) = "humidity"    -> buffer \in Humidities
             [] Register(job[c]) = "data1"       ->
                   job[c].on /\ job[c].data0[1] = "data0" /\ job[c].got[1] = "data1"
             [] OTHER                            -> job[c].got[1] = Register(job[c])
<1> DEFINE j == job[c]
<1>1. /\ j.at = "convert" /\ Converts(c) /\ (stored' # stored \/ job'[c].at = "command")
      /\ ConvertHtu(c) \/ CheckTsl(c) \/ ConvertTsl(c)
  BY Converting DEF Takes, Converts
<1>2. /\ j \in Job /\ InRegisters(j) /\ ContextInv(c) /\ HtuOwn(c) /\ TslOwn(c) /\ j.what = "read"
      /\ j.sensor \in Tsl <=> j.sensor # Htu
  BY <1>1, OfSensor DEF ControlInv, OwnInv, ContextInv
<1>3. CASE j.sensor = Htu
  <2>1. IF CheckCRC[buffer] THEN TRUE ELSE stored' = stored /\ Goes(c, Ended(c))
    BY <1>1, <1>2, <1>3 DEF ConvertHtu, CheckTsl, ConvertTsl
  <2>2. CheckCRC[buffer]
    <3> SUFFICES ASSUME ~CheckCRC[buffer] PROVE FALSE
      OBVIOUS
    <3>1. job'[c] = Ended(c) /\ stored' = stored
      BY <2>1, EndedJob, JobGoes
    <3> QED BY <1>1, <3>1, EndedJob, IdleJob DEF Contexts
  <2>3. Register(j) \in {"temperature", "humidity"}
    BY <1>2, <1>3, RegisterAt
  <2>4. buffer \in Sent(Register(j))
    BY <1>1, <1>2, <1>3 DEF HtuOwn
  <2>5. buffer \in IF Register(j) = "temperature" THEN Temperatures ELSE Humidities
    BY <2>2, <2>3, <2>4, Commands DEF NoiseIsDetected
  <2> QED BY <2>3, <2>5
<1>4. CASE j.sensor # Htu
  <2>1. /\ j.part \in 1..4
        /\ j.part = 1 <=> Register(j) = "control"
        /\ j.part = 2 <=> Register(j) = "timing"
        /\ j.part = 3 <=> Register(j) = "data0"
        /\ j.part = 4 <=> Register(j) = "data1"
    BY <1>2, <1>4, RegisterAt
  <2>2. j.got[1] = Register(j) /\ (j.part > 1 => j.on) /\ (j.part = 4 => j.data0[1] = "data0")
    BY <1>1, <1>2, <1>4 DEF TslOwn
  <2>3. Register(j) \in TslRegister
    BY <2>1 DEF TslRegister
  <2> HIDE DEF j
  <2>4. CASE Register(j) = "data1"
    BY <2>1, <2>2, <2>4 DEF j
  <2>5. CASE Register(j) # "data1"
    BY <2>2, <2>3, <2>5 DEF TslRegister, j
  <2> QED BY <2>4, <2>5
<1> QED BY <1>3, <1>4

\* What belongs to readings that are not raced is always so.
LEMMA AlwaysOwn ==
    ASSUME NoWordIsACommand
    PROVE  Spec => [](TypeInv /\ ControlInv /\ OwnInv)
<1>1. Init => TypeInv /\ ControlInv /\ OwnInv
  <2> SUFFICES ASSUME Init PROVE TypeInv /\ ControlInv /\ OwnInv
    OBVIOUS
  <2>1. \A c \in Contexts : job[c] = Idle
    BY DEF Init
  <2>2. OwnInv
    BY <2>1, IdleJob DEF OwnInv, Alone, HtuOwn, TslOwn, Contexts, Busy
  <2> QED BY <2>2, InitControl
<1>2. TypeInv /\ ControlInv /\ OwnInv /\ [Next]_vars => (TypeInv /\ ControlInv /\ OwnInv)'
  BY NextControl, NextOwn
<1> QED BY <1>1, <1>2, PTL DEF Spec

\* Unless a poll of the sensor preempts its reading in main, what is taken is the sensor's own: words
\* that it measured for the command, channels of a sensor that was on.  The check value finds what is
\* flipped, and no measurement begins like a command.
THEOREM ReadingsAreOwn ==
    ASSUME NoiseIsDetected, NoWordIsACommand
    PROVE  Spec => OwnReading
<1>1. TypeInv /\ ControlInv /\ OwnInv /\ [Next]_vars =>
        [\A c \in Contexts : Takes(c) /\ ~job[c].raced =>
            CASE Register(job[c]) = "temperature" -> buffer \in Temperatures
              [] Register(job[c]) = "humidity"    -> buffer \in Humidities
              [] Register(job[c]) = "data1"       ->
                    job[c].on /\ job[c].data0[1] = "data0" /\ job[c].got[1] = "data1"
              [] OTHER                            -> job[c].got[1] = Register(job[c])]_vars
  BY TakesOwn
<1>2. Spec => [](TypeInv /\ ControlInv /\ OwnInv)
  BY AlwaysOwn
<1> QED BY <1>1, <1>2, PTL DEF Spec, OwnReading

-----------------------------------------------------------------------------
(* Whole words.                                                              *)

\* Where the first byte of what is converted comes from.
Starts == Arrived \cup {Command.temperature, Command.humidity}

\* What is converted if two contexts use the buffer.
LEMMA MixedBytes ==
    /\ \A x \in Starts, y \in Arrived : (x \cap FirstByte) \cup (y \ FirstByte) \in Mixed
    /\ \A b \in Mixed : \E x \in Starts, y \in Arrived : b = (x \cap FirstByte) \cup (y \ FirstByte)
<1> DEFINE Bytes(x, y) == (x \cap FirstByte) \cup (y \ FirstByte)
<1>1. Mixed = {Bytes(x, y) : x \in Starts, y \in Arrived}
  BY DEF Mixed, Starts
<1> HIDE DEF Bytes
<1>2. /\ \A x \in Starts, y \in Arrived : Bytes(x, y) \in Mixed
      /\ \A b \in Mixed : \E x \in Starts, y \in Arrived : b = Bytes(x, y)
  BY <1>1
<1> QED BY <1>2 DEF Bytes

\* Bytes that come to a buffer that may be converted leave one that may be.
LEMMA BytesMixed ==
    ASSUME NEW b \in Mixed
    PROVE  /\ \E a \in Starts : b \cap FirstByte = a \cap FirstByte
           /\ \A a \in Starts : (a \cap FirstByte) \cup (b \ FirstByte) \in Mixed
<1>1. PICK x \in Starts, y \in Arrived : b = (x \cap FirstByte) \cup (y \ FirstByte)
  BY MixedBytes
<1>2. b \cap FirstByte = x \cap FirstByte
  BY <1>1
<1>3. ASSUME NEW a \in Starts PROVE (a \cap FirstByte) \cup (b \ FirstByte) \in Mixed
  <2>1. (a \cap FirstByte) \cup (b \ FirstByte) = (a \cap FirstByte) \cup (y \ FirstByte)
    BY <1>1
  <2> QED BY <2>1, MixedBytes
<1> QED BY <1>2, <1>3

\* A job that has nothing of the HTU21D's leaves the buffer as it is.
LEMMA MixedGoes ==
    ASSUME TypeInv, MixedInv, NEW c \in Contexts, NEW k, Goes(c, k), buffer' = buffer,
           k.sensor # Htu \/ (k.at # "convert" /\ (k.at = "reading" => k.got = Nothing))
    PROVE  MixedInv'
<1>1. job'[c] = k /\ \A d \in Contexts : d # c => job'[d] = job[d]
  BY DEF Goes, TypeInv
<1>2. ASSUME NEW d \in Contexts, job'[d].sensor = Htu
      PROVE  /\ job'[d].at = "reading" /\ job'[d].got # Nothing =>
                \E a \in Starts : buffer' \cap FirstByte = a \cap FirstByte
             /\ job'[d].at = "convert" => buffer' \in Mixed
  BY <1>1, <1>2 DEF MixedInv, Starts
<1> QED BY <1>2 DEF MixedInv, Starts

\* A first byte comes to the buffer, of a command or of a word.
LEMMA MixedStarts ==
    ASSUME TypeInv, ControlInv, MixedInv, NEW c \in Contexts, NEW k, Goes(c, k), NEW x \in Starts,
           buffer' = (x \cap FirstByte) \cup (buffer \ FirstByte), k.at # "convert"
    PROVE  MixedInv'
<1>1. job'[c] = k /\ \A d \in Contexts : d # c => job'[d] = job[d]
  BY DEF Goes, TypeInv
<1>2. buffer' \cap FirstByte = x \cap FirstByte
  OBVIOUS
<1>3. ASSUME NEW d \in Contexts, job'[d].sensor = Htu, job'[d].at = "convert" PROVE buffer' \in Mixed
  <2>1. buffer \in Mixed
    BY <1>1, <1>3 DEF MixedInv
  <2> QED BY <2>1, BytesMixed
<1> QED BY <1>2, <1>3 DEF MixedInv, Starts

\* What is converted stays mixed of a first byte and a word by every step.
LEMMA NextMixed == TypeInv /\ ControlInv /\ MixedInv /\ [Next]_vars => MixedInv'
<1> SUFFICES ASSUME TypeInv, ControlInv, MixedInv, [Next]_vars PROVE MixedInv'
  OBVIOUS
<1>1. ASSUME NEW c \in Contexts, StoreCommand(c) PROVE MixedInv'
  <2> DEFINE k == [job[c] EXCEPT !.at = "write"]
  <2>1. /\ job[c].at = "command" /\ Goes(c, k)
        /\ buffer' = IF job[c].sensor = Htu THEN (buffer \ FirstByte) \cup Command[Register(job[c])]
                     ELSE buffer
    BY <1>1 DEF StoreCommand
  <2>2. k.at = "write"
    BY JobMoves DEF Point
  <2> HIDE DEF k
  <2>3. CASE job[c].sensor = Htu
    <3>1. Register(job[c]) \in DOMAIN Command
      BY <2>1, <2>3, OfSensor
    <3> DEFINE x == Command[Register(job[c])]
    <3>2. x \in Starts /\ x \subseteq FirstByte
      BY <3>1, Commands DEF Starts
    <3>3. buffer' = (x \cap FirstByte) \cup (buffer \ FirstByte)
      BY <2>1, <2>3, <3>2
    <3> HIDE DEF x
    <3> QED BY <2>1, <2>2, <3>2, <3>3, MixedStarts
  <2>4. CASE job[c].sensor # Htu
    BY <2>1, <2>2, <2>4, MixedGoes
  <2> QED BY <2>3, <2>4
<1>2. ASSUME NEW c \in Contexts, Perform(c) PROVE MixedInv'
  <2> DEFINE k == IF ~Free THEN Ended(c)
                  ELSE [job[c] EXCEPT !.at = IF Free /\ job[c].at = "write" THEN "writing" ELSE "reading"]
  <2>1. Goes(c, k) /\ buffer' = buffer /\ job[c].at \in {"write", "read"}
    BY <1>2 DEF Perform
  <2>2. job[c] \in Job /\ job[c].got = Nothing
    BY <2>1 DEF TypeInv, ControlInv, ContextInv
  <2>3. ~Free => k.got = Nothing /\ k.at \in {"idle", "handler"}
    BY EndedJob, IdleJob DEF Contexts
  <2>4. Free => k.got = Nothing /\ k.at \in {"writing", "reading"}
    BY <2>2 DEF Job
  <2> HIDE DEF k
  <2> QED BY <2>1, <2>3, <2>4, MixedGoes
<1>3. ASSUME NEW c \in Contexts, Failed(c) \/ Written(c) \/ ConvertHtu(c) \/ ConvertTsl(c) PROVE MixedInv'
  <2>1. /\ buffer' = buffer
        /\ \/ Goes(c, Ended(c)) \/ Goes(c, Continued(c))
           \/ Goes(c, [job[c] EXCEPT !.at = "read"])
    BY <1>3 DEF Failed, Written, ConvertHtu, ConvertTsl
  <2>2. Ended(c).at \in {"idle", "handler"} /\ Continued(c).at \in {"idle", "handler", "command"}
    BY EndedJob, ContinuedJob, IdleJob DEF Contexts
  <2>3. [job[c] EXCEPT !.at = "read"].at = "read"
    BY JobMoves DEF Point
  <2> QED BY <2>1, <2>2, <2>3, MixedGoes
<1>4. ASSUME NEW c \in Contexts, CheckTsl(c) PROVE MixedInv'
  <2> DEFINE k == [Continued(c) EXCEPT !.data0 = IF Register(job[c]) = "data0" THEN job[c].got ELSE @]
  <2>1. /\ buffer' = buffer /\ (Goes(c, Ended(c)) \/ Goes(c, k))
    BY <1>4 DEF CheckTsl
  <2>2. /\ Ended(c).at \in {"idle", "handler"} /\ Continued(c).at \in {"idle", "handler", "command"}
        /\ Continued(c) \in Job
    BY EndedJob, ContinuedJob, IdleJob DEF Contexts
  <2>3. k.at = Continued(c).at
    BY <2>2 DEF Job
  <2> HIDE DEF k
  <2> QED BY <2>1, <2>2, <2>3, MixedGoes
<1>5. CASE TransferFails \/ WriteDone \/ TslRead
  <2>1. ~Free /\ buffer' = buffer
    BY <1>5 DEF TransferFails, WriteDone, TslRead
  <2>2. PICK c \in Contexts : twi = c
    BY <2>1, OwnerIs
  <2>3. Owner = job[c] /\ job[c] \in Job
    BY <2>2 DEF Owner, TypeInv
  <2>4. PICK k : Goes(c, k) /\ (k.at \in {"failed", "written"} \/ k.sensor # Htu)
    <3>1. CASE TransferFails
      BY <2>2, <2>3, <3>1 DEF TransferFails, Job
    <3>2. CASE WriteDone
      BY <2>2, <2>3, <3>2 DEF WriteDone, Job
    <3>3. CASE TslRead
      <4>1. Owner.sensor # Htu
        BY <3>3, WordAssumption DEF TslRead
      <4>2. PICK got : Goes(twi, [Owner EXCEPT !.at = "convert", !.got = got])
        BY <3>3 DEF TslRead
      <4>3. [Owner EXCEPT !.at = "convert", !.got = got].sensor = Owner.sensor
        BY <2>3 DEF Job
      <4> QED BY <2>2, <4>1, <4>2, <4>3
    <3> QED BY <1>5, <3>1, <3>2, <3>3
  <2> QED BY <2>1, <2>4, MixedGoes
<1>6. CASE FirstByteRead
  <2>1. PICK w \in Words, e \in Noise :
          /\ Goes(twi, [Owner EXCEPT !.got = <<"word", Xor(w, e)>>])
          /\ buffer' = (Xor(w, e) \cap FirstByte) \cup (buffer \ FirstByte)
    BY <1>6 DEF FirstByteRead, Words
  <2>2. PICK c \in Contexts : twi = c
    BY <1>6, OwnerIs DEF FirstByteRead
  <2> DEFINE k == [Owner EXCEPT !.got = <<"word", Xor(w, e)>>]
  <2>3. Xor(w, e) \in Starts
    BY DEF Starts, Arrived
  <2>4. Owner \in Job /\ Owner.at = "reading"
    BY <1>6, <2>2 DEF Owner, TypeInv, FirstByteRead
  <2>5. k.at = "reading" /\ Goes(c, k)
    BY <2>1, <2>2, <2>4 DEF Job
  <2> HIDE DEF k
  <2> QED BY <2>1, <2>3, <2>5, MixedStarts
<1>7. CASE HtuRead
  <2>1. /\ Owner.sensor = Htu /\ Owner.got # Nothing
        /\ buffer' = (buffer \cap FirstByte) \cup (Owner.got[2] \ FirstByte)
        /\ Goes(twi, [Owner EXCEPT !.at = "convert", !.got = Nothing])
    BY <1>7 DEF HtuRead
  <2>2. PICK c \in Contexts : twi = c
    BY <1>7, OwnerIs DEF HtuRead
  <2>3. Owner = job[c] /\ job[c] \in Job /\ ContextInv(c)
    BY <2>2 DEF Owner, TypeInv, ControlInv
  <2>4. job[c].at = "reading" /\ job[c].got[1] = "word"
    BY <2>1, <2>2, <2>3 DEF ContextInv
  <2>5. job[c].got[2] \in Arrived
    BY <2>1, <2>3, <2>4 DEF Job, Got, TslRegister
  <2>6. PICK a \in Starts : buffer \cap FirstByte = a \cap FirstByte
    BY <2>1, <2>3, <2>4 DEF MixedInv, Starts
  <2>7. buffer' \cap FirstByte = a \cap FirstByte
    BY <2>1, <2>6
  <2>8. buffer' = (a \cap FirstByte) \cup (job[c].got[2] \ FirstByte)
    BY <2>1, <2>3, <2>6
  <2>9. buffer' \in Mixed
    BY <2>5, <2>8, MixedBytes
  <2> QED BY <2>7, <2>9 DEF MixedInv, Starts
<1>8. CASE Publish
  BY <1>8, IdleJob, MixedGoes DEF Publish, Contexts
<1>9. CASE \E s \in Sensors : SetPolling(s)
  BY <1>9 DEF SetPolling, MixedInv
<1>10. ASSUME NEW s \in Sensors, Poll(s) PROVE MixedInv'
  <2>1. /\ job'["timer"] = Begin("read", s) /\ buffer' = buffer
        /\ job'["main"] \in {job["main"], [job["main"] EXCEPT !.raced = TRUE]}
    BY <1>10 DEF Poll
  <2>2. job'["timer"].at = "command"
    BY <2>1, BeginJob
  <2>3. /\ job'["main"].at = job["main"].at /\ job'["main"].got = job["main"].got
        /\ job'["main"].sensor = job["main"].sensor
    BY <2>1 DEF TypeInv, Job, Contexts
  <2> QED BY <2>1, <2>2, <2>3 DEF MixedInv, Contexts
<1>11. ASSUME NEW s \in Sensors, NEW what \in {"init", "off", "read"}, Start(what, s) PROVE MixedInv'
  BY <1>11, BeginJob, MixedGoes DEF Start, Contexts
<1>12. CASE \E s \in Tsl : PowerLost(s)
  BY <1>12 DEF PowerLost, MixedInv
<1>13. CASE UNCHANGED vars
  BY <1>13 DEF vars, MixedInv
<1> QED BY <1>1, <1>2, <1>3, <1>4, <1>5, <1>6, <1>7, <1>8, <1>9, <1>10, <1>11, <1>12, <1>13
        DEF Next, Step, Transfer

\* A word is taken if and only if the buffer holds one, whatever was flipped on the way and whatever
\* another context did to the buffer: the check value tells words from what may be in it instead.
THEOREM WordsAreWhole ==
    ASSUME CheckTellsWords
    PROVE  Spec => WholeWords
<1>1. Init => TypeInv /\ ControlInv /\ MixedInv
  <2> SUFFICES ASSUME Init PROVE TypeInv /\ ControlInv /\ MixedInv
    OBVIOUS
  <2>1. \A c \in Contexts : job[c] = Idle
    BY DEF Init
  <2> QED BY <2>1, IdleJob, InitControl DEF MixedInv
<1>2. TypeInv /\ ControlInv /\ MixedInv /\ [Next]_vars => (TypeInv /\ ControlInv /\ MixedInv)'
  BY NextControl, NextMixed
<1>3. ASSUME TypeInv, ControlInv, MixedInv, Next, NEW c \in Contexts, Converts(c), job[c].sensor = Htu
      PROVE  IF buffer \in Words THEN stored' = stored \cup {<<Htu, Register(job[c])>>}
             ELSE stored' = stored /\ job'[c] = Ended(c)
  <2>1. job[c].at = "convert" /\ buffer \in Mixed
    BY <1>3 DEF Converts, MixedInv
  <2>2. CheckCRC[buffer] <=> buffer \in Words
    BY <2>1 DEF CheckTellsWords
  <2>3. ConvertHtu(c)
    BY <1>3, Converting, WordAssumption DEF CheckTsl, ConvertTsl
  <2>4. CASE buffer \in Words
    BY <2>2, <2>3, <2>4 DEF ConvertHtu
  <2>5. CASE buffer \notin Words
    <3>1. Goes(c, Ended(c)) /\ stored' = stored
      BY <2>2, <2>3, <2>5 DEF ConvertHtu
    <3>2. job'[c] = Ended(c)
      BY <1>3, <3>1 DEF Goes, TypeInv
    <3> QED BY <2>5, <3>1, <3>2
  <2> QED BY <2>4, <2>5
<1>4. TypeInv /\ ControlInv /\ MixedInv /\ [Next]_vars =>
        [\A c \in Contexts : Converts(c) /\ job[c].sensor = Htu =>
            IF buffer \in Words THEN stored' = stored \cup {<<Htu, Register(job[c])>>}
            ELSE stored' = stored /\ job'[c] = Ended(c)]_vars
  BY <1>3
<1> QED BY <1>1, <1>2, <1>4, PTL DEF Spec, WholeWords

=============================================================================
