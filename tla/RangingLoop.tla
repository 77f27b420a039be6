---------------------------- MODULE RangingLoop ----------------------------
(***************************************************************************)
(* The LIDAR thread of thesis.c once its sensors range: the loop of        *)
(* thesis_flex_thread, the two driver calls it makes on each sensor        *)
(* (vl53l8cx_check_data_ready, vl53l8cx_get_ranging_data), the INT          *)
(* interrupt that wakes it, and, as the environment, the sensors and the    *)
(* I2C bus.                                                                *)
(*                                                                         *)
(* A frame is identified twice: by the sensor's own running number (outN)  *)
(* and by the SYNC pulse that started it (outPulse, 0 for the frame that    *)
(* start_ranging itself started).  A timestamp is the number of the pulse  *)
(* at which it was taken.                                                  *)
(***************************************************************************)
EXTENDS Integers, FiniteSets

CONSTANTS
  NumSensors,   \* the 8 of thesis.c:318
  AliveSets,    \* the sets of sensors that may have initialised
  MaxTries,     \* the 10 of thesis.c:321: a sensor is asked more than once
  CountMod,     \* stream counts run 0..CountMod-1, 255 means "no frame yet"
  MaxCycles,    \* bound: SYNC pulses of a behaviour
  MaxFaults     \* bound: I2C reads of live sensors that fail

Sensors == 0 .. NumSensors - 1
Counts  == 0 .. CountMod - 1
NoCount == -1      \* the stream count 255
Other   == -2      \* bytes that are no frame's header
Idle    == -1      \* no acquisition running
Garbage == -1      \* a timestamp that is no pulse's

ASSUME RangingAssumption ==
  /\ NumSensors \in Nat \ {0}
  /\ AliveSets \subseteq SUBSET Sensors
  /\ MaxTries \in Nat \ {0, 1}
  /\ CountMod \in Nat \ {0, 1}
  /\ MaxCycles \in Nat
  /\ MaxFaults \in Nat

VARIABLES
  alive,    \* the sensors that initialised; init_sensor's failures are ignored
  primed,   \* start_ranging starts a frame before the first pulse
  timely,   \* an acquisition outlasts the reading of its own cycle and ends
            \* before the next pulse (the premise of thesis.c:310-312)
  pc, cycle, snum, tries,       \* the thread's position, pulses so far, its loop counters
  sem,                          \* int_sem, a binary semaphore
  prev_loop_tv, tv_now,         \* the two timestamps of the loop
  streamcount, temp_buffer,     \* per sensor, of VL53L8CX_Configuration
  vl_results,                   \* per sensor, the parsed results the loop copies
  acq, outN, outPulse,          \* per sensor: the device's acquisition and output
  faults,                       \* failed reads so far
  post,                         \* per sensor: what commsPost was last given
  spoilt,                       \* messages posted that were not genuine or not new
  missed                        \* frames that timely sensors had not posted in time

config  == <<alive, primed, timely>>     \* these never change
thread  == <<pc, cycle, snum, tries>>
stamps  == <<prev_loop_tv, tv_now>>
driver  == <<streamcount, temp_buffer, vl_results>>
device  == <<acq, outN, outPulse>>
costs   == <<spoilt, missed>>            \* they only record what was lost
vars    == <<config, thread, sem, stamps, driver, device, faults, post, costs>>

Stamps  == {Garbage} \cup 0 .. MaxCycles
Pulses  == 0 .. MaxCycles
Headers == [cnt : Counts \cup {NoCount, Other}, swapped : BOOLEAN]
Results == [n : Nat, pulse : Pulses, genuine : BOOLEAN]
Posts   == [n : Nat, pulse : Pulses, genuine : BOOLEAN, stamp : Stamps]

NoResult == [n |-> 0, pulse |-> 0, genuine |-> FALSE]
NoPost   == [n |-> 0, pulse |-> 0, genuine |-> FALSE, stamp |-> Garbage]

-----------------------------------------------------------------------------
(* The devices (environment).                                              *)

\* The stream count a sensor shows for its n-th frame.
Cnt(n) == IF n = 0 THEN NoCount ELSE n % CountMod

\* What start_ranging leaves in the driver: no count is remembered, and the first four
\* bytes of temp_buffer are what its own polls and reads put there.  A sensor that never
\* answered left zeros, which no check accepts.
StartRanging ==
  /\ streamcount = [s \in Sensors |-> NoCount]
  /\ temp_buffer = [s \in Sensors |->
       [cnt |-> IF s \in alive THEN Other ELSE NoCount, swapped |-> FALSE]]

\* The sensors have been told to range.  The first tv_now will be read from the
\* uninitialised prev_loop_tv: no pulse's time or, by chance, the right one.
Init ==
  /\ alive \in AliveSets
  /\ primed \in BOOLEAN /\ timely \in BOOLEAN /\ (timely => primed)
  /\ pc = "pulse" /\ cycle = 0 /\ snum = 0 /\ tries = 0
  /\ sem = FALSE
  /\ prev_loop_tv \in {Garbage, 0}
  /\ tv_now = Garbage
  /\ StartRanging
  /\ vl_results = [s \in Sensors |-> NoResult]
  /\ acq = [s \in Sensors |-> IF primed /\ s \in alive THEN 0 ELSE Idle]
  /\ outN = [s \in Sensors |-> 0]
  /\ outPulse = [s \in Sensors |-> 0]
  /\ faults = 0
  /\ post = [s \in Sensors |-> NoPost]
  /\ spoilt = 0 /\ missed = 0

\* int_isr gives the semaphore; only sensor 0 drives the INT pin.
GiveOnInt(s) == sem' = (sem \/ s = 0)

\* Sensor s ends its acquisition and publishes the frame.
Complete(s) ==
  /\ s \in alive
  /\ acq[s] # Idle
  /\ timely => pc = "pulse"
  /\ outN' = [outN EXCEPT ![s] = @ + 1]
  /\ outPulse' = [outPulse EXCEPT ![s] = acq[s]]
  /\ acq' = [acq EXCEPT ![s] = Idle]
  /\ GiveOnInt(s)
  /\ UNCHANGED <<config, thread, stamps, driver, faults, post, costs>>

-----------------------------------------------------------------------------
(* The thread.                                                             *)

\* The SYNC pulse starts a frame on every live sensor that is not in one, and
\* the timestamp of the previous pulse becomes the one this cycle's posts carry.
\* (StampSwapped is the mutant with lines 313 and 314 swapped.)
StampSwapped == prev_loop_tv' = cycle + 1 /\ tv_now' = cycle + 1
Stamp == tv_now' = prev_loop_tv /\ prev_loop_tv' = cycle + 1

\* The live sensors that have not had the genuine frame of the pulse before the last posted.
Lacking == {s \in alive : ~post[s].genuine \/ post[s].pulse # cycle - 1}

Pulse ==
  /\ pc = "pulse"
  /\ cycle < MaxCycles
  /\ timely => \A s \in alive : acq[s] = Idle
  /\ cycle' = cycle + 1
  /\ acq' = [s \in Sensors |->
               IF s \in alive /\ acq[s] = Idle THEN cycle + 1 ELSE acq[s]]
  /\ Stamp
  /\ pc' = "take"
  /\ missed' = IF timely /\ cycle > 0 THEN missed + Cardinality(Lacking) ELSE missed
  /\ UNCHANGED <<snum, tries, sem, driver, outN, outPulse, faults, post, spoilt>>

\* xSemaphoreTake(int_sem, portMAX_DELAY).
Take ==
  /\ pc = "take"
  /\ sem
  /\ sem' = FALSE
  /\ snum' = 0 /\ tries' = 0
  /\ pc' = "check"
  /\ UNCHANGED <<cycle, stamps, driver, device, faults, post, costs>>

\* Mutant: the for loop of thesis.c:318 runs once too often.
NextSensorOffByOne ==
  IF snum + 1 <= NumSensors
    THEN snum' = snum + 1 /\ tries' = 0 /\ pc' = "check"
    ELSE pc' = "pulse" /\ UNCHANGED <<snum, tries>>

\* Mutant: a sensor that stays silent for all its tries ends the scan.
NextSensorGivesUp ==
  IF snum + 1 < NumSensors /\ tries + 1 < MaxTries
    THEN snum' = snum + 1 /\ tries' = 0 /\ pc' = "check"
    ELSE pc' = "pulse" /\ UNCHANGED <<snum, tries>>

\* The next turn of the for loop, or back to the delay and the next pulse.
NextSensor ==
  IF snum + 1 < NumSensors
    THEN snum' = snum + 1 /\ tries' = 0 /\ pc' = "check"
    ELSE pc' = "pulse" /\ UNCHANGED <<snum, tries>>

\* An I2C read of the current sensor either works or not; the failure of a
\* dead sensor is not counted as a fault.
ReadWorks == snum \in alive /\ UNCHANGED faults
ReadFails ==
  \/ snum \notin alive /\ UNCHANGED faults
  \/ snum \in alive /\ faults < MaxFaults /\ faults' = faults + 1

\* The first byte is no frame's count: the bytes are swapped, or were never a header.
Opaque(h) == h.swapped \/ h.cnt = Other

\* Mutant: the stream count is taken to grow for ever.
NewCountsIfGreater(h, old) == IF ~Opaque(h) /\ h.cnt > old THEN {h.cnt} ELSE {}

\* The counts that check_data_ready may take for a new frame's in the four bytes
\* of temp_buffer, given the streamcount it remembers.  Opaque bytes may pass the
\* test or not.
NewCounts(h, old) == (IF Opaque(h) THEN Counts ELSE {h.cnt}) \ {NoCount, old}

\* Mutant: line 323 is missing.
TryAgainUncounted == UNCHANGED <<pc, snum, tries>>

\* The while loop of thesis.c:321.
TryAgain == tries' = tries + 1 /\ UNCHANGED <<pc, snum>>

\* vl53l8cx_check_data_ready: a failed read leaves temp_buffer alone and its
\* status is ignored, so the old bytes are judged.  The loop tries again until
\* the sensor is ready or its tries are used up.
CheckDataReady ==
  /\ pc = "check"
  /\ \/ /\ ReadWorks
        /\ temp_buffer' = [temp_buffer EXCEPT ![snum] =
                             [cnt |-> Cnt(outN[snum]), swapped |-> FALSE]]
     \/ /\ ReadFails
        /\ UNCHANGED temp_buffer
  /\ LET h   == temp_buffer'[snum]
         new == NewCounts(h, streamcount[snum])
     IN \/ /\ \E c \in new : streamcount' = [streamcount EXCEPT ![snum] = c]
           /\ pc' = "get" /\ UNCHANGED <<snum, tries>>
        \/ /\ Opaque(h) \/ new = {}
           /\ UNCHANGED streamcount
           /\ IF tries + 1 < MaxTries
                THEN TryAgain
                ELSE NextSensor
  /\ UNCHANGED <<cycle, sem, stamps, vl_results, device, post, costs>>

\* Mutant: the full read does not refresh streamcount (line 754 missing).
CountKept(h) == {streamcount[snum]}

\* The values streamcount may take after a full read: the byte that is first in
\* temp_buffer, any byte if they are opaque.
CountIn(h) == IF Opaque(h) THEN Counts \cup {NoCount} ELSE {h.cnt}

\* VL53L8CX_SwapBuffer on the first four bytes.
SwapBuffer(h) == [cnt |-> h.cnt, swapped |-> ~h.swapped]

\* The full read worked: the results are those of the frame being shown.
GetWorks ==
  LET h == [cnt |-> Cnt(outN[snum]), swapped |-> FALSE] IN
  /\ ReadWorks
  /\ \E c \in CountIn(h) : streamcount' = [streamcount EXCEPT ![snum] = c]
  /\ temp_buffer' = [temp_buffer EXCEPT ![snum] = SwapBuffer(h)]
  /\ vl_results' = [vl_results EXCEPT ![snum] =
       [n |-> outN[snum], pulse |-> outPulse[snum], genuine |-> TRUE]]

\* It failed: the bytes of the last check are counted, swapped and parsed
\* again, which leaves the results of the last good read or a corruption of them
\* (a second failure swaps the bytes back).
GetFails ==
  LET h == temp_buffer[snum] IN
  /\ ReadFails
  /\ \E c \in CountIn(h) : streamcount' = [streamcount EXCEPT ![snum] = c]
  /\ temp_buffer' = [temp_buffer EXCEPT ![snum] = SwapBuffer(h)]
  /\ \E g \in BOOLEAN :
       /\ g => vl_results[snum].n > 0
       /\ vl_results' = [vl_results EXCEPT ![snum].genuine = g]

\* vl53l8cx_get_ranging_data, the copy into the message and commsPost; the
\* status is stored in err and never looked at.
GetRangingData ==
  /\ pc = "get"
  /\ GetWorks \/ GetFails
  /\ post' = [post EXCEPT ![snum] =
       [n |-> vl_results'[snum].n, pulse |-> vl_results'[snum].pulse,
        genuine |-> vl_results'[snum].genuine, stamp |-> tv_now]]
  /\ NextSensor
  /\ spoilt' = IF post'[snum].genuine /\ post'[snum].n > post[snum].n
                 THEN spoilt ELSE spoilt + 1
  /\ UNCHANGED <<cycle, sem, stamps, device, missed>>

Thread == (Pulse \/ Take \/ CheckDataReady \/ GetRangingData) /\ UNCHANGED config
Done   == pc = "pulse" /\ cycle = MaxCycles /\ UNCHANGED vars   \* the bound
\* Without sensor 0 nobody gives the semaphore.
Stuck  == pc = "take" /\ ~sem /\ 0 \notin alive /\ UNCHANGED vars
Next   == Thread \/ (\E s \in Sensors : Complete(s)) \/ Done \/ Stuck

Spec == Init /\ [][Next]_vars

\* The scheduler runs the thread when it can run (core 1 has no other task of
\* its priority), and a live sensor ends what it has started.
FairSpec == Spec /\ WF_vars(Thread) /\ \A s \in Sensors : WF_vars(Complete(s))

-----------------------------------------------------------------------------
(* Properties.                                                             *)

ConfigOK == alive \in AliveSets /\ primed \in BOOLEAN /\ timely \in BOOLEAN

\* The type invariant: every variable of the loop, the driver, the devices and
\* the records of what was posted and lost keeps its type.
TypeOK ==
  /\ ConfigOK
  /\ pc \in {"pulse", "take", "check", "get"}
  /\ cycle \in 0 .. MaxCycles
  /\ snum \in Sensors
  /\ tries \in 0 .. MaxTries - 1
  /\ sem \in BOOLEAN
  /\ prev_loop_tv \in Stamps
  /\ tv_now \in Stamps
  /\ streamcount \in [Sensors -> Counts \cup {NoCount}]
  /\ temp_buffer \in [Sensors -> Headers]
  /\ vl_results \in [Sensors -> Results]
  /\ acq \in [Sensors -> Pulses \cup {Idle}]
  /\ outN \in [Sensors -> Nat]
  /\ outPulse \in [Sensors -> Pulses]
  /\ faults \in 0 .. MaxFaults
  /\ post \in [Sensors -> Posts]
  /\ spoilt \in Nat /\ missed \in Nat

\* Why FreshFrames holds.  A sensor that failed to initialise never shows a frame.
DeadAreSilent ==
  /\ \A s \in Sensors \ alive : temp_buffer[s] = [cnt |-> NoCount, swapped |-> FALSE]
  /\ pc = "get" => snum \in alive

\* Until a read fails, streamcount remembers the frame posted last, except
\* between a check that announced a newer one and the read that fetches it.
CountRemembers ==
  faults = 0 =>
    \A s \in Sensors :
      /\ post[s].n <= outN[s]
      /\ IF pc = "get" /\ s = snum
           THEN post[s].n < outN[s]
           ELSE streamcount[s] = Cnt(post[s].n)

\* The inductive invariant behind FreshFrames.
IInv == TypeOK /\ DeadAreSilent /\ CountRemembers

\* What thesis.c:321-335 posts for a sensor is, as long as no I2C read has
\* failed, a genuine frame newer than the one posted before it: nothing is
\* posted twice, whenever the sensor publishes between the check and the read.
NewerPost ==
  \A s \in Sensors :
    post'[s] # post[s] /\ faults' = 0
      => post'[s].genuine /\ post'[s].n > post[s].n
FreshFrames == [][NewerPost]_vars

\* A failed read spoils one message at most, in all: the messages that are not genuine or not
\* newer than the one before (a frame posted again, old results posted as new) are no more
\* than the reads that failed, although the loop judges and parses the bytes of an earlier
\* read, swapped or not, when one fails (thesis.c:323-326, vl53l8cx_api.c:718-755).
OneSpoiltPostPerFault == spoilt <= faults

\* With timely sensors and no failed read, at the end of the k-th cycle every
\* live sensor has had the frame of pulse k-1 posted: no frame is skipped.
NoFrameSkipped ==
  timely /\ 0 \in alive /\ pc = "pulse" /\ faults = 0 /\ cycle > 0
    => \A s \in alive : post[s].genuine /\ post[s].pulse = cycle - 1

\* With timely sensors, whatever reads have failed, a new frame that a pulse started is
\* posted with the time of that very pulse (thesis.c:309-314).
NewFrameStamped ==
  \A s \in Sensors :
    timely /\ post'[s] # post[s] /\ post'[s].genuine /\ post'[s].n > post[s].n
        /\ post'[s].pulse > 0
      => post'[s].stamp = post'[s].pulse
StampFromSecond == [][NewFrameStamped]_vars

\* The same for the first frame too, which no pulse started: what the comment of thesis.c:310-312 says.
StampCorrect ==
  \A s \in Sensors :
    timely /\ faults = 0 /\ post[s].n > 0 => post[s].stamp = post[s].pulse

\* With timely sensors, a failed read costs one frame at most, in all: over the whole run the
\* frames that a live sensor did not have posted by the next pulse are no more than the reads
\* that failed.  A fault that silenced a sensor, or made it miss the frame after too
\* (a count that by chance is the next frame's), would be counted in every cycle.
OneFramePerFault == missed <= faults

\* While sensor 0 lives the loop never stalls, neither on the semaphore nor on a
\* sensor that is dead or misses its reads: each pulse is followed by the next
\* (up to the bound), whatever the order of interrupts (thesis.c:316, 321).
CyclesGoOn ==
  \A k \in 0 .. MaxCycles - 1 : 0 \in alive /\ cycle = k ~> cycle = k + 1

=============================================================================
