------------------------------- MODULE Motion -------------------------------
(***************************************************************************)
(* motion.c: motion_thread with the functions of lsm6dso_reg.c it calls.   *)
(* The LSM6DSO and the kernel's vTaskDelayUntil are external.  The sensor   *)
(* keeps its registers when the board restarts (see Boot).                 *)
(*                                                                         *)
(* A channel shows one value, its low and high byte read one after the     *)
(* other; a sample is its number and the scale it was taken in.            *)
(***************************************************************************)
EXTENDS Integers, Sequences

CONSTANTS
  W,           \* the tick count wraps to 0 at W, 2^32
  Period,      \* motion_sample_freq in ticks, 10
  MaxLag,      \* bound: ticks a turn of the loop takes, delay apart
  MaxSamples   \* bound: samples of a channel

ASSUME MotionAssumption ==
  /\ W \in Nat /\ Period \in Nat /\ MaxLag \in Nat /\ MaxSamples \in Nat
  /\ MaxLag < Period /\ Period + MaxLag < W

Ticks    == 0 .. W - 1
Channels == <<"xl", "gy", "temp">>          \* in the order the loop reads them
Names    == {"xl", "gy", "temp"}
Settings == {"bdu", "odr_xl", "odr_g", "fs_g"}
NoSample == [n |-> 0, scaled |-> TRUE]
Samples  == [n : 0 .. MaxSamples, scaled : BOOLEAN]

VARIABLES
  present,    \* the sensor is fitted; never changes
  pc, step, chan,      \* the thread's position, register write and channel
  last,       \* last_sample_tick
  low,        \* the sample whose low byte it has read
  now, lag,   \* the tick count, and ticks since the thread could run
  bank,       \* the sensor's FUNC_CFG_ACCESS: "user" or "embedded"
  regs,       \* the settings made since its last reset
  resetting,  \* SW_RESET of CTRL3_C
  out, ready, half,    \* per channel: output, flag, low byte read and high not
  taken,      \* samples so far, per channel
  paced,      \* ghost: vTaskDelayUntil has delayed since the start
  sent, turns \* ghosts: per channel the last message, and those since the start

thread == <<pc, step, chan>>
clock  == <<last, now, lag, paced>>
chip   == <<bank, regs, resetting>>
data   == <<out, ready, half, taken>>
msgs   == <<low, sent, turns>>
motionVars == <<present, thread, clock, chip, data, msgs>>

\* The board and the sensor have just been powered.
MotionInit ==
  /\ present \in BOOLEAN
  /\ pc = "none" /\ step = 1 /\ chan = 1
  /\ last = 0 /\ now = 0 /\ lag = 0 /\ paced = FALSE
  /\ low = NoSample /\ turns = [c \in Names |-> 0]
  /\ bank = "user" /\ regs = {} /\ resetting = FALSE
  /\ out = [c \in Names |-> NoSample]
  /\ ready = [c \in Names |-> FALSE] /\ half = [c \in Names |-> FALSE]
  /\ taken = [c \in Names |-> 0]
  /\ sent = [c \in Names |-> [low |-> NoSample, high |-> NoSample]]

-----------------------------------------------------------------------------
(* The thread up to its loop.                                              *)

\* lsm6dso_device_id_get: the address of WHO_AM_I is another register's in the
\* embedded bank.  A wrong value returns from the task's function.
Identify ==
  /\ pc = "id"
  /\ pc' = IF present /\ bank = "user" THEN "reset" ELSE "returned"
  /\ UNCHANGED <<present, step, chan, clock, chip, data, msgs>>

\* lsm6dso_reset_set.
Reset ==
  /\ pc = "reset"
  /\ resetting' = TRUE
  /\ pc' = "poll"
  /\ UNCHANGED <<present, step, chan, clock, bank, regs, data, msgs>>

\* Mutant: one read of SW_RESET, whatever it says.
ResetOverIgnored == TRUE

\* The do loop of lines 122-124.
ResetOver == ~resetting

Poll ==
  /\ pc = "poll"
  /\ ResetOver
  /\ pc' = "config"
  /\ UNCHANGED <<present, step, chan, clock, chip, data, msgs>>

\* Mutants: no block data update; no full scale.
ConfigNoBdu   == <<"embedded", "user", "odr_xl", "embedded", "user", "odr_g", "fs_g">>
ConfigNoScale == <<"bdu", "embedded", "user", "odr_xl", "embedded", "user", "odr_g">>

\* The register writes of lines 127-139 that the properties tell apart: the data
\* rate functions look for running state machines in the embedded bank first.
Config == <<"bdu", "embedded", "user", "odr_xl", "embedded", "user", "odr_g", "fs_g">>

\* A register is written, unless a reset is running or the bank is the other one.
Write(w) ==
  IF w \in {"embedded", "user"}
    THEN bank' = w /\ UNCHANGED <<regs, resetting>>
    ELSE /\ regs' = IF resetting \/ bank # "user" THEN regs ELSE regs \cup {w}
         /\ UNCHANGED <<bank, resetting>>

\* The loop is reached at any tick with anything in last_sample_tick.
Configure ==
  /\ pc = "config"
  /\ Write(Config[step])
  /\ IF step < Len(Config)
       THEN step' = step + 1 /\ UNCHANGED <<pc, last, now>>
       ELSE pc' = "delay" /\ step' = 1 /\ last' \in Ticks /\ now' \in Ticks
  /\ UNCHANGED <<present, chan, lag, paced, data, msgs>>

-----------------------------------------------------------------------------
(* The loop.                                                               *)

\* Mutant: a comparison of one's own, as if the count never wrapped.
DelaysNoWrap(wake) == wake > now

\* xTaskDelayUntil's test, with the wrap of the tick count.
Delays(wake) ==
  IF now < last THEN wake < last /\ wake > now ELSE wake < last \/ wake > now

\* The call leaves the time it is to return at in last_sample_tick.
Delay ==
  /\ pc = "delay"
  /\ LET wake == (last + Period) % W IN
     /\ last' = wake
     /\ pc' = IF Delays(wake) THEN "blocked" ELSE "flag"
     /\ paced' = (paced \/ Delays(wake))
  /\ chan' = 1 /\ lag' = 0
  /\ UNCHANGED <<present, step, now, chip, data, msgs>>

\* The tick it waits for has come.
Due == (now - last) % W <= MaxLag

Wake ==
  /\ pc = "blocked" /\ Due
  /\ pc' = "flag"
  /\ UNCHANGED <<present, step, chan, clock, chip, data, msgs>>

\* A tick passes; what is ready to run runs within MaxLag of them.
Tick ==
  /\ pc \in {"delay", "blocked", "flag", "low", "high"}
  /\ now' = (now + 1) % W
  /\ IF pc = "blocked" /\ ~Due THEN UNCHANGED lag ELSE lag < MaxLag /\ lag' = lag + 1
  /\ UNCHANGED <<present, thread, last, paced, chip, data, msgs>>

\* Mutant: one channel too many.
NextChannelOffByOne ==
  IF chan <= Len(Channels) THEN chan' = chan + 1 /\ pc' = "flag"
                           ELSE chan' = chan /\ pc' = "delay"

NextChannel ==
  IF chan < Len(Channels) THEN chan' = chan + 1 /\ pc' = "flag"
                          ELSE chan' = chan /\ pc' = "delay"

\* Mutant: the output is read whether or not the flag says it is new.
IsReadyNot(c) == TRUE

\* The bit of STATUS_REG.
IsReady(c) == ready[c]

\* lsm6dso_*_flag_data_ready_get.
ReadFlag ==
  /\ pc = "flag"
  /\ IF IsReady(Channels[chan]) THEN pc' = "low" /\ UNCHANGED chan ELSE NextChannel
  /\ UNCHANGED <<present, step, clock, chip, data, msgs>>

\* lsm6dso_*_raw_get reads the low byte first.
ReadLow ==
  /\ pc = "low"
  /\ low' = out[Channels[chan]]
  /\ half' = [half EXCEPT ![Channels[chan]] = TRUE]
  /\ pc' = "high"
  /\ UNCHANGED <<present, step, chan, clock, chip, out, ready, taken, sent, turns>>

\* The high byte, which clears the flag, and commsPost.
ReadHigh ==
  LET c == Channels[chan] IN
  /\ pc = "high"
  /\ half' = [half EXCEPT ![c] = FALSE]
  /\ ready' = [ready EXCEPT ![c] = FALSE]
  /\ sent' = [sent EXCEPT ![c] = [low |-> low, high |-> out[c]]]
  /\ turns' = [turns EXCEPT ![c] = @ + 1]
  /\ low' = NoSample
  /\ NextChannel
  /\ UNCHANGED <<present, step, clock, chip, out, taken>>

MotionThread ==
  \/ Identify \/ Reset \/ Poll \/ Configure
  \/ Delay \/ Wake \/ ReadFlag \/ ReadLow \/ ReadHigh

-----------------------------------------------------------------------------
(* The sensor (external).                                                  *)

\* The reset ends: the registers of the user bank have their defaults.
ResetDone ==
  /\ resetting
  /\ resetting' = FALSE
  /\ regs' = {}
  /\ ready' = [c \in Names |-> FALSE]
  /\ half' = [c \in Names |-> FALSE]
  /\ UNCHANGED <<present, thread, clock, bank, out, taken, msgs>>

Runs(c) ==
  CASE c = "xl"   -> "odr_xl" \in regs
    [] c = "gy"   -> "odr_g" \in regs
    [] c = "temp" -> regs \cap {"odr_xl", "odr_g"} # {}

\* A channel takes a sample.  With block data update an output that is half
\* read does not change.
Sample(c) ==
  /\ Runs(c) /\ ~resetting
  /\ taken["xl"] + taken["gy"] + taken["temp"] < MaxSamples
  /\ taken' = [taken EXCEPT ![c] = @ + 1]
  /\ IF half[c] /\ "bdu" \in regs
       THEN UNCHANGED <<out, ready>>
       ELSE /\ out' = [out EXCEPT ![c] = [n |-> taken[c] + 1, scaled |-> c = "gy" => "fs_g" \in regs]]
            /\ ready' = [ready EXCEPT ![c] = TRUE]
  /\ UNCHANGED <<present, thread, clock, chip, half, msgs>>

-----------------------------------------------------------------------------
(* Properties of the component.                                            *)

InLoop == pc \in {"delay", "blocked", "flag", "low", "high"}

\* The type invariant.
MotionTypeOK ==
  /\ present \in BOOLEAN
  /\ pc \in {"none", "id", "returned", "reset", "poll", "config",
             "delay", "blocked", "flag", "low", "high"}
  /\ step \in 1 .. Len(Config) /\ chan \in 1 .. Len(Channels)
  /\ last \in Ticks /\ now \in Ticks /\ lag \in 0 .. MaxLag
  /\ low \in Samples
  /\ bank \in {"user", "embedded"}
  /\ regs \subseteq Settings
  /\ resetting \in BOOLEAN /\ paced \in BOOLEAN
  /\ out \in [Names -> Samples]
  /\ ready \in [Names -> BOOLEAN] /\ half \in [Names -> BOOLEAN]
  /\ taken \in [Names -> 0 .. MaxSamples]
  /\ sent \in [Names -> [low : Samples, high : Samples]]
  /\ turns \in [Names -> Nat]

\* Whatever state an earlier start of the board left the sensor in, the loop runs
\* with every setting made and none still to be undone (motion.c:121-146).
Configured == InLoop => bank = "user" /\ regs = Settings /\ ~resetting

\* However samples fall between the two bytes, a value is of one sample, and of a
\* newer one than the message before it (motion.c:130, 166-230).
WholeAndFresh ==
  /\ \A c \in Names : sent[c].low.n = sent[c].high.n
  /\ pc = "high" => low.n > sent[Channels[chan]].high.n

\* The gyroscope's rate is set before its scale, and the values are converted
\* with the scale's factor: of each start at most the first message is wrong.
WrongScaleFirstOnly == turns["gy"] > 1 => sent["gy"].high.scaled

=============================================================================
