----------------------------- MODULE BootProofs -----------------------------
(***************************************************************************)
(* For every period, delay, tick count and number of samples and restarts: *)
(* the types of Boot and Motion, that the queue exists before anybody      *)
(* posts, that the sampling loop runs with the sensor configured, what the *)
(* messages of the loop are made of, and that it keeps its pace.           *)
(***************************************************************************)
EXTENDS Boot, TLAPS

\* The tuples of Motion, place by place.
LEMMA ChannelsAre ==
  /\ Len(Channels) = 3
  /\ Channels[1] = "xl" /\ Channels[2] = "gy" /\ Channels[3] = "temp"
  /\ \A k \in 1 .. 3 : Channels[k] \in Names
  BY DEF Channels, Names

LEMMA ConfigIs ==
  /\ Len(Config) = 8
  /\ Config[1] = "bdu" /\ Config[2] = "embedded" /\ Config[3] = "user"
  /\ Config[4] = "odr_xl" /\ Config[5] = "embedded" /\ Config[6] = "user"
  /\ Config[7] = "odr_g" /\ Config[8] = "fs_g"
  BY DEF Config

\* A step of the thread that is neither a start nor a restart.
LEMMA MotionSteps ==
  MotionStep \/ TickStep \/ ChipStep \/ Sampling =>
    /\ MotionThread \/ Tick \/ ResetDone \/ \E c \in Names : Sample(c)
    /\ UNCHANGED <<created, comms, queue, flex, wait, resets>>
  BY Zenon DEF MotionStep, TickStep, ChipStep, Sampling, tasks

-----------------------------------------------------------------------------
(* The queue and those who post into it.                                   *)

Tasks == {"none", "ready", "waits"}

\* Core 0 has got to the thread and to the LIDAR task's last ticks only after
\* comms_thread has waited.
StartOrder ==
  /\ created \in 0 .. 3 /\ comms \in Tasks /\ wait \in 0 .. FlexDelay
  /\ comms = "waits" => queue
  /\ created >= 2 => comms # "none"
  /\ pc # "none" => created = 3 /\ comms = "waits"
  /\ wait > MaxHog => created = 3 /\ comms = "waits"
  /\ flex = "posts" => wait = FlexDelay

LEMMA InitOrder == Init => StartOrder
  BY BootAssumption DEF Init, MotionInit, StartOrder, Tasks

LEMMA NextOrder == StartOrder /\ [Next]_vars => StartOrder'
<1> SUFFICES ASSUME StartOrder, [Next]_vars PROVE StartOrder'
  OBVIOUS
<1>1. /\ created \in 0 .. 3 /\ comms \in Tasks /\ wait \in 0 .. FlexDelay
      /\ FlexDelay \in Nat /\ MaxHog \in Nat /\ MaxHog < FlexDelay
  BY BootAssumption DEF StartOrder
<1>2. CASE Create
  <2>1. /\ created' = created + 1 /\ created < 3
        /\ comms' = IF created = 1 THEN "ready" ELSE comms
        /\ UNCHANGED <<queue, pc, wait>>
        /\ flex' = "posts" => flex = "posts"
    BY <1>2 DEF Create, motionVars, thread
  <2> QED
    BY <1>1, <2>1 DEF StartOrder, Tasks
<1>3. CASE CommsStarts
  <2>1. comms' = "waits" /\ queue' /\ UNCHANGED <<created, flex, wait, pc>> /\ comms = "ready"
    BY <1>3, Zenon DEF CommsStarts, CommsWaits, motionVars, thread
  <2> QED
    BY <1>1, <2>1 DEF StartOrder, Tasks
<1>4. CASE MotionStarts
  <2>1. created = 3 /\ comms = "waits" /\ UNCHANGED <<created, comms, queue, flex, wait>>
    BY <1>1, <1>4 DEF MotionStarts, Core0Free, tasks, StartOrder, Tasks
  <2> QED
    BY <1>1, <2>1 DEF StartOrder
<1>5. CASE FlexWaits
  <2>1. /\ wait' = wait + 1 /\ wait < FlexDelay /\ UNCHANGED <<created, comms, queue, flex, pc>>
        /\ flex = "delay"
        /\ (created = 3 /\ comms # "ready") \/ wait < MaxHog
    BY <1>5 DEF FlexWaits, Core0Free, motionVars, thread
  <2> QED
    BY <1>1, <2>1 DEF StartOrder, Tasks
<1>6. CASE FlexPosts
  <2>1. wait = FlexDelay /\ UNCHANGED <<created, comms, queue, wait, pc>>
    BY <1>6 DEF FlexPosts, motionVars, thread
  <2> QED
    BY <1>1, <2>1 DEF StartOrder
<1>7. CASE MotionStep \/ TickStep \/ ChipStep \/ Sampling
  <2>1. UNCHANGED <<created, comms, queue, flex, wait>>
    BY <1>7, MotionSteps
  <2>2. pc # "none" \/ pc' = pc
    BY <1>7, MotionSteps
    DEF MotionThread, Identify, Reset, Poll, Configure, Delay, Wake, ReadFlag, ReadLow,
        ReadHigh, Tick, ResetDone, Sample, thread
  <2> QED
    BY <1>1, <2>1, <2>2 DEF StartOrder
<1>8. CASE Abort \/ Button \/ PowerCycle
  <2>1. pc' = "none" /\ created' = 0 /\ comms' = "none" /\ flex' = "none" /\ wait' = 0
    BY <1>8 DEF Abort, Button, PowerCycle, Restart
  <2> QED
    BY <1>1, <2>1 DEF StartOrder, Tasks
<1>9. CASE UNCHANGED vars
  <2>1. UNCHANGED <<created, comms, queue, flex, wait, pc>>
    BY <1>9 DEF vars, tasks, motionVars, thread
  <2> QED
    BY <2>1 DEF StartOrder
<1> QED
  BY <1>2, <1>3, <1>4, <1>5, <1>6, <1>7, <1>8, <1>9 DEF Next

\* Whatever order the kernel runs the tasks in, and after any number of restarts, the queue
\* exists before anybody posts.
THEOREM QueueBeforePosts == Spec => []PostsFindQueue
<1>1. StartOrder => PostsFindQueue
  BY BootAssumption DEF StartOrder, PostsFindQueue
<1> QED
  BY InitOrder, NextOrder, <1>1, PTL DEF Spec

-----------------------------------------------------------------------------
(* Types.                                                                  *)

LEMMA InitTypes == Init => TypeOK
<1> SUFFICES ASSUME Init PROVE TypeOK
  OBVIOUS
<1>1. /\ W \in Nat /\ 0 < W /\ MaxLag \in Nat /\ MaxSamples \in Nat
      /\ FlexDelay \in Nat /\ MaxResets \in Nat
  BY MotionAssumption, BootAssumption
<1>2. NoSample \in Samples
  BY <1>1 DEF NoSample, Samples
<1>3. /\ low \in Samples
      /\ out \in [Names -> Samples]
      /\ sent \in [Names -> [low : Samples, high : Samples]]
  BY <1>2 DEF Init, MotionInit
<1>4. taken \in [Names -> 0 .. MaxSamples] /\ turns \in [Names -> Nat]
  BY <1>1 DEF Init, MotionInit
<1>5. /\ present \in BOOLEAN /\ resetting \in BOOLEAN /\ paced \in BOOLEAN
      /\ ready \in [Names -> BOOLEAN] /\ half \in [Names -> BOOLEAN] /\ queue \in BOOLEAN
  BY Zenon DEF Init, MotionInit
<1>6. /\ step \in 1 .. Len(Config) /\ chan \in 1 .. Len(Channels)
      /\ last \in Ticks /\ now \in Ticks /\ lag \in 0 .. MaxLag
      /\ bank \in {"user", "embedded"} /\ regs \subseteq Settings
  BY <1>1, ChannelsAre, ConfigIs DEF Init, MotionInit, Ticks
<1>7. /\ pc \in {"none", "id", "returned", "reset", "poll", "config",
                 "delay", "blocked", "flag", "low", "high"}
      /\ created \in 0 .. 3 /\ comms \in {"none", "ready", "waits"}
      /\ flex \in {"none", "delay", "posts"} /\ wait \in 0 .. FlexDelay
      /\ resets \in 0 .. MaxResets
  BY <1>1 DEF Init, MotionInit
<1> QED
  BY <1>3, <1>4, <1>5, <1>6, <1>7, Zenon DEF TypeOK, MotionTypeOK

\* The thread stays among its positions, register writes and channels.
LEMMA ThreadTypes == TypeOK /\ MotionThread => MotionTypeOK'
<1> SUFFICES ASSUME TypeOK, MotionThread PROVE MotionTypeOK'
  OBVIOUS
<1> DEFINE Positions == {"none", "id", "returned", "reset", "poll", "config",
                         "delay", "blocked", "flag", "low", "high"}
<1>1. /\ W \in Nat /\ 0 < W /\ MaxLag \in Nat /\ MaxSamples \in Nat /\ Period \in Nat
  BY MotionAssumption
<1>2. MotionTypeOK
  BY Zenon DEF TypeOK
<1>3. step \in 1 .. 8 /\ chan \in 1 .. 3 /\ Channels[chan] \in Names
  BY <1>2, ChannelsAre, ConfigIs DEF MotionTypeOK
<1>4. /\ pc' \in Positions /\ step' \in 1 .. 8 /\ chan' \in 1 .. 3
  BY <1>2, <1>3, ChannelsAre, ConfigIs
  DEF MotionTypeOK, MotionThread, Identify, Reset, Poll, Configure, Delay, Wake, ReadFlag,
      ReadLow, ReadHigh, NextChannel, thread
<1>5. /\ last' \in Ticks /\ now' \in Ticks /\ lag' \in 0 .. MaxLag
  BY <1>1, <1>2
  DEF MotionTypeOK, MotionThread, Identify, Reset, Poll, Configure, Delay, Wake, ReadFlag,
      ReadLow, ReadHigh, clock, Ticks
<1>6. /\ present' \in BOOLEAN /\ resetting' \in BOOLEAN
  BY <1>2, Zenon
  DEF MotionTypeOK, MotionThread, Identify, Reset, Poll, Configure, Write, Delay, Wake,
      ReadFlag, ReadLow, ReadHigh, chip
<1>7. /\ paced' \in BOOLEAN
  <2>1. (paced \/ Delays((last + Period) % W)) \in BOOLEAN
    BY Zenon
  <2> QED
    BY <1>2, <2>1, Zenon
    DEF MotionTypeOK, MotionThread, Identify, Reset, Poll, Configure, Delay, Wake, ReadFlag,
        ReadLow, ReadHigh, clock
<1>8. /\ bank' \in {"user", "embedded"} /\ regs' \subseteq Settings
  <2>1. Config[step] \in {"user", "embedded"} \/ Config[step] \in Settings
    BY <1>3, ConfigIs DEF Settings
  <2> QED
    BY <1>2, <2>1
    DEF MotionTypeOK, MotionThread, Identify, Reset, Poll, Configure, Write, Delay, Wake,
        ReadFlag, ReadLow, ReadHigh, chip
<1>9. /\ out' \in [Names -> Samples] /\ taken' \in [Names -> 0 .. MaxSamples]
      /\ low' \in Samples
  <2>1. NoSample \in Samples /\ out[Channels[chan]] \in Samples
    BY <1>1, <1>2, <1>3 DEF NoSample, Samples, MotionTypeOK
  <2> QED
    BY <1>2, <2>1, Zenon
    DEF MotionTypeOK, MotionThread, Identify, Reset, Poll, Configure, Delay, Wake, ReadFlag,
        ReadLow, ReadHigh, data, msgs
<1>10. /\ ready' \in [Names -> BOOLEAN] /\ half' \in [Names -> BOOLEAN]
  BY <1>2, <1>3
  DEF MotionTypeOK, MotionThread, Identify, Reset, Poll, Configure, Delay, Wake, ReadFlag,
      ReadLow, ReadHigh, data
<1>11. sent' \in [Names -> [low : Samples, high : Samples]] /\ turns' \in [Names -> Nat]
  <2>1. low \in Samples /\ out[Channels[chan]] \in Samples
    BY <1>2, <1>3 DEF MotionTypeOK
  <2>2. [low |-> low, high |-> out[Channels[chan]]] \in [low : Samples, high : Samples]
    BY <2>1
  <2>3. turns[Channels[chan]] + 1 \in Nat
    BY <1>2, <1>3 DEF MotionTypeOK
  <2>4. \/ UNCHANGED <<sent, turns>>
        \/ /\ sent' = [sent EXCEPT ![Channels[chan]] = [low |-> low, high |-> out[Channels[chan]]]]
           /\ turns' = [turns EXCEPT ![Channels[chan]] = @ + 1]
    BY Zenon
    DEF MotionThread, Identify, Reset, Poll, Configure, Delay, Wake, ReadFlag, ReadLow,
        ReadHigh, msgs
  <2> DEFINE r == [low |-> low, high |-> out[Channels[chan]]]
  <2>5. r \in [low : Samples, high : Samples]
    BY <2>2
  <2> HIDE DEF r
  <2>6. UNCHANGED sent \/ sent' = [sent EXCEPT ![Channels[chan]] = r]
    BY <2>4, Zenon DEF r
  <2>7. sent' \in [Names -> [low : Samples, high : Samples]]
    BY <1>2, <2>5, <2>6, Zenon DEF MotionTypeOK
  <2>8. turns' \in [Names -> Nat]
    BY <1>2, <2>3, <2>4 DEF MotionTypeOK
  <2> QED
    BY <2>7, <2>8
<1> QED
  BY <1>4, <1>5, <1>6, <1>7, <1>8, <1>9, <1>10, <1>11, ChannelsAre, ConfigIs
  DEF MotionTypeOK

\* So do the clock and the sensor.
LEMMA SurroundingTypes ==
  TypeOK /\ (Tick \/ ResetDone \/ \E c \in Names : Sample(c)) => MotionTypeOK'
<1> SUFFICES ASSUME TypeOK, Tick \/ ResetDone \/ \E c \in Names : Sample(c) PROVE MotionTypeOK'
  OBVIOUS
<1>1. W \in Nat /\ 0 < W /\ MaxLag \in Nat /\ MaxSamples \in Nat
  BY MotionAssumption
<1>2. MotionTypeOK
  BY Zenon DEF TypeOK
<1>3. CASE Tick
  <2>1. now' \in Ticks /\ lag' \in 0 .. MaxLag
    BY <1>1, <1>2, <1>3 DEF Tick, MotionTypeOK, Ticks
  <2> QED
    BY <1>2, <1>3, <2>1 DEF Tick, MotionTypeOK, thread, chip, data, msgs
<1>4. CASE ResetDone
  BY <1>2, <1>4 DEF ResetDone, MotionTypeOK, thread, clock, msgs
<1>5. CASE \E c \in Names : Sample(c)
  <2>1. PICK c \in Names : Sample(c)
    BY <1>5
  <2>2. taken[c] + 1 \in 0 .. MaxSamples
    <3>1. /\ taken["xl"] \in Nat /\ taken["gy"] \in Nat /\ taken["temp"] \in Nat
          /\ c = "xl" \/ c = "gy" \/ c = "temp"
      BY <1>1, <1>2 DEF MotionTypeOK, Names
    <3>2. taken["xl"] + taken["gy"] + taken["temp"] < MaxSamples
      BY <2>1, Zenon DEF Sample
    <3> QED
      BY <1>1, <3>1, <3>2
  <2>3. taken' \in [Names -> 0 .. MaxSamples]
    BY <1>2, <2>1, <2>2 DEF MotionTypeOK, Sample
  <2>4. out' \in [Names -> Samples] /\ ready' \in [Names -> BOOLEAN]
    <3> DEFINE s == (c = "gy" => "fs_g" \in regs)
               r == [n |-> taken[c] + 1, scaled |-> s]
    <3>1. s \in BOOLEAN
      BY Zenon
    <3> HIDE DEF s
    <3>2. r \in Samples
      BY <2>2, <3>1 DEF Samples
    <3>3. \/ out' = out /\ ready' = ready
          \/ out' = [out EXCEPT ![c] = r] /\ ready' = [ready EXCEPT ![c] = TRUE]
      BY <2>1, Zenon DEF Sample, s
    <3> HIDE DEF r
    <3> QED
      BY <1>2, <3>2, <3>3, Zenon DEF MotionTypeOK
  <2> QED
    BY <1>2, <2>1, <2>3, <2>4 DEF Sample, MotionTypeOK, thread, clock, chip, msgs
<1> QED
  BY <1>3, <1>4, <1>5

\* A restart forgets the board's state, and the sensor's with the power.
LEMMA RestartTypes == TypeOK /\ (Abort \/ Button \/ PowerCycle) => TypeOK'
<1> SUFFICES ASSUME TypeOK, Abort \/ Button \/ PowerCycle PROVE TypeOK'
  OBVIOUS
<1>1. /\ W \in Nat /\ 0 < W /\ MaxLag \in Nat /\ MaxSamples \in Nat
      /\ FlexDelay \in Nat /\ MaxResets \in Nat
  BY MotionAssumption, BootAssumption
<1>2. MotionTypeOK
  BY Zenon DEF TypeOK
<1>3. /\ pc' = "none" /\ step' = 1 /\ chan' = 1
      /\ last' = 0 /\ now' = 0 /\ lag' = 0 /\ paced' = FALSE
      /\ low' = NoSample /\ turns' = [c \in Names |-> 0]
      /\ created' = 0 /\ comms' = "none" /\ queue' = FALSE
      /\ flex' = "none" /\ wait' = 0
      /\ UNCHANGED <<present, taken, sent>>
  BY Zenon DEF Abort, Button, PowerCycle, Restart
<1>4. NoSample \in Samples
  BY <1>1 DEF NoSample, Samples
<1>5. /\ low' \in Samples /\ turns' \in [Names -> Nat]
      /\ step' \in 1 .. Len(Config) /\ chan' \in 1 .. Len(Channels)
      /\ last' \in Ticks /\ now' \in Ticks /\ lag' \in 0 .. MaxLag
      /\ wait' \in 0 .. FlexDelay
  BY <1>1, <1>3, <1>4, ChannelsAre, ConfigIs DEF Ticks
<1>6. resets' \in 0 .. MaxResets
  BY <1>1 DEF TypeOK, Abort, Button, PowerCycle
<1>7. /\ bank' \in {"user", "embedded"} /\ regs' \subseteq Settings
  BY <1>2 DEF Abort, Button, PowerCycle, chip, MotionTypeOK
<1>8. /\ out' \in [Names -> Samples] /\ resetting' \in BOOLEAN
      /\ ready' \in [Names -> BOOLEAN] /\ half' \in [Names -> BOOLEAN]
  <2>1. CASE Abort \/ Button
    BY <1>2, <2>1 DEF Abort, Button, chip, MotionTypeOK
  <2>2. CASE PowerCycle
    BY <1>4, <2>2 DEF PowerCycle
  <2> QED
    BY <2>1, <2>2
<1>9. /\ pc' \in {"none", "id", "returned", "reset", "poll", "config",
                  "delay", "blocked", "flag", "low", "high"}
      /\ created' \in 0 .. 3 /\ comms' \in {"none", "ready", "waits"}
      /\ flex' \in {"none", "delay", "posts"}
  BY <1>3
<1>10. /\ present' \in BOOLEAN /\ paced' \in BOOLEAN /\ queue' \in BOOLEAN
       /\ taken' \in [Names -> 0 .. MaxSamples]
       /\ sent' \in [Names -> [low : Samples, high : Samples]]
  BY <1>2, <1>3, Zenon DEF MotionTypeOK
<1> QED
  BY <1>5, <1>6, <1>7, <1>8, <1>9, <1>10, Zenon DEF TypeOK, MotionTypeOK

LEMMA NextTypes == TypeOK /\ [Next]_vars => TypeOK'
<1> SUFFICES ASSUME TypeOK, [Next]_vars PROVE TypeOK'
  OBVIOUS
<1>1. /\ MotionTypeOK /\ FlexDelay \in Nat /\ MaxResets \in Nat
      /\ created \in 0 .. 3 /\ wait \in 0 .. FlexDelay /\ resets \in 0 .. MaxResets
      /\ comms \in {"none", "ready", "waits"} /\ flex \in {"none", "delay", "posts"}
      /\ queue \in BOOLEAN
  BY BootAssumption DEF TypeOK
<1>2. ASSUME UNCHANGED motionVars PROVE MotionTypeOK'
  BY <1>1, <1>2 DEF motionVars, thread, clock, chip, data, msgs, MotionTypeOK
<1>3. CASE Create
  <2>1. /\ created' = created + 1 /\ created < 3 /\ UNCHANGED <<wait, resets>>
        /\ flex' = "delay" \/ flex' = flex
        /\ comms' = "ready" \/ comms' = comms
    BY <1>3 DEF Create
  <2>2. UNCHANGED motionVars /\ UNCHANGED queue
    BY <1>3, Zenon DEF Create
  <2> QED
    BY <1>1, <1>2, <2>1, <2>2 DEF TypeOK
<1>4. CASE CommsStarts
  <2>1. UNCHANGED <<created, flex, wait, resets>> /\ comms' = "waits"
    BY <1>4 DEF CommsStarts, CommsWaits
  <2>2. UNCHANGED motionVars /\ queue' \in BOOLEAN
    BY <1>4, Zenon DEF CommsStarts, CommsWaits
  <2> QED
    BY <1>1, <1>2, <2>1, <2>2 DEF TypeOK
<1>5. CASE MotionStarts
  <2>1. UNCHANGED <<created, comms, queue, flex, wait, resets>>
    BY <1>5, Zenon DEF MotionStarts, tasks
  <2>2. MotionTypeOK'
    BY <1>1, <1>5 DEF MotionStarts, clock, chip, data, msgs, MotionTypeOK
  <2> QED
    BY <1>1, <2>1, <2>2 DEF TypeOK
<1>6. CASE FlexWaits \/ FlexPosts
  <2>1. /\ UNCHANGED <<created, comms, resets>> /\ flex' \in {"none", "delay", "posts"}
        /\ wait' \in 0 .. FlexDelay
    BY <1>1, <1>6 DEF FlexWaits, FlexPosts
  <2>2. UNCHANGED motionVars /\ UNCHANGED queue
    BY <1>6, Zenon DEF FlexWaits, FlexPosts
  <2> QED
    BY <1>1, <1>2, <2>1, <2>2 DEF TypeOK
<1>7. CASE MotionStep \/ TickStep \/ ChipStep \/ Sampling
  <2>1. MotionTypeOK'
    BY <1>7, ThreadTypes, SurroundingTypes, Zenon DEF MotionStep, TickStep, ChipStep, Sampling
  <2>2. UNCHANGED <<created, comms, queue, flex, wait, resets>>
    BY <1>7, MotionSteps, Zenon
  <2> QED
    BY <1>1, <2>1, <2>2 DEF TypeOK
<1>8. CASE Abort \/ Button \/ PowerCycle
  BY <1>8, RestartTypes
<1>9. CASE UNCHANGED vars
  <2>1. UNCHANGED motionVars /\ UNCHANGED <<created, comms, queue, flex, wait, resets>>
    BY <1>9, Zenon DEF vars, tasks
  <2> QED
    BY <1>1, <1>2, <2>1 DEF TypeOK
<1> QED
  BY <1>3, <1>4, <1>5, <1>6, <1>7, <1>8, <1>9 DEF Next

\* Every variable keeps its range: no register write beyond the last, no channel beyond the
\* third, and a lag the loop can make good.
THEOREM TypeCorrect == Spec => []TypeOK
  BY InitTypes, NextTypes, PTL DEF Spec

-----------------------------------------------------------------------------
(* The sensor's configuration.                                             *)

Early == {"none", "id", "returned", "reset", "poll"}

\* The settings that the first s - 1 register writes have made.
MadeBefore(s) ==
  (IF s > 1 THEN {"bdu"} ELSE {}) \cup (IF s > 4 THEN {"odr_xl"} ELSE {})
    \cup (IF s > 7 THEN {"odr_g"} ELSE {})

\* Until the loop is reached the writes have got as far as `step` says; from the
\* identification on the bank is the one the next write needs.
ConfigInv ==
  /\ pc # "config" => step = 1
  /\ pc \in {"reset", "poll"} => bank = "user"
  /\ pc = "config" =>
       /\ ~resetting
       /\ bank = IF step \in {3, 6} THEN "embedded" ELSE "user"
       /\ MadeBefore(step) \subseteq regs
  /\ Configured

LEMMA InitConfig == Init => ConfigInv
  BY DEF Init, MotionInit, ConfigInv, Configured, InLoop

LEMMA NextConfig == TypeOK /\ ConfigInv /\ [Next]_vars => ConfigInv'
<1> SUFFICES ASSUME TypeOK, ConfigInv, [Next]_vars PROVE ConfigInv'
  OBVIOUS
<1> USE DEF ConfigInv, Configured, InLoop
<1>1. /\ step \in 1 .. 8 /\ bank \in {"user", "embedded"} /\ regs \subseteq Settings
      /\ resetting \in BOOLEAN
  BY ConfigIs DEF TypeOK, MotionTypeOK
<1>2. ASSUME UNCHANGED <<pc, step, chip>> PROVE ConfigInv'
  BY <1>2 DEF chip
<1>3. CASE Identify
  BY <1>3 DEF Identify, chip
<1>4. CASE Reset
  BY <1>4 DEF Reset
<1>5. CASE Poll
  BY <1>5 DEF Poll, ResetOver, chip, MadeBefore
<1>6. CASE Configure
  <2>1. pc = "config" /\ Write(Config[step]) /\ ~resetting
    BY <1>6 DEF Configure
  <2>2. CASE step \in {2, 3, 5, 6}
    <3>1. /\ bank' = Config[step] /\ UNCHANGED <<regs, resetting, pc>> /\ step' = step + 1
      BY <1>6, <2>1, <2>2, ConfigIs DEF Configure, Write
    <3> QED
      BY <2>1, <2>2, <3>1, ConfigIs DEF MadeBefore
  <2>3. CASE step \in {1, 4, 7}
    <3>1. /\ UNCHANGED <<bank, resetting, pc>> /\ step' = step + 1
          /\ regs' = regs \cup {Config[step]}
      BY <1>6, <2>1, <2>3, ConfigIs DEF Configure, Write
    <3> QED
      BY <2>1, <2>3, <3>1, ConfigIs DEF MadeBefore
  <2>4. CASE step = 8
    <3>1. /\ UNCHANGED <<bank, resetting>> /\ step' = 1 /\ pc' = "delay"
          /\ regs' = regs \cup {"fs_g"}
      BY <1>6, <2>1, <2>4, ConfigIs DEF Configure, Write
    <3>2. MadeBefore(8) = {"bdu", "odr_xl", "odr_g"}
      BY DEF MadeBefore
    <3>3. regs' = Settings
      BY <1>1, <2>1, <2>4, <3>1, <3>2 DEF Settings
    <3> QED
      BY <2>1, <2>4, <3>1, <3>3
  <2> QED
    BY <1>1, <2>2, <2>3, <2>4
<1>7. CASE Delay \/ Wake \/ ReadFlag \/ ReadLow \/ ReadHigh
  <2>1. InLoop /\ InLoop' /\ UNCHANGED <<step, chip>>
    BY <1>7 DEF Delay, Wake, ReadFlag, ReadLow, ReadHigh, NextChannel
  <2> QED
    BY <2>1 DEF chip
<1>8. CASE ResetDone
  <2>1. UNCHANGED <<pc, step, bank>> /\ resetting
    BY <1>8 DEF ResetDone, thread
  <2> QED
    BY <2>1
<1>9. CASE Tick \/ \E c \in Names : Sample(c)
  <2>1. UNCHANGED <<pc, step, chip>>
    BY <1>9 DEF Tick, Sample, thread
  <2> QED
    BY <1>2, <2>1
<1>10. CASE Create \/ CommsStarts \/ FlexWaits \/ FlexPosts
  <2>1. UNCHANGED <<pc, step, chip>>
    BY <1>10 DEF Create, CommsStarts, FlexWaits, FlexPosts, motionVars, thread
  <2> QED
    BY <1>2, <2>1
<1>11. CASE MotionStarts
  BY <1>11 DEF MotionStarts, chip
<1>12. CASE Abort \/ Button \/ PowerCycle
  <2>1. pc' = "none" /\ step' = 1
    BY <1>12 DEF Abort, Button, PowerCycle, Restart
  <2> QED
    BY <2>1
<1>13. CASE UNCHANGED vars
  <2>1. UNCHANGED <<pc, step, chip>>
    BY <1>13 DEF vars, motionVars, thread
  <2> QED
    BY <1>2, <2>1
<1> QED
  BY <1>3, <1>4, <1>5, <1>6, <1>7, <1>8, <1>9, <1>10, <1>11, <1>12, <1>13
  DEF Next, MotionStep, TickStep, ChipStep, Sampling, MotionThread

\* In whatever state earlier starts of the board have left the sensor, and whenever they were
\* cut short, the sampling loop runs with all settings made, in the user bank.
THEOREM LoopIsConfigured == Spec => []Configured
<1>1. ConfigInv => Configured
  BY DEF ConfigInv
<1> QED
  BY InitTypes, NextTypes, InitConfig, NextConfig, <1>1, PTL DEF Spec

-----------------------------------------------------------------------------
(* What the messages are made of.                                          *)

\* No output is newer than the last sample, a raised flag means one that has not been
\* posted, and between the two bytes of a value the sensor holds the output.
DataInv ==
  /\ \A c \in Names :
       /\ out[c].n <= taken[c]
       /\ sent[c].low.n = sent[c].high.n
       /\ sent[c].high.n <= taken[c]
       /\ ready[c] => out[c].n > sent[c].high.n
  /\ pc \in {"low", "high"} => ready[Channels[chan]]
  /\ pc = "high" => half[Channels[chan]] /\ low = out[Channels[chan]]

\* The parts of a sample and of a message.
LEMMA SampleParts ==
  ASSUME TypeOK, NEW c \in Names
  PROVE  /\ out[c] \in Samples /\ out[c].n \in Nat /\ out[c].scaled \in BOOLEAN
         /\ sent[c].low.n \in Nat /\ sent[c].high.n \in Nat /\ sent[c].high.scaled \in BOOLEAN
         /\ taken[c] \in Nat /\ turns[c] \in Nat
<1>1. MaxSamples \in Nat
  BY MotionAssumption
<1>2. /\ out[c] \in Samples /\ sent[c] \in [low : Samples, high : Samples]
      /\ taken[c] \in 0 .. MaxSamples /\ turns[c] \in Nat
  BY DEF TypeOK, MotionTypeOK
<1>3. sent[c].low \in Samples /\ sent[c].high \in Samples
  BY <1>2
<1> QED
  BY <1>1, <1>2, <1>3 DEF Samples

LEMMA InitData == Init => DataInv
  BY DEF Init, MotionInit, DataInv, NoSample

\* What a sample of channel c changes.
LEMMA SampleTakes ==
  ASSUME TypeOK, NEW c \in Names, Sample(c)
  PROVE  /\ taken'[c] = taken[c] + 1
         /\ \A d \in Names \ {c} : out'[d] = out[d] /\ ready'[d] = ready[d] /\ taken'[d] = taken[d]
         /\ \/ out' = out /\ ready' = ready
            \/ /\ ~(half[c] /\ "bdu" \in regs)
               /\ out'[c].n = taken[c] + 1
               /\ out'[c].scaled = (c = "gy" => "fs_g" \in regs)
               /\ ready'[c]
         /\ UNCHANGED <<pc, chan, half, low, sent, turns, regs>>
<1> DEFINE s == (c = "gy" => "fs_g" \in regs)
           r == [n |-> taken[c] + 1, scaled |-> s]
<1>1. /\ taken' = [taken EXCEPT ![c] = taken[c] + 1]
      /\ \/ out' = out /\ ready' = ready
         \/ /\ ~(half[c] /\ "bdu" \in regs)
            /\ out' = [out EXCEPT ![c] = r] /\ ready' = [ready EXCEPT ![c] = TRUE]
      /\ UNCHANGED <<pc, chan, half, low, sent, turns, regs>>
  BY Zenon DEF Sample, thread, chip, msgs
<1>2. r.n = taken[c] + 1 /\ r.scaled = s
  BY Zenon
<1> HIDE DEF r, s
<1>3. /\ taken \in [Names -> 0 .. MaxSamples] /\ out \in [Names -> Samples]
      /\ ready \in [Names -> BOOLEAN]
  BY Zenon DEF TypeOK, MotionTypeOK
<1>4. taken'[c] = taken[c] + 1
  BY <1>1, <1>3, Zenon
<1>5. \A d \in Names \ {c} : out'[d] = out[d] /\ ready'[d] = ready[d] /\ taken'[d] = taken[d]
  BY <1>1, <1>3, Zenon
<1>6. CASE out' = out /\ ready' = ready
  BY <1>1, <1>4, <1>5, <1>6, Zenon
<1>7. CASE /\ ~(half[c] /\ "bdu" \in regs)
           /\ out' = [out EXCEPT ![c] = r] /\ ready' = [ready EXCEPT ![c] = TRUE]
  <2>1. out'[c] = r /\ ready'[c]
    BY <1>3, <1>7, Zenon
  <2>2. out'[c].n = taken[c] + 1 /\ out'[c].scaled = s
    BY <1>2, <2>1, Zenon
  <2> QED
    BY <1>1, <1>4, <1>5, <1>7, <2>1, <2>2, Zenon DEF s
<1> QED
  BY <1>1, <1>6, <1>7, Zenon

\* What reading the high byte of the channel changes.
LEMMA HighReads ==
  ASSUME TypeOK, ReadHigh, NEW c \in Names, c = Channels[chan]
  PROVE  /\ sent'[c].low = low /\ sent'[c].high = out[c] /\ ~ready'[c]
         /\ turns'[c] = turns[c] + 1
         /\ \A d \in Names \ {c} :
              sent'[d] = sent[d] /\ ready'[d] = ready[d] /\ turns'[d] = turns[d]
         /\ UNCHANGED <<out, taken>>
<1> DEFINE r == [low |-> low, high |-> out[c]]
<1>1. /\ sent' = [sent EXCEPT ![c] = r]
      /\ ready' = [ready EXCEPT ![c] = FALSE]
      /\ turns' = [turns EXCEPT ![c] = turns[c] + 1]
      /\ UNCHANGED <<out, taken>>
  BY Zenon DEF ReadHigh
<1>2. r.low = low /\ r.high = out[c]
  BY Zenon
<1> HIDE DEF r
<1>3. /\ sent \in [Names -> [low : Samples, high : Samples]]
      /\ ready \in [Names -> BOOLEAN] /\ turns \in [Names -> Nat]
  BY Zenon DEF TypeOK, MotionTypeOK
<1>4. sent'[c] = r /\ ~ready'[c] /\ turns'[c] = turns[c] + 1
  BY <1>1, <1>3, Zenon
<1>5. sent'[c].low = low /\ sent'[c].high = out[c]
  BY <1>2, <1>4, Zenon
<1> QED
  BY <1>1, <1>3, <1>4, <1>5, Zenon

LEMMA NextData == TypeOK /\ ConfigInv /\ DataInv /\ [Next]_vars => DataInv'
<1> SUFFICES ASSUME TypeOK, ConfigInv, DataInv, [Next]_vars PROVE DataInv'
  OBVIOUS
<1>1. /\ chan \in 1 .. 3 /\ Channels[chan] \in Names
  BY ChannelsAre DEF TypeOK, MotionTypeOK
<1>2. \A c \in Names : /\ out[c].n \in Nat /\ sent[c].low.n \in Nat /\ sent[c].high.n \in Nat
                       /\ taken[c] \in Nat
  BY SampleParts
<1>3. ASSUME UNCHANGED <<out, sent, ready, taken>>, pc' \notin {"low", "high"} PROVE DataInv'
  BY <1>3 DEF DataInv
<1>4. ASSUME UNCHANGED <<out, sent, ready, taken, pc, chan, half, low>> PROVE DataInv'
  BY <1>4 DEF DataInv
<1>5. CASE Identify \/ Reset \/ Poll \/ Configure \/ Delay \/ Wake
  <2>1. UNCHANGED <<out, sent, ready, taken>> /\ pc' \notin {"low", "high"}
    BY <1>5 DEF Identify, Reset, Poll, Configure, Delay, Wake, data, msgs
  <2> QED
    BY <1>3, <2>1
<1>6. CASE ReadFlag
  <2>1. UNCHANGED <<out, sent, ready, taken>>
    BY <1>6 DEF ReadFlag, data, msgs
  <2>2. \/ pc' = "low" /\ chan' = chan /\ ready[Channels[chan]]
        \/ pc' \notin {"low", "high"}
    BY <1>6 DEF ReadFlag, IsReady, NextChannel
  <2> QED
    BY <1>3, <2>1, <2>2 DEF DataInv
<1>7. CASE ReadLow
  <2>1. /\ UNCHANGED <<out, sent, ready, taken, chan>> /\ pc = "low" /\ pc' = "high"
        /\ low' = out[Channels[chan]] /\ half' = [half EXCEPT ![Channels[chan]] = TRUE]
    BY <1>7, Zenon DEF ReadLow
  <2>2. half'[Channels[chan]]
    BY <1>1, <2>1, Zenon DEF TypeOK, MotionTypeOK
  <2> QED
    BY <2>1, <2>2, Zenon DEF DataInv
<1>8. CASE ReadHigh
  <2> DEFINE c == Channels[chan]
  <2>1. /\ sent'[c].low = low /\ sent'[c].high = out[c] /\ ~ready'[c]
        /\ \A d \in Names \ {c} : sent'[d] = sent[d] /\ ready'[d] = ready[d]
        /\ UNCHANGED <<out, taken>>
    BY <1>1, <1>8, HighReads, Zenon
  <2>2. pc' \notin {"low", "high"} /\ low = out[c] /\ c \in Names
    BY <1>1, <1>8 DEF ReadHigh, NextChannel, DataInv
  <2> HIDE DEF c
  <2>3. ASSUME NEW d \in Names
        PROVE  /\ out'[d].n <= taken'[d]
               /\ sent'[d].low.n = sent'[d].high.n
               /\ sent'[d].high.n <= taken'[d]
               /\ ready'[d] => out'[d].n > sent'[d].high.n
    <3>1. CASE d = c
      BY <2>1, <2>2, <3>1 DEF DataInv
    <3>2. CASE d # c
      BY <2>1, <3>2 DEF DataInv
    <3> QED
      BY <3>1, <3>2
  <2> QED
    BY <2>2, <2>3 DEF DataInv
<1>9. CASE \E c \in Names : Sample(c)
  <2>1. PICK c \in Names : Sample(c)
    BY <1>9
  <2>2. /\ taken'[c] = taken[c] + 1
        /\ \A d \in Names \ {c} : out'[d] = out[d] /\ ready'[d] = ready[d] /\ taken'[d] = taken[d]
        /\ \/ out' = out /\ ready' = ready
           \/ ~(half[c] /\ "bdu" \in regs) /\ out'[c].n = taken[c] + 1 /\ ready'[c]
        /\ UNCHANGED <<pc, chan, half, low, sent>>
    BY <2>1, SampleTakes, Zenon
  <2>3. ASSUME NEW d \in Names
        PROVE  /\ out'[d].n <= taken'[d]
               /\ sent'[d].low.n = sent'[d].high.n
               /\ sent'[d].high.n <= taken'[d]
               /\ ready'[d] => out'[d].n > sent'[d].high.n
               /\ ready[d] => ready'[d]
    <3>1. CASE d = c
      BY <1>2, <2>2, <3>1 DEF DataInv
    <3>2. CASE d # c
      BY <2>2, <3>2 DEF DataInv
    <3> QED
      BY <3>1, <3>2
  <2>4. pc' = "high" => out'[Channels[chan]] = out[Channels[chan]]
    <3> SUFFICES ASSUME pc = "high", c = Channels[chan] PROVE out' = out
      BY <1>1, <2>2
    <3>1. half[c] /\ regs = Settings
      BY DEF DataInv, ConfigInv, Configured, InLoop
    <3> QED
      BY <2>2, <3>1 DEF Settings
  <2> QED
    BY <1>1, <2>2, <2>3, <2>4 DEF DataInv
<1>10. CASE Tick \/ Create \/ CommsStarts \/ FlexWaits \/ FlexPosts
  <2>1. UNCHANGED <<out, sent, ready, taken, pc, chan, half, low>>
    BY <1>10, Zenon
    DEF Tick, Create, CommsStarts, FlexWaits, FlexPosts, motionVars, thread, data, msgs
  <2> QED
    BY <1>4, <2>1
<1>11. CASE ResetDone
  <2>1. /\ UNCHANGED <<out, sent, taken, pc>> /\ resetting
        /\ ready' = [c \in Names |-> FALSE]
    BY <1>11, Zenon DEF ResetDone, thread, msgs
  <2>2. pc \notin {"low", "high"}
    BY <2>1 DEF ConfigInv, Configured, InLoop
  <2> QED
    BY <2>1, <2>2 DEF DataInv
<1>12. CASE MotionStarts \/ Abort \/ Button
  <2>1. UNCHANGED <<out, sent, ready, taken>> /\ pc' \notin {"low", "high"}
    BY <1>12 DEF MotionStarts, Abort, Button, Restart, data, msgs
  <2> QED
    BY <1>3, <2>1
<1>13. CASE PowerCycle
  <2>1. /\ UNCHANGED <<sent, taken>> /\ pc' = "none"
        /\ out' = [c \in Names |-> NoSample] /\ ready' = [c \in Names |-> FALSE]
    BY <1>13, Zenon DEF PowerCycle, Restart
  <2> QED
    BY <1>2, <2>1 DEF DataInv, NoSample
<1>14. CASE UNCHANGED vars
  <2>1. UNCHANGED <<out, sent, ready, taken, pc, chan, half, low>>
    BY <1>14, Zenon DEF vars, motionVars, thread, data, msgs
  <2> QED
    BY <1>4, <2>1
<1> QED
  BY <1>5, <1>6, <1>7, <1>8, <1>9, <1>10, <1>11, <1>12, <1>13, <1>14
  DEF Next, MotionStep, TickStep, ChipStep, Sampling, MotionThread

LEMMA DataIsWhole == TypeOK /\ DataInv => WholeAndFresh
<1> SUFFICES ASSUME TypeOK, DataInv PROVE WholeAndFresh
  OBVIOUS
<1>1. Channels[chan] \in Names
  BY ChannelsAre DEF TypeOK, MotionTypeOK
<1> QED
  BY <1>1 DEF DataInv, WholeAndFresh

\* However many samples fall between the flag, the low byte and the high byte of a value,
\* each message is one sample, newer than the one before it, over restarts as well.
THEOREM MessagesAreWhole == Spec => []WholeAndFresh
  BY InitTypes, NextTypes, InitConfig, NextConfig, InitData, NextData, DataIsWhole, PTL DEF Spec

-----------------------------------------------------------------------------
(* The scale of the gyroscope.                                             *)

\* A sample from before the scale was set waits for the first message of the loop only.
ScaleInv ==
  /\ ~InLoop => turns["gy"] = 0
  /\ InLoop /\ turns["gy"] >= 1 /\ ready["gy"] => out["gy"].scaled
  /\ WrongScaleFirstOnly

LEMMA InitScale == Init => ScaleInv
<1> SUFFICES ASSUME Init PROVE ScaleInv
  OBVIOUS
<1>1. pc = "none" /\ turns["gy"] = 0
  BY DEF Init, MotionInit, Names
<1> QED
  BY <1>1 DEF ScaleInv, WrongScaleFirstOnly, InLoop

LEMMA NextScale == TypeOK /\ ConfigInv /\ DataInv /\ ScaleInv /\ [Next]_vars => ScaleInv'
<1> SUFFICES ASSUME TypeOK, ConfigInv, DataInv, ScaleInv, [Next]_vars PROVE ScaleInv'
  OBVIOUS
<1>1. /\ Channels[chan] \in Names /\ "gy" \in Names
  BY ChannelsAre DEF TypeOK, MotionTypeOK, Names
<1>2. turns["gy"] \in Nat
  BY <1>1, SampleParts
<1>3. ASSUME UNCHANGED <<turns, ready, out, sent>>, InLoop' = InLoop PROVE ScaleInv'
  BY <1>3 DEF ScaleInv, WrongScaleFirstOnly
<1>4. ASSUME turns'["gy"] = 0 PROVE ScaleInv'
  BY <1>4 DEF ScaleInv, WrongScaleFirstOnly
<1>5. CASE Identify \/ Reset \/ Poll \/ Configure \/ MotionStarts
  <2>1. turns' = turns /\ ~InLoop
    BY <1>5 DEF Identify, Reset, Poll, Configure, MotionStarts, msgs, InLoop
  <2> QED
    BY <1>4, <2>1 DEF ScaleInv
<1>6. CASE Delay \/ Wake \/ ReadFlag \/ ReadLow
  <2>1. UNCHANGED <<turns, ready, out, sent>> /\ InLoop /\ InLoop'
    BY <1>6 DEF Delay, Wake, ReadFlag, ReadLow, NextChannel, data, msgs, InLoop
  <2> QED
    BY <1>3, <2>1
<1>7. CASE ReadHigh
  <2> DEFINE c == Channels[chan]
  <2>1. /\ sent'[c].high = out[c] /\ ~ready'[c] /\ turns'[c] = turns[c] + 1
        /\ \A d \in Names \ {c} :
             sent'[d] = sent[d] /\ ready'[d] = ready[d] /\ turns'[d] = turns[d]
        /\ UNCHANGED out
    BY <1>1, <1>7, HighReads, Zenon
  <2>2. InLoop /\ InLoop' /\ ready[c] /\ c \in Names
    BY <1>1, <1>7 DEF ReadHigh, NextChannel, InLoop, DataInv
  <2> HIDE DEF c
  <2>3. CASE c = "gy"
    BY <1>2, <2>1, <2>2, <2>3 DEF ScaleInv, WrongScaleFirstOnly
  <2>4. CASE c # "gy"
    BY <1>1, <2>1, <2>2, <2>4 DEF ScaleInv, WrongScaleFirstOnly
  <2> QED
    BY <2>3, <2>4
<1>8. CASE \E c \in Names : Sample(c)
  <2>1. PICK c \in Names : Sample(c)
    BY <1>8
  <2>2. /\ \A d \in Names \ {c} : out'[d] = out[d] /\ ready'[d] = ready[d]
        /\ \/ out' = out /\ ready' = ready
           \/ out'[c].scaled = (c = "gy" => "fs_g" \in regs)
        /\ UNCHANGED <<pc, sent, turns>>
    BY <2>1, SampleTakes, Zenon
  <2>3. InLoop' = InLoop /\ (InLoop => "fs_g" \in regs)
    BY <2>2 DEF InLoop, ConfigInv, Configured, Settings
  <2>4. CASE c = "gy" /\ out'[c].scaled = (c = "gy" => "fs_g" \in regs)
    <3>1. InLoop' => out'["gy"].scaled
      BY <2>3, <2>4, Zenon
    <3> QED
      BY <2>2, <2>3, <3>1 DEF ScaleInv, WrongScaleFirstOnly
  <2>5. CASE c # "gy" \/ (out' = out /\ ready' = ready)
    <3>1. out'["gy"] = out["gy"] /\ ready'["gy"] = ready["gy"]
      BY <1>1, <2>2, <2>5, Zenon
    <3> QED
      BY <2>2, <2>3, <3>1 DEF ScaleInv, WrongScaleFirstOnly
  <2> QED
    BY <2>2, <2>4, <2>5, Zenon
<1>9. CASE Tick \/ Create \/ CommsStarts \/ FlexWaits \/ FlexPosts
  <2>1. UNCHANGED <<out, sent, ready, turns, pc>>
    BY <1>9, Zenon
    DEF Tick, Create, CommsStarts, FlexWaits, FlexPosts, motionVars, thread, data, msgs
  <2> QED
    BY <1>3, <2>1 DEF InLoop
<1>10. CASE ResetDone
  <2>1. UNCHANGED <<turns, pc>> /\ ~InLoop
    BY <1>10 DEF ResetDone, thread, msgs, ConfigInv, Configured, InLoop
  <2> QED
    BY <1>4, <2>1 DEF ScaleInv
<1>11. CASE Abort \/ Button \/ PowerCycle
  <2>1. turns' = [c \in Names |-> 0]
    BY <1>11, Zenon DEF Abort, Button, PowerCycle, Restart
  <2> QED
    BY <1>1, <1>4, <2>1
<1>12. CASE UNCHANGED vars
  <2>1. UNCHANGED <<out, sent, ready, turns, pc>>
    BY <1>12, Zenon DEF vars, motionVars, thread, data, msgs
  <2> QED
    BY <1>3, <2>1 DEF InLoop
<1> QED
  BY <1>5, <1>6, <1>7, <1>8, <1>9, <1>10, <1>11, <1>12
  DEF Next, MotionStep, TickStep, ChipStep, Sampling, MotionThread

\* From the second message of a start on, the gyroscope's values are of the scale they are
\* converted with.
THEOREM ScaleIsRight == Spec => []WrongScaleFirstOnly
<1>1. ScaleInv => WrongScaleFirstOnly
  BY DEF ScaleInv
<1> QED
  BY InitTypes, NextTypes, InitConfig, NextConfig, InitData, NextData, InitScale, NextScale,
     <1>1, PTL DEF Spec

-----------------------------------------------------------------------------
(* The pace of the sampling loop.                                          *)

\* Ticks since the one the thread was last woken for, or W less those until it.
Elapsed == (now - last) % W

\* Once paced, the thread's lag is the time since that tick; while it is blocked it has none
\* until the tick has come, which is a period away at most.
PaceInv ==
  /\ paced => InLoop
  /\ paced /\ pc \in {"delay", "flag", "low", "high"} => Elapsed = lag
  /\ pc = "blocked" => paced /\ (IF Due THEN Elapsed = lag
                                   ELSE lag = 0 /\ W - Elapsed <= Period)

\* Division with remainder is unique.
LEMMA Residue ==
  ASSUME NEW M \in Nat \ {0}, NEW n \in Int, NEW k \in Int, NEW r \in 0 .. M - 1,
         n = (M * k) + r
  PROVE  n % M = r
<1> DEFINE q == n \div M
           m == n % M
<1>1. m \in 0 .. M - 1 /\ q \in Int
  OBVIOUS
<1>2. m = n - (M * q)
  BY Z3
<1> HIDE DEF q, m
<1>3. M * (k - q) = m - r
  BY <1>1, <1>2
<1>4. k - q >= 1 => M * (k - q) >= M
  BY <1>1
<1>5. k - q <= 0 - 1 => M * (k - q) <= 0 - M
  BY <1>1
<1>6. k = q
  BY <1>1, <1>3, <1>4, <1>5
<1>7. m = r
  BY <1>1, <1>3, <1>6
<1> QED
  BY <1>7 DEF m

\* Sums and differences of tick counts wrap at most once.
LEMMA Wrapped ==
  ASSUME NEW n \in Int, 0 - W <= n, n < 2 * W
  PROVE  n % W = IF n < 0 THEN n + W ELSE IF n < W THEN n ELSE n - W
<1>1. W \in Nat \ {0}
  BY MotionAssumption
<1>2. CASE n < 0
  <2>1. n = (W * (0 - 1)) + (n + W) /\ n + W \in 0 .. W - 1 /\ 0 - 1 \in Int
    BY <1>1, <1>2
  <2> QED
    BY <1>1, <1>2, <2>1, Residue
<1>3. CASE 0 <= n /\ n < W
  <2>1. n = (W * 0) + n /\ n \in 0 .. W - 1
    BY <1>1, <1>3
  <2> QED
    BY <1>1, <1>3, <2>1, Residue
<1>4. CASE W <= n
  <2>1. n = (W * 1) + (n - W) /\ n - W \in 0 .. W - 1
    BY <1>1, <1>4
  <2> QED
    BY <1>1, <1>4, <2>1, Residue
<1> QED
  BY <1>1, <1>2, <1>3, <1>4

\* The tick count, the wake tick and what lies between them.
LEMMA ElapsedIs ==
  ASSUME now \in Ticks, last \in Ticks
  PROVE  Elapsed = IF now >= last THEN now - last ELSE (now - last) + W
<1>1. W \in Nat /\ now \in 0 .. W - 1 /\ last \in 0 .. W - 1
  BY MotionAssumption DEF Ticks
<1>2. now - last \in Int /\ 0 - W <= now - last /\ now - last < 2 * W
  BY <1>1
<1>3. (now - last) % W = IF now - last < 0 THEN (now - last) + W
                         ELSE IF now - last < W THEN now - last ELSE (now - last) - W
  BY <1>2, Wrapped
<1> QED
  BY <1>1, <1>3 DEF Elapsed

LEMMA NextTick ==
  ASSUME now \in Ticks, last \in Ticks, now' = (now + 1) % W, UNCHANGED last
  PROVE  /\ now' \in Ticks /\ Elapsed \in 0 .. W - 1
         /\ Elapsed' = IF Elapsed + 1 = W THEN 0 ELSE Elapsed + 1
<1>1. W \in Nat \ {0} /\ now \in 0 .. W - 1 /\ last \in 0 .. W - 1
  BY MotionAssumption DEF Ticks
<1>2. now' = IF now + 1 < W THEN now + 1 ELSE 0
  <2>1. now + 1 \in Int /\ 0 - W <= now + 1 /\ now + 1 < 2 * W
    BY <1>1
  <2>2. (now + 1) % W = IF now + 1 < 0 THEN (now + 1) + W
                        ELSE IF now + 1 < W THEN now + 1 ELSE (now + 1) - W
    BY <2>1, Wrapped
  <2> QED
    BY <1>1, <2>2
<1>3. now' \in Ticks /\ last' \in Ticks
  BY <1>1, <1>2 DEF Ticks
<1>4. Elapsed = IF now >= last THEN now - last ELSE (now - last) + W
  BY ElapsedIs
<1>5. Elapsed' = IF now' >= last' THEN now' - last' ELSE (now' - last') + W
  <2>1. now' - last' \in Int /\ 0 - W <= now' - last' /\ now' - last' < 2 * W
    BY <1>1, <1>2
  <2>2. (now' - last') % W = IF now' - last' < 0 THEN (now' - last') + W
                             ELSE IF now' - last' < W THEN now' - last' ELSE (now' - last') - W
    BY <2>1, Wrapped
  <2> QED
    BY <1>1, <1>2, <2>2 DEF Elapsed
<1> QED
  BY <1>1, <1>2, <1>3, <1>4, <1>5

\* The test of vTaskDelayUntil finds the wake tick ahead if the thread is not late, and
\* when it blocks the thread, the tick is still to come, within a period.
LEMMA DelayAhead ==
  ASSUME now \in Ticks, last \in Ticks, Elapsed \in Nat,
         UNCHANGED now, last' = (last + Period) % W
  PROVE  /\ last' \in Ticks
         /\ Elapsed <= MaxLag => Delays(last')
         /\ Delays(last') => Elapsed' > MaxLag /\ W - Elapsed' <= Period
<1>1. /\ W \in Nat /\ now \in 0 .. W - 1 /\ last \in 0 .. W - 1
      /\ Period \in Nat /\ MaxLag \in Nat /\ MaxLag < Period /\ Period + MaxLag < W
  BY MotionAssumption DEF Ticks
<1>2. last' = IF last + Period < W THEN last + Period ELSE (last + Period) - W
  <2>1. last + Period \in Int /\ 0 - W <= last + Period /\ last + Period < 2 * W
    BY <1>1
  <2>2. (last + Period) % W = IF last + Period < 0 THEN (last + Period) + W
                              ELSE IF last + Period < W THEN last + Period
                              ELSE (last + Period) - W
    BY <2>1, Wrapped
  <2> QED
    BY <1>1, <2>2
<1>3. Elapsed = IF now >= last THEN now - last ELSE (now - last) + W
  BY ElapsedIs
<1>4. Elapsed' = IF now >= last' THEN now - last' ELSE (now - last') + W
  <2>1. now - last' \in Int /\ 0 - W <= now - last' /\ now - last' < 2 * W
    BY <1>1, <1>2
  <2>2. (now - last') % W = IF now - last' < 0 THEN (now - last') + W
                            ELSE IF now - last' < W THEN now - last' ELSE (now - last') - W
    BY <2>1, Wrapped
  <2> QED
    BY <1>1, <1>2, <2>2 DEF Elapsed
<1>5. last' \in Ticks
  BY <1>1, <1>2 DEF Ticks
<1>6. ASSUME Elapsed <= MaxLag PROVE Delays(last')
  BY <1>1, <1>2, <1>3, <1>6 DEF Delays
<1>7. ASSUME Delays(last') PROVE Elapsed' > MaxLag /\ W - Elapsed' <= Period
  BY <1>1, <1>2, <1>4, <1>7 DEF Delays
<1> QED
  BY <1>5, <1>6, <1>7

LEMMA InitPace == Init => PaceInv
  BY DEF Init, MotionInit, PaceInv

\* Every step keeps the invariant, and a call that does not delay is one of
\* the first, one that does for a period at most.
LEMMA NextPace == TypeOK /\ PaceInv /\ [Next]_vars => PaceInv' /\ [InTime]_motionVars
<1> SUFFICES ASSUME TypeOK, PaceInv, [Next]_vars PROVE PaceInv' /\ InTime
  OBVIOUS
<1>1. /\ now \in Ticks /\ last \in Ticks /\ lag \in 0 .. MaxLag
      /\ W \in Nat /\ MaxLag \in Nat /\ MaxLag < W
  BY MotionAssumption DEF TypeOK, MotionTypeOK
<1>2. Elapsed \in Nat
  BY <1>1, ElapsedIs DEF Ticks
<1>3. ASSUME UNCHANGED <<now, last, lag, paced, pc>> PROVE PaceInv' /\ InTime
  BY <1>3 DEF PaceInv, InTime, Elapsed, Due, InLoop
<1>4. ASSUME ~paced', pc' \notin {"flag", "blocked"} PROVE PaceInv' /\ InTime
  BY <1>4 DEF PaceInv, InTime
<1>5. CASE Identify \/ Reset \/ Poll \/ Configure
  <2>1. pc \in {"id", "reset", "poll", "config"} /\ pc' \notin {"flag", "blocked"} /\ paced' = paced
    BY <1>5 DEF Identify, Reset, Poll, Configure, clock
  <2>2. ~paced'
    BY <2>1 DEF PaceInv, InLoop
  <2> QED
    BY <1>4, <2>1, <2>2
<1>6. CASE Delay
  <2>1. /\ pc = "delay" /\ UNCHANGED now /\ last' = (last + Period) % W /\ lag' = 0
        /\ pc' = (IF Delays(last') THEN "blocked" ELSE "flag")
        /\ paced' = (paced \/ Delays(last'))
    BY <1>6, Zenon DEF Delay
  <2>2. /\ Elapsed <= MaxLag => Delays(last')
        /\ Delays(last') => Elapsed' > MaxLag /\ W - Elapsed' <= Period
    BY <1>1, <1>2, <2>1, DelayAhead
  <2>3. paced => Elapsed <= MaxLag
    BY <1>1, <2>1 DEF PaceInv
  <2>4. Due' => ~(Elapsed' > MaxLag)
    <3>1. Elapsed' \in Int
      BY <1>1, <2>1, MotionAssumption, DelayAhead DEF Elapsed, Ticks
    <3> QED
      BY <1>1, <3>1 DEF Due, Elapsed
  <2>5. InTime
    BY <2>1, <2>2, <2>3, Zenon DEF InTime, Elapsed
  <2>6. pc' \notin {"delay", "low", "high"} /\ (pc' = "flag" => ~paced')
    BY <2>1, <2>2, <2>3, Zenon
  <2>7. pc' = "blocked" => paced' /\ ~Due' /\ lag' = 0 /\ W - Elapsed' <= Period
    BY <2>1, <2>2, <2>4, Zenon
  <2> QED
    BY <2>1, <2>5, <2>6, <2>7, Zenon DEF PaceInv, InLoop
<1>7. CASE Wake
  <2>1. pc = "blocked" /\ Due /\ pc' = "flag" /\ UNCHANGED <<now, last, lag, paced>>
    BY <1>7 DEF Wake, clock
  <2> QED
    BY <2>1 DEF PaceInv, InTime, Elapsed, InLoop
<1>8. CASE ReadFlag \/ ReadLow \/ ReadHigh
  <2>1. /\ pc \in {"flag", "low", "high"} /\ pc' \in {"delay", "flag", "low", "high"}
        /\ UNCHANGED <<now, last, lag, paced>>
    BY <1>8 DEF ReadFlag, ReadLow, ReadHigh, NextChannel, clock
  <2> QED
    BY <2>1 DEF PaceInv, InTime, Elapsed, InLoop
<1>9. CASE Tick
  <2>1. /\ pc \in {"delay", "blocked", "flag", "low", "high"}
        /\ now' = (now + 1) % W /\ UNCHANGED <<pc, last, paced>>
        /\ IF pc = "blocked" /\ ~Due THEN UNCHANGED lag ELSE lag < MaxLag /\ lag' = lag + 1
    BY <1>9 DEF Tick, thread
  <2>2. Elapsed \in 0 .. W - 1 /\ Elapsed' = (IF Elapsed + 1 = W THEN 0 ELSE Elapsed + 1)
    BY <1>1, <2>1, NextTick
  <2>3. (Due <=> Elapsed <= MaxLag) /\ (Due' <=> Elapsed' <= MaxLag)
    BY DEF Due, Elapsed
  <2>4. InTime
    BY <2>1 DEF InTime
  <2>5. CASE pc = "blocked"
    BY MotionAssumption, <1>1, <2>1, <2>2, <2>3, <2>4, <2>5 DEF PaceInv, InLoop
  <2>6. CASE pc # "blocked"
    BY <1>1, <2>1, <2>2, <2>4, <2>6 DEF PaceInv, InLoop
  <2> QED
    BY <2>5, <2>6
<1>10. CASE Abort \/ Button \/ PowerCycle
  <2>1. pc' = "none" /\ ~paced'
    BY <1>10, Zenon DEF Abort, Button, PowerCycle, Restart
  <2> QED
    BY <1>4, <2>1
<1>11. CASE \/ Create \/ CommsStarts \/ FlexWaits \/ FlexPosts \/ ResetDone
            \/ \E c \in Names : Sample(c)
  <2>1. UNCHANGED <<now, last, lag, paced, pc>>
    BY <1>11, Zenon
    DEF Create, CommsStarts, FlexWaits, FlexPosts, ResetDone, Sample, motionVars, thread, clock
  <2> QED
    BY <1>3, <2>1
<1>12. CASE MotionStarts
  <2>1. pc = "none" /\ pc' = "id" /\ paced' = paced
    BY <1>12 DEF MotionStarts, clock
  <2>2. ~paced'
    BY <2>1 DEF PaceInv, InLoop
  <2> QED
    BY <1>4, <2>1, <2>2
<1>13. CASE UNCHANGED vars
  <2>1. UNCHANGED <<now, last, lag, paced, pc>>
    BY <1>13, Zenon DEF vars, motionVars, thread, clock
  <2> QED
    BY <1>3, <2>1
<1> QED
  BY <1>5, <1>6, <1>7, <1>8, <1>9, <1>10, <1>11, <1>12, <1>13
  DEF Next, MotionStep, TickStep, ChipStep, Sampling, MotionThread

\* Wherever the wake tick and the tick count stood at its start: once vTaskDelayUntil has
\* delayed the sampling loop, no call of it returns at once, and none ever delays the loop
\* for more than a period, across the wrap of the tick count.
THEOREM PaceIsKept == Spec => CallsInTime
  BY InitTypes, NextTypes, InitPace, NextPace, PTL DEF Spec, CallsInTime

=============================================================================
