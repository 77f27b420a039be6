-------------------------------- MODULE Boot --------------------------------
(***************************************************************************)
(* main.c: app_main creates the three tasks; which of them runs when, and  *)
(* what they need of each other until all of them do: comms_queue, which    *)
(* comms_thread creates before it first waits.  With motion_thread in       *)
(* detail, because its end restarts the board.                             *)
(*                                                                         *)
(* The kernel is external: priorities are strict, a core runs the other     *)
(* tasks of the same priority when one waits, and a task function that       *)
(* returns aborts (CONFIG_FREERTOS_TASK_FUNCTION_WRAPPER).                  *)
(***************************************************************************)
EXTENDS Motion

CONSTANTS
  FlexDelay,   \* ticks before thesis_flex_thread does anything, 10
  MaxHog,      \* bound: ticks that system tasks keep the others off core 0
  MaxResets    \* bound: resets by button or power

ASSUME BootAssumption ==
  /\ FlexDelay \in Nat /\ MaxHog \in Nat /\ MaxResets \in Nat
  /\ MaxHog < FlexDelay

VARIABLES
  created,     \* the tasks app_main has created, of 3
  comms,       \* comms_thread: "none", "ready" or "waits"
  queue,       \* comms_queue is not NULL
  flex,        \* the LIDAR task: "none", "delay" or "posts"
  wait,        \* ticks since it started
  resets

tasks == <<created, comms, queue, flex, wait>>
vars  == <<motionVars, tasks, resets>>

Init ==
  /\ MotionInit
  /\ created = 0 /\ comms = "none" /\ queue = FALSE
  /\ flex = "none" /\ wait = 0
  /\ resets = 0

-----------------------------------------------------------------------------
(* Core 0 and core 1.                                                      *)

\* xTaskCreatePinnedToCore, three times, and the end of app_main.
Create ==
  /\ created < 3
  /\ created' = created + 1
  /\ flex' = IF created = 0 THEN "delay" ELSE flex
  /\ comms' = IF created = 1 THEN "ready" ELSE comms
  /\ UNCHANGED <<motionVars, queue, wait, resets>>

\* Mutant: the queue is created behind networking_connect.
CommsWaitsLate == UNCHANGED queue /\ comms' = "waits"

\* Mutant: comms_thread polls for its address.
CommsSpins == queue' = TRUE /\ UNCHANGED comms

\* The queue is created before the first call that waits.
CommsWaits == queue' = TRUE /\ comms' = "waits"

CommsStarts ==
  /\ comms = "ready"
  /\ CommsWaits
  /\ UNCHANGED <<motionVars, created, flex, wait, resets>>

\* Core 0 gets to a task of priority 0.
Core0Free == created = 3 /\ comms # "ready"

\* The motion thread gets to its first line and its delay of BOOT_TIME is over.
MotionStarts ==
  /\ pc = "none" /\ Core0Free
  /\ pc' = "id"
  /\ UNCHANGED <<present, step, chan, clock, chip, data, msgs, tasks, resets>>

\* A tick of the LIDAR task's delay.
FlexWaits ==
  /\ flex = "delay" /\ wait < FlexDelay
  /\ Core0Free \/ wait < MaxHog
  /\ wait' = wait + 1
  /\ UNCHANGED <<motionVars, created, comms, queue, flex, resets>>

\* Its delay and its sensors' initialisation are over: it posts.
FlexPosts ==
  /\ flex = "delay" /\ wait = FlexDelay
  /\ flex' = "posts"
  /\ UNCHANGED <<motionVars, created, comms, queue, wait, resets>>

-----------------------------------------------------------------------------
(* Restarts.                                                               *)

\* Everything of the board starts anew; what was sampled and sent are ghosts.
Restart ==
  /\ pc' = "none" /\ step' = 1 /\ chan' = 1
  /\ last' = 0 /\ now' = 0 /\ lag' = 0 /\ paced' = FALSE
  /\ low' = NoSample /\ turns' = [c \in Names |-> 0]
  /\ created' = 0 /\ comms' = "none" /\ queue' = FALSE
  /\ flex' = "none" /\ wait' = 0
  /\ UNCHANGED <<present, taken, sent>>

\* motion_thread has returned: abort, panic, reboot.
Abort ==
  /\ pc = "returned"
  /\ Restart
  /\ UNCHANGED <<chip, out, ready, half, resets>>

\* The reset button or a panic elsewhere: the sensor stays as it is.
Button ==
  /\ resets < MaxResets /\ created > 0
  /\ resets' = resets + 1
  /\ Restart
  /\ UNCHANGED <<chip, out, ready, half>>

\* The battery is changed.
PowerCycle ==
  /\ resets < MaxResets /\ created > 0
  /\ resets' = resets + 1
  /\ Restart
  /\ bank' = "user" /\ regs' = {} /\ resetting' = FALSE
  /\ out' = [c \in Names |-> NoSample]
  /\ ready' = [c \in Names |-> FALSE] /\ half' = [c \in Names |-> FALSE]

MotionStep == MotionThread /\ UNCHANGED <<tasks, resets>>
TickStep   == Tick /\ UNCHANGED <<tasks, resets>>
ChipStep   == ResetDone /\ UNCHANGED <<tasks, resets>>
Sampling   == (\E c \in Names : Sample(c)) /\ UNCHANGED <<tasks, resets>>

Next ==
  \/ Create \/ CommsStarts \/ MotionStarts \/ FlexWaits \/ FlexPosts
  \/ MotionStep \/ TickStep \/ ChipStep \/ Sampling
  \/ Abort \/ Button \/ PowerCycle

Spec == Init /\ [][Next]_vars

\* Tasks that can run do, time passes, and the sensor's reset ends.
FairSpec ==
  /\ Spec
  /\ WF_vars(Create) /\ WF_vars(CommsStarts) /\ WF_vars(MotionStarts)
  /\ WF_vars(MotionStep) /\ WF_vars(TickStep) /\ WF_vars(ChipStep)
  /\ WF_vars(Abort)

-----------------------------------------------------------------------------
(* Properties.                                                             *)

\* The type invariant.
TypeOK ==
  /\ MotionTypeOK
  /\ created \in 0 .. 3
  /\ comms \in {"none", "ready", "waits"}
  /\ queue \in BOOLEAN
  /\ flex \in {"none", "delay", "posts"}
  /\ wait \in 0 .. FlexDelay
  /\ resets \in 0 .. MaxResets

\* Nobody calls commsPost before comms_queue exists, though nothing but the order
\* and the length of the first waits sees to it (main.c:19-40, comms.c:65).
PostsFindQueue == flex = "posts" \/ pc = "high" => queue

\* A board whose sensor is fitted gets to its sampling loop after every start,
\* unless the start found the sensor in the embedded bank (lsm6dso_reg.c:8305).
Started == pc = "flag" \/ (pc = "none" /\ bank = "embedded")
Resumes == present /\ bank = "user" /\ created = 0 ~> Started

\* A call of vTaskDelayUntil that returns at once is one of the first, before any has
\* delayed the thread; none delays it for more than a period.
InTime ==
  pc = "delay" => /\ pc' = "flag" => ~paced
                  /\ pc' = "blocked" => W - ((now' - last') % W) <= Period
CallsInTime == [][InTime]_motionVars

\* What last_sample_tick (motion.c:157), never initialised, does to the loop of
\* motion.c:158-165, from whatever value: it may take turns without any delay,
\* which "the loop now runs at a set frequency" (motion.c:159) does not tell, but
\* in the end a call delays it, unless the board restarts; from then on no call
\* returns at once, and none ever waits longer than a period, the wrap included.
KeepsPace == (pc = "delay" ~> paced \/ pc = "none") /\ CallsInTime

=============================================================================
