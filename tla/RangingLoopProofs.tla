------------------------- MODULE RangingLoopProofs -------------------------
(***************************************************************************)
(* For every number of sensors, of tries and of cycles, every modulus of   *)
(* the stream count and every bound on failed reads: the loop's types,     *)
(* that it posts no frame twice as long as no read has failed, that its    *)
(* new frames carry the time of their pulse, and that a failed read spoils *)
(* one message and costs one frame at most, over the whole run.            *)
(***************************************************************************)
EXTENDS RangingLoop, FiniteSetTheorems, TLAPS

\* The count a sensor shows is a count or the "no frame" mark.
LEMMA CntType ==
  ASSUME NEW n \in Nat PROVE Cnt(n) \in Counts \cup {NoCount}
  BY RangingAssumption DEF Cnt, Counts, NoCount

\* The sensors that initialised are finitely many.
LEMMA AliveFinite ==
  ASSUME ConfigOK
  PROVE  alive \subseteq Sensors /\ IsFiniteSet(alive)
<1>1. alive \subseteq Sensors
  BY RangingAssumption DEF ConfigOK
<1>2. IsFiniteSet(Sensors)
  BY RangingAssumption, FS_Interval DEF Sensors
<1> QED
  BY <1>1, <1>2, FS_Subset

\* So are those of them that lack a frame.
LEMMA LackingFinite ==
  ASSUME ConfigOK
  PROVE  IsFiniteSet(Lacking) /\ Cardinality(Lacking) \in Nat
  BY AliveFinite, FS_Subset, FS_CardinalityType DEF Lacking

\* A header just read is the header of a frame.
LEMMA FreshHeader ==
  ASSUME NEW n \in Nat
  PROVE  /\ [cnt |-> Cnt(n), swapped |-> FALSE] \in Headers
         /\ ~Opaque([cnt |-> Cnt(n), swapped |-> FALSE])
         /\ CountIn([cnt |-> Cnt(n), swapped |-> FALSE]) = {Cnt(n)}
         /\ \A old : NewCounts([cnt |-> Cnt(n), swapped |-> FALSE], old)
                      = {Cnt(n)} \ {NoCount, old}
<1> DEFINE h == [cnt |-> Cnt(n), swapped |-> FALSE]
<1>1. h.cnt \in Counts \cup {NoCount} /\ h.cnt # Other
  BY CntType DEF Counts, NoCount, Other
<1>2. h.swapped = FALSE
  BY Zenon
<1>3. ~Opaque(h)
  BY <1>1, <1>2, Zenon DEF Opaque
<1>4. h \in Headers
  BY <1>1 DEF Headers
<1>5. h.cnt = Cnt(n)
  OBVIOUS
<1> HIDE DEF h
<1>6. CountIn(h) = {Cnt(n)} /\ \A old : NewCounts(h, old) = {Cnt(n)} \ {NoCount, old}
  BY <1>3, <1>5 DEF CountIn, NewCounts
<1> QED
  BY <1>3, <1>4, <1>6 DEF h

\* A check accepts counts only.
LEMMA NewCountsType ==
  ASSUME NEW h \in Headers, NEW old \in Counts \cup {NoCount},
         NEW c \in NewCounts(h, old)
  PROVE  c \in Counts
<1>1. Opaque(h) \/ h.cnt \in Counts \cup {NoCount}
  BY DEF Headers, Opaque
<1> QED
  BY <1>1 DEF NewCounts

\* A full read leaves a count, or the mark if that is what was shown.
LEMMA CountInType ==
  ASSUME NEW h \in Headers, NEW c \in CountIn(h)
  PROVE  c \in Counts \cup {NoCount}
<1>1. Opaque(h) \/ h.cnt \in Counts \cup {NoCount}
  BY DEF Headers, Opaque
<1> QED
  BY <1>1 DEF CountIn

\* Swapping the bytes of a header gives a header.
LEMMA SwapBufferType ==
  ASSUME NEW h \in Headers PROVE SwapBuffer(h) \in Headers
<1>1. h.cnt \in Counts \cup {NoCount, Other}
  BY DEF Headers
<1>2. (~h.swapped) \in BOOLEAN
  BY Zenon
<1> QED
  BY <1>1, <1>2, Zenon DEF SwapBuffer, Headers

\* The type invariant of RangingLoop holds initially.
LEMMA InitType == Init => TypeOK
<1> SUFFICES ASSUME Init PROVE TypeOK
  OBVIOUS
<1>0. ConfigOK
  <2>1. alive \in AliveSets /\ primed \in BOOLEAN /\ timely \in BOOLEAN
    BY DEF Init
  <2> QED
    BY <2>1, Zenon DEF ConfigOK
<1>1. /\ pc \in {"pulse", "take", "check", "get"}
      /\ cycle \in 0 .. MaxCycles
      /\ snum \in Sensors
      /\ tries \in 0 .. MaxTries - 1
      /\ faults \in 0 .. MaxFaults
      /\ spoilt \in Nat /\ missed \in Nat
  BY RangingAssumption DEF Init, Sensors
<1>2. sem \in BOOLEAN /\ prev_loop_tv \in Stamps /\ tv_now \in Stamps
  <2>1. sem \in BOOLEAN
    BY DEF Init
  <2>2. {Garbage, 0} \subseteq Stamps
    BY RangingAssumption DEF Stamps
  <2> QED
    BY <2>1, <2>2 DEF Init
<1>3. /\ acq \in [Sensors -> Pulses \cup {Idle}]
      /\ outN \in [Sensors -> Nat]
      /\ outPulse \in [Sensors -> Pulses]
  BY RangingAssumption DEF Init, Pulses, Idle
<1>4. streamcount \in [Sensors -> Counts \cup {NoCount}]
  BY DEF Init, StartRanging
<1>5. temp_buffer \in [Sensors -> Headers]
  <2>1. /\ [cnt |-> NoCount, swapped |-> FALSE] \in Headers
        /\ [cnt |-> Other, swapped |-> FALSE] \in Headers
    BY DEF Headers
  <2> QED
    BY <2>1 DEF Init, StartRanging
<1>6. vl_results \in [Sensors -> Results] /\ post \in [Sensors -> Posts]
  <2>1. 0 \in Pulses /\ Garbage \in Stamps
    BY RangingAssumption DEF Pulses, Stamps
  <2>2. NoResult \in Results /\ NoPost \in Posts
    BY <2>1 DEF Results, NoResult, Posts, NoPost
  <2> QED
    BY <2>2 DEF Init
<1> QED
  BY <1>0, <1>1, <1>2, <1>3, <1>4, <1>5, <1>6 DEF TypeOK

\* The loop over the sensors keeps its counters in range.
LEMMA NextSensorType ==
  ASSUME TypeOK, NextSensor
  PROVE  /\ pc' \in {"pulse", "check"}
         /\ snum' \in Sensors
         /\ tries' \in 0 .. MaxTries - 1
  BY RangingAssumption DEF TypeOK, NextSensor, Sensors

\* A read, good or bad, keeps the number of failed reads within its bound.
LEMMA ReadType ==
  ASSUME TypeOK, ReadWorks \/ ReadFails
  PROVE  faults' \in 0 .. MaxFaults
  BY RangingAssumption DEF TypeOK, ReadWorks, ReadFails

\* Every step of the loop, the driver and the devices keeps the types.
LEMMA NextType == TypeOK /\ [Next]_vars => TypeOK'
<1> SUFFICES ASSUME TypeOK, [Next]_vars PROVE TypeOK'
  OBVIOUS
<1>0. ConfigOK'
  <2>1. UNCHANGED config
    BY DEF Next, Thread, Complete, Done, Stuck, vars
  <2>2. ConfigOK
    BY DEF TypeOK
  <2> QED
    BY <2>1, <2>2, Zenon DEF ConfigOK, config
<1>1. ASSUME NEW s \in Sensors, Complete(s) PROVE TypeOK'
  <2>1. sem' \in BOOLEAN
    BY <1>1, Zenon DEF Complete, GiveOnInt
  <2>2. /\ acq' \in [Sensors -> Pulses \cup {Idle}]
        /\ outN' \in [Sensors -> Nat]
        /\ outPulse' \in [Sensors -> Pulses]
    BY <1>1 DEF Complete, TypeOK
  <2> QED
    BY <1>0, <1>1, <2>1, <2>2 DEF Complete, TypeOK, thread, stamps, driver, costs
<1>2. CASE Pulse
  <2>1. cycle + 1 \in 0 .. MaxCycles
    BY <1>2, RangingAssumption DEF Pulse, TypeOK
  <2>2. acq' \in [Sensors -> Pulses \cup {Idle}]
    BY <1>2, <2>1 DEF Pulse, TypeOK, Pulses
  <2>3. tv_now' \in Stamps /\ prev_loop_tv' \in Stamps
    BY <1>2, <2>1 DEF Pulse, Stamp, TypeOK, Stamps
  <2>4. missed' \in Nat
    BY <1>2, LackingFinite DEF Pulse, TypeOK
  <2> QED
    BY <1>0, <1>2, <2>1, <2>2, <2>3, <2>4 DEF Pulse, TypeOK, driver
<1>3. CASE Take
  <2>1. 0 \in Sensors /\ 0 \in 0 .. MaxTries - 1
    BY RangingAssumption DEF Sensors
  <2> QED
    BY <1>0, <1>3, <2>1 DEF TypeOK, Take, stamps, driver, device, costs
<1>4. CASE CheckDataReady
  <2>1. temp_buffer' \in [Sensors -> Headers]
    <3>1. [cnt |-> Cnt(outN[snum]), swapped |-> FALSE] \in Headers
      BY FreshHeader DEF TypeOK
    <3> QED
      BY <1>4, <3>1 DEF CheckDataReady, TypeOK
  <2>2. faults' \in 0 .. MaxFaults
    BY <1>4, ReadType DEF CheckDataReady, TryAgain
  <2>3. streamcount' \in [Sensors -> Counts \cup {NoCount}]
    BY <1>4, <2>1, NewCountsType DEF CheckDataReady, TryAgain, TypeOK
  <2>4. /\ pc' \in {"pulse", "take", "check", "get"}
        /\ snum' \in Sensors
        /\ tries' \in 0 .. MaxTries - 1
    BY <1>4, NextSensorType, RangingAssumption DEF CheckDataReady, TryAgain, TypeOK
  <2> QED
    BY <1>0, <1>4, <2>1, <2>2, <2>3, <2>4 DEF CheckDataReady, TryAgain, TypeOK, stamps, device, costs
<1>5. CASE GetRangingData
  <2>1. faults' \in 0 .. MaxFaults
    BY <1>5, ReadType DEF GetRangingData, GetWorks, GetFails
  <2>2. /\ streamcount' \in [Sensors -> Counts \cup {NoCount}]
        /\ temp_buffer' \in [Sensors -> Headers]
        /\ vl_results' \in [Sensors -> Results]
    <3>1. CASE GetWorks
      <4> DEFINE h == [cnt |-> Cnt(outN[snum]), swapped |-> FALSE]
      <4>1. h \in Headers /\ SwapBuffer(h) \in Headers
        BY FreshHeader, SwapBufferType DEF TypeOK
      <4>2. \A c \in CountIn(h) : c \in Counts \cup {NoCount}
        BY <4>1, CountInType
      <4>3. [n |-> outN[snum], pulse |-> outPulse[snum], genuine |-> TRUE] \in Results
        BY DEF TypeOK, Results
      <4> HIDE DEF h
      <4> QED
        BY <3>1, <4>1, <4>2, <4>3 DEF GetWorks, TypeOK, h
    <3>2. CASE GetFails
      <4>1. \A c \in CountIn(temp_buffer[snum]) : c \in Counts \cup {NoCount}
        BY CountInType DEF TypeOK
      <4>2. temp_buffer' \in [Sensors -> Headers]
        BY <3>2, SwapBufferType DEF GetFails, TypeOK
      <4>3. vl_results' \in [Sensors -> Results]
        BY <3>2 DEF GetFails, TypeOK, Results
      <4> QED
        BY <3>2, <4>1, <4>2, <4>3 DEF GetFails, TypeOK
    <3> QED
      BY <1>5, <3>1, <3>2 DEF GetRangingData
  <2>3. post' \in [Sensors -> Posts]
    BY <1>5, <2>2 DEF GetRangingData, TypeOK, Posts, Results
  <2>4. /\ pc' \in {"pulse", "take", "check", "get"}
        /\ snum' \in Sensors
        /\ tries' \in 0 .. MaxTries - 1
    BY <1>5, NextSensorType DEF GetRangingData
  <2>5. spoilt' \in Nat /\ missed' \in Nat
    BY <1>5 DEF GetRangingData, TypeOK
  <2> QED
    BY <1>0, <1>5, <2>1, <2>2, <2>3, <2>4, <2>5 DEF GetRangingData, TypeOK, stamps, device
<1>6. CASE UNCHANGED vars
  BY <1>0, <1>6 DEF TypeOK, vars, thread, stamps, driver, device, costs
<1> QED
  BY <1>1, <1>2, <1>3, <1>4, <1>5, <1>6 DEF Next, Thread, Done, Stuck

\* The variables of thesis_flex_thread, of the driver's configuration structures
\* and of the devices always have their types; in particular the index into the
\* eight-element arrays stays in range.
THEOREM TypeCorrect == Spec => []TypeOK
<1>1. Init => TypeOK
  BY InitType
<1>2. TypeOK /\ [Next]_vars => TypeOK'
  BY NextType
<1> QED
  BY <1>1, <1>2, PTL DEF Spec

-----------------------------------------------------------------------------
(* No frame is posted twice.                                               *)

\* IInv holds initially: nothing is posted, streamcount is 255 everywhere.
LEMMA InitIInv == Init => IInv
<1> SUFFICES ASSUME Init PROVE IInv
  OBVIOUS
<1>1. TypeOK
  BY InitType
<1>2. DeadAreSilent
  BY DEF Init, StartRanging, DeadAreSilent
<1>3. CountRemembers
  BY DEF Init, StartRanging, CountRemembers, Cnt, NoPost
<1> QED
  BY <1>1, <1>2, <1>3 DEF IInv

\* Moving on to the next sensor leaves the reading position.
LEMMA NextSensorLeaves == NextSensor => pc' # "get"
  BY DEF NextSensor

\* A check that announces a frame, with no failed read so far, announces one
\* newer than what was posted.
LEMMA CheckIInv == IInv /\ CheckDataReady /\ UNCHANGED alive => DeadAreSilent' /\ CountRemembers'
<1> SUFFICES ASSUME IInv, CheckDataReady, UNCHANGED alive PROVE DeadAreSilent' /\ CountRemembers'
  OBVIOUS
<1> USE DEF IInv
<1> DEFINE h == temp_buffer'[snum]
           new == NewCounts(h, streamcount[snum])
<1>1. \/ ReadWorks /\ h = [cnt |-> Cnt(outN[snum]), swapped |-> FALSE]
      \/ ReadFails /\ h = temp_buffer[snum]
  BY DEF CheckDataReady, TryAgain, TypeOK
<1>2. \A s \in Sensors : s # snum => temp_buffer'[s] = temp_buffer[s]
  BY DEF CheckDataReady, TryAgain, TypeOK
<1>3. \A s \in Sensors \ alive : temp_buffer'[s] = [cnt |-> NoCount, swapped |-> FALSE]
  BY <1>1, <1>2 DEF DeadAreSilent, ReadWorks, TypeOK
<1>4. \/ pc' = "get" /\ UNCHANGED snum /\ new # {}
           /\ \E c \in new : streamcount' = [streamcount EXCEPT ![snum] = c]
      \/ pc' # "get" /\ UNCHANGED streamcount
  BY NextSensorLeaves DEF CheckDataReady, TryAgain
<1>5. new # {} => snum \in alive
  <2>1. Cnt(0) = NoCount /\ snum \in Sensors
    BY DEF Cnt, TypeOK
  <2>2. snum \notin alive => h = [cnt |-> Cnt(0), swapped |-> FALSE]
    BY <1>3, <2>1
  <2>3. snum \notin alive => new = {Cnt(0)} \ {NoCount, streamcount[snum]}
    BY <2>2, FreshHeader
  <2> QED
    BY <2>1, <2>3
<1>6. DeadAreSilent'
  BY <1>3, <1>4, <1>5 DEF DeadAreSilent
<1>7. CountRemembers'
  <2> SUFFICES ASSUME faults' = 0, NEW s \in Sensors
               PROVE  /\ post'[s].n <= outN'[s]
                      /\ IF pc' = "get" /\ s = snum'
                           THEN post'[s].n < outN'[s]
                           ELSE streamcount'[s] = Cnt(post'[s].n)
    BY DEF CountRemembers
  <2>1. faults = 0 /\ UNCHANGED <<post, outN>>
    BY DEF CheckDataReady, TryAgain, ReadWorks, ReadFails, TypeOK, device
  <2>2. /\ post[s].n <= outN[s]
        /\ streamcount[s] = Cnt(post[s].n)
    BY <2>1 DEF CountRemembers, CheckDataReady, TryAgain
  <2>3. CASE pc' = "get" /\ s = snum
    <3>1. snum \in alive /\ new # {} /\ snum' = snum
      BY <1>4, <1>5, <2>3
    <3>2. h = [cnt |-> Cnt(outN[snum]), swapped |-> FALSE]
      BY <1>1, <2>1, <3>1 DEF ReadFails, TypeOK
    <3>3. Cnt(outN[s]) # streamcount[s]
      BY <2>3, <3>1, <3>2, FreshHeader DEF TypeOK
    <3>4. post[s].n # outN[s]
      BY <2>2, <3>3
    <3>5. post[s].n \in Nat /\ outN[s] \in Nat
      BY DEF TypeOK, Posts
    <3>6. post[s].n < outN[s]
      BY <2>2, <3>4, <3>5
    <3> QED
      BY <2>1, <2>2, <2>3, <3>1, <3>6
  <2>4. CASE ~(pc' = "get" /\ s = snum)
    <3>1. streamcount'[s] = streamcount[s] /\ ~(pc' = "get" /\ s = snum')
      BY <1>4, <2>4 DEF TypeOK
    <3> QED
      BY <2>1, <2>2, <3>1
  <2> QED
    BY <2>3, <2>4
<1> QED
  BY <1>6, <1>7

\* A read that fetches a frame remembers its count and posts that very frame.
LEMMA GetIInv ==
  IInv /\ GetRangingData /\ UNCHANGED alive => DeadAreSilent' /\ CountRemembers' /\ NewerPost
<1> SUFFICES ASSUME IInv, GetRangingData, UNCHANGED alive
             PROVE  DeadAreSilent' /\ CountRemembers' /\ NewerPost
  OBVIOUS
<1> USE DEF IInv
<1>1. pc = "get" /\ snum \in alive /\ snum \in Sensors /\ pc' # "get"
  BY NextSensorLeaves DEF GetRangingData, DeadAreSilent, TypeOK
<1>2. \A s \in Sensors : s # snum => /\ temp_buffer'[s] = temp_buffer[s]
                                     /\ streamcount'[s] = streamcount[s]
                                     /\ post'[s] = post[s]
  BY DEF GetRangingData, GetWorks, GetFails, TypeOK
<1>3. DeadAreSilent'
  BY <1>1, <1>2 DEF DeadAreSilent
<1>4. ASSUME faults' = 0
      PROVE  /\ faults = 0
             /\ streamcount'[snum] = Cnt(outN[snum])
             /\ post'[snum].n = outN[snum]
             /\ post'[snum].genuine
  <2>1. GetWorks /\ faults = 0
    <3>1. ~ReadFails
      BY <1>1, <1>4 DEF ReadFails, TypeOK
    <3> QED
      BY <1>4, <3>1 DEF GetRangingData, GetFails, GetWorks, ReadWorks
  <2>2. streamcount'[snum] = Cnt(outN[snum])
    BY <2>1, <1>1, FreshHeader DEF GetWorks, TypeOK
  <2>3. vl_results'[snum] =
          [n |-> outN[snum], pulse |-> outPulse[snum], genuine |-> TRUE]
    BY <2>1, <1>1 DEF GetWorks, TypeOK
  <2>4. post'[snum] = [n |-> vl_results'[snum].n, pulse |-> vl_results'[snum].pulse,
                       genuine |-> vl_results'[snum].genuine, stamp |-> tv_now]
    BY <1>1 DEF GetRangingData, TypeOK
  <2> QED
    BY <2>1, <2>2, <2>3, <2>4
<1>5. UNCHANGED outN
  BY DEF GetRangingData, device
<1>6. CountRemembers'
  <2> SUFFICES ASSUME faults' = 0, NEW s \in Sensors
               PROVE  /\ post'[s].n <= outN'[s]
                      /\ streamcount'[s] = Cnt(post'[s].n)
    BY <1>1 DEF CountRemembers
  <2>1. CASE s = snum
    BY <1>4, <1>5, <2>1 DEF TypeOK
  <2>2. CASE s # snum
    BY <1>2, <1>4, <1>5, <2>2 DEF CountRemembers
  <2> QED
    BY <2>1, <2>2
<1>7. NewerPost
  <2> SUFFICES ASSUME NEW s \in Sensors, post'[s] # post[s], faults' = 0
               PROVE  post'[s].genuine /\ post'[s].n > post[s].n
    BY DEF NewerPost
  <2>1. s = snum
    BY <1>2
  <2>2. post[s].n < outN[s]
    BY <1>1, <1>4, <2>1 DEF CountRemembers
  <2>3. post[s].n \in Nat /\ outN[s] \in Nat
    BY DEF TypeOK, Posts
  <2> QED
    BY <1>4, <2>1, <2>2, <2>3
<1> QED
  BY <1>3, <1>6, <1>7

\* A step away from a read that leaves counts, frames and posts alone.
LEMMA QuietStep ==
  ASSUME IInv, pc # "get", pc' # "get",
         UNCHANGED <<alive, streamcount, temp_buffer, outN, faults, post>>
  PROVE  DeadAreSilent' /\ CountRemembers' /\ NewerPost
<1>1. DeadAreSilent'
  BY DEF IInv, DeadAreSilent
<1>2. CountRemembers'
  <2> SUFFICES ASSUME faults' = 0, NEW s \in Sensors
               PROVE  /\ post'[s].n <= outN'[s]
                      /\ streamcount'[s] = Cnt(post'[s].n)
    BY DEF CountRemembers
  <2> QED
    BY DEF IInv, CountRemembers
<1>3. NewerPost
  BY DEF NewerPost
<1> QED
  BY <1>1, <1>2, <1>3

\* Every step keeps IInv and posts, if at all, something newer.
LEMMA NextIInv == IInv /\ [Next]_vars => IInv' /\ [NewerPost]_vars
<1> SUFFICES ASSUME IInv, [Next]_vars PROVE IInv' /\ [NewerPost]_vars
  OBVIOUS
<1>0. UNCHANGED alive
  BY DEF Next, Thread, Complete, Done, Stuck, vars, config
<1>1. TypeOK'
  BY NextType DEF IInv
<1>2. ASSUME NEW t \in Sensors, Complete(t)
      PROVE  DeadAreSilent' /\ CountRemembers' /\ NewerPost
  <2>1. UNCHANGED <<alive, pc, snum, faults, post, streamcount, temp_buffer>>
    BY <1>0, <1>2 DEF Complete, thread, driver
  <2>2. \A s \in Sensors : outN[s] \in Nat /\ outN'[s] \in Nat /\ outN'[s] >= outN[s]
                           /\ post[s].n \in Nat
    BY <1>2 DEF Complete, IInv, TypeOK, Posts
  <2>3. DeadAreSilent'
    BY <2>1 DEF IInv, DeadAreSilent
  <2>4. CountRemembers'
    <3> SUFFICES ASSUME faults' = 0, NEW s \in Sensors
                 PROVE  /\ post'[s].n <= outN'[s]
                        /\ IF pc' = "get" /\ s = snum'
                             THEN post'[s].n < outN'[s]
                             ELSE streamcount'[s] = Cnt(post'[s].n)
      BY DEF CountRemembers
    <3>1. /\ post[s].n <= outN[s]
          /\ IF pc = "get" /\ s = snum
               THEN post[s].n < outN[s]
               ELSE streamcount[s] = Cnt(post[s].n)
      BY <2>1 DEF IInv, CountRemembers
    <3>2. post[s].n <= outN'[s] /\ (post[s].n < outN[s] => post[s].n < outN'[s])
      BY <2>2, <3>1
    <3> QED
      BY <2>1, <3>1, <3>2
  <2> QED
    BY <2>1, <2>3, <2>4 DEF NewerPost
<1>3. CASE Pulse
  <2>1. /\ pc # "get" /\ pc' # "get"
        /\ UNCHANGED <<alive, streamcount, temp_buffer, outN, faults, post>>
    BY <1>0, <1>3 DEF Pulse, driver
  <2> QED
    BY <1>1, <2>1, QuietStep DEF IInv
<1>4. CASE Take
  <2>1. /\ pc # "get" /\ pc' # "get"
        /\ UNCHANGED <<alive, streamcount, temp_buffer, outN, faults, post>>
    BY <1>0, <1>4 DEF Take, driver, device
  <2> QED
    BY <1>1, <2>1, QuietStep DEF IInv
<1>5. CASE CheckDataReady
  <2>1. NewerPost
    BY <1>5 DEF CheckDataReady, TryAgain, NewerPost
  <2> QED
    BY <1>0, <1>1, <1>5, <2>1, CheckIInv DEF IInv
<1>6. CASE GetRangingData
  BY <1>0, <1>1, <1>6, GetIInv DEF IInv
<1>7. CASE UNCHANGED vars
  <2>1. UNCHANGED <<pc, snum, faults, post, streamcount, temp_buffer, outN>>
    BY <1>7 DEF vars, thread, driver, device
  <2>2. DeadAreSilent' /\ CountRemembers'
    BY <1>0, <2>1 DEF IInv, DeadAreSilent, CountRemembers
  <2> QED
    BY <1>1, <1>7, <2>2 DEF IInv
<1> QED
  BY <1>1, <1>2, <1>3, <1>4, <1>5, <1>6, <1>7 DEF IInv, Next, Thread, Done, Stuck

\* Whatever the moment at which a sensor publishes (between the check and the
\* read included), the loop posts no frame of a sensor twice and none after a
\* newer one, as long as no I2C read has failed.
THEOREM FramesAreFresh == Spec => FreshFrames
<1>1. Init => IInv
  BY InitIInv
<1>2. IInv /\ [Next]_vars => IInv' /\ [NewerPost]_vars
  BY NextIInv
<1> QED
  BY <1>1, <1>2, PTL DEF Spec, FreshFrames

-----------------------------------------------------------------------------
(* The timestamps.                                                         *)

\* What is posted is what was parsed last.
ResultsPosted ==
  \A s \in Sensors : vl_results[s].n = post[s].n /\ post[s].n <= outN[s]

\* Every step keeps that.
LEMMA ResultsStep == IInv /\ ResultsPosted /\ [Next]_vars => ResultsPosted'
<1> SUFFICES ASSUME IInv, ResultsPosted, [Next]_vars, NEW s \in Sensors
             PROVE  vl_results'[s].n = post'[s].n /\ post'[s].n <= outN'[s]
  BY DEF ResultsPosted
<1>1. TypeOK /\ vl_results[s].n = post[s].n /\ post[s].n <= outN[s]
  BY DEF IInv, ResultsPosted
<1>2. post[s].n \in Nat /\ outN[s] \in Nat
  BY <1>1 DEF TypeOK, Posts
<1>3. CASE UNCHANGED <<vl_results, post, outN>>
  BY <1>1, <1>3
<1>4. CASE \E t \in Sensors : Complete(t)
  BY <1>1, <1>2, <1>4 DEF Complete, driver, TypeOK
<1>5. CASE GetRangingData
  <2>1. /\ post'[s] = IF s = snum
                        THEN [n |-> vl_results'[snum].n, pulse |-> vl_results'[snum].pulse,
                              genuine |-> vl_results'[snum].genuine, stamp |-> tv_now]
                        ELSE post[s]
        /\ outN' = outN /\ snum \in Sensors
    BY <1>1, <1>5 DEF GetRangingData, TypeOK, device
  <2>2. CASE s # snum
    BY <1>1, <1>5, <2>1, <2>2 DEF GetRangingData, GetWorks, GetFails, TypeOK
  <2>3. CASE s = snum /\ GetWorks
    <3>1. vl_results'[s].n = outN[s]
      BY <1>1, <2>1, <2>3 DEF GetWorks, TypeOK
    <3> QED
      BY <1>2, <2>1, <2>3, <3>1
  <2>4. CASE s = snum /\ GetFails
    <3>1. vl_results'[s].n = vl_results[s].n
      BY <1>1, <2>1, <2>4 DEF GetFails, TypeOK, Results
    <3> QED
      BY <1>1, <2>1, <2>4, <3>1
  <2> QED
    BY <1>5, <2>2, <2>3, <2>4 DEF GetRangingData
<1>6. CASE Pulse \/ Take \/ CheckDataReady \/ UNCHANGED vars
  BY <1>3, <1>6 DEF Pulse, Take, CheckDataReady, vars, driver, device
<1> QED
  BY <1>4, <1>5, <1>6 DEF Next, Thread, Done, Stuck

\* Between two pulses a timely sensor either still acquires the frame of the last
\* pulse or shows it; while the loop reads, every sensor acquires.
Acquiring ==
  timely => \A s \in alive :
    IF acq[s] = Idle THEN pc = "pulse" /\ outPulse[s] = cycle
    ELSE acq[s] = cycle /\ (cycle > 0 => outPulse[s] = cycle - 1) /\ (cycle = 0 => outPulse[s] = 0)

\* From the second cycle on the messages carry the time of the pulse before the last.
Stamped ==
  /\ cycle > 0 => prev_loop_tv = cycle
  /\ cycle > 1 => tv_now = cycle - 1
  /\ cycle = 0 => pc = "pulse"

\* The inductive invariant behind StampFromSecond.
StampInv == IInv /\ ResultsPosted /\ Acquiring /\ Stamped

\* It holds initially.
LEMMA StampInit == Init => StampInv
<1> SUFFICES ASSUME Init PROVE StampInv
  OBVIOUS
<1>1. Acquiring
  BY RangingAssumption DEF Init, Acquiring, Idle
<1>2. Stamped /\ ResultsPosted
  BY DEF Init, Stamped, ResultsPosted, NoResult, NoPost
<1> QED
  BY <1>1, <1>2, InitIInv DEF StampInv

\* Every step keeps it.
LEMMA StampStep == StampInv /\ [Next]_vars => StampInv'
<1> SUFFICES ASSUME StampInv, [Next]_vars PROVE StampInv'
  OBVIOUS
<1>1. IInv' /\ ResultsPosted' /\ TypeOK /\ TypeOK'
  BY NextIInv, NextType, ResultsStep DEF StampInv, IInv
<1>2. UNCHANGED <<alive, timely>>
  BY DEF Next, Thread, Complete, Done, Stuck, vars, config
<1>3. ASSUME NEW t \in Sensors, Complete(t) PROVE Acquiring' /\ Stamped'
  <2>1. UNCHANGED <<pc, cycle, prev_loop_tv, tv_now>>
    BY <1>3 DEF Complete, thread, stamps
  <2>2. Acquiring'
    BY <1>1, <1>2, <1>3, <2>1, RangingAssumption
       DEF Complete, Acquiring, StampInv, TypeOK, Idle, Pulses
  <2> QED
    BY <2>1, <2>2 DEF StampInv, Stamped
<1>4. CASE Pulse
  <2>1. cycle \in Nat /\ cycle' = cycle + 1 /\ pc' = "take" /\ UNCHANGED outPulse
    BY <1>1, <1>4, RangingAssumption DEF Pulse, TypeOK
  <2>2. Acquiring'
    BY <1>1, <1>2, <1>4, <2>1, RangingAssumption
       DEF Pulse, Acquiring, StampInv, TypeOK, Idle, ConfigOK
  <2>3. Stamped'
    BY <1>1, <1>4, <2>1 DEF Pulse, Stamp, StampInv, Stamped
  <2> QED
    BY <1>1, <2>2, <2>3 DEF StampInv
<1>5. CASE Take \/ CheckDataReady \/ GetRangingData
  <2>1. /\ pc # "pulse"
        /\ UNCHANGED <<cycle, prev_loop_tv, tv_now, acq, outPulse>>
    BY <1>5 DEF Take, CheckDataReady, GetRangingData, stamps, device
  <2>2. Acquiring' /\ Stamped'
    BY <1>1, <1>2, <2>1, RangingAssumption DEF StampInv, Acquiring, Stamped, TypeOK, Idle
  <2> QED
    BY <1>1, <2>2 DEF StampInv
<1>6. CASE UNCHANGED vars
  <2>1. UNCHANGED <<pc, cycle, prev_loop_tv, tv_now, acq, outPulse>>
    BY <1>6 DEF vars, thread, stamps, device
  <2>2. Acquiring' /\ Stamped'
    BY <1>2, <2>1 DEF StampInv, Acquiring, Stamped
  <2> QED
    BY <1>1, <2>2 DEF StampInv
<1> QED
  BY <1>1, <1>3, <1>4, <1>5, <1>6 DEF StampInv, Next, Thread, Done, Stuck

\* A step that posts a new frame posts the time of its pulse with it: only a full read that
\* worked brings one, and while the loop reads every timely sensor shows the frame of the
\* pulse before the last.
LEMMA StampPost == StampInv /\ [Next]_vars => [NewFrameStamped]_vars
<1> SUFFICES ASSUME StampInv, [Next]_vars, NEW s \in Sensors, timely, post'[s] # post[s],
                    post'[s].genuine, post'[s].n > post[s].n, post'[s].pulse > 0
             PROVE  post'[s].stamp = post'[s].pulse
  BY DEF NewFrameStamped
<1>1. TypeOK /\ DeadAreSilent /\ ResultsPosted /\ Acquiring /\ Stamped
  BY DEF StampInv, IInv
<1>2. GetRangingData
  BY DEF Next, Thread, Complete, Pulse, Take, CheckDataReady, Done, Stuck, vars
<1>3. snum \in Sensors /\ snum \in alive /\ pc = "get"
  BY <1>1, <1>2 DEF TypeOK, GetRangingData, DeadAreSilent
<1>4. /\ s = snum
      /\ post'[s] = [n |-> vl_results'[s].n, pulse |-> vl_results'[s].pulse,
                      genuine |-> vl_results'[s].genuine, stamp |-> tv_now]
  BY <1>1, <1>2, <1>3 DEF GetRangingData, TypeOK
<1>5. ~GetFails
  <2> SUFFICES ASSUME GetFails PROVE FALSE
    OBVIOUS
  <2>1. vl_results'[s].n = vl_results[s].n
    BY <1>1, <1>3, <1>4 DEF GetFails, TypeOK, Results
  <2>2. post'[s].n = post[s].n /\ post[s].n \in Nat
    BY <1>1, <1>4, <2>1 DEF ResultsPosted, TypeOK, Posts
  <2> QED
    BY <2>2
<1>6. vl_results'[s].pulse = outPulse[s]
  BY <1>1, <1>2, <1>3, <1>4, <1>5 DEF GetRangingData, GetWorks, TypeOK
<1>7. post'[s].pulse = outPulse[s] /\ post'[s].stamp = tv_now
  BY <1>4, <1>6
<1>8. cycle \in Nat /\ (cycle > 0 => outPulse[s] = cycle - 1) /\ (cycle = 0 => outPulse[s] = 0)
  BY <1>1, <1>3, <1>4, RangingAssumption DEF Acquiring, TypeOK
<1>9. outPulse[s] > 0
  BY <1>7
<1> QED
  BY <1>1, <1>7, <1>8, <1>9 DEF Stamped

\* With timely sensors, and whatever reads have failed, every new frame that a pulse started is
\* posted with the time of that very pulse.
THEOREM StampsAreRight == Spec => StampFromSecond
  BY StampInit, StampStep, StampPost, PTL DEF Spec, StampFromSecond

\* Until a read fails, streamcount remembers the frame posted last.
THEOREM CountsRemembered == Spec => []CountRemembers
<1>1. Init => IInv
  BY InitIInv
<1>2. IInv /\ [Next]_vars => IInv'
  BY NextIInv
<1>3. IInv => CountRemembers
  BY DEF IInv
<1> QED
  BY <1>1, <1>2, <1>3, PTL DEF Spec

-----------------------------------------------------------------------------
(* A failed read spoils one message and costs one frame, at most.          *)

\* A set of debts that takes one more grows by one at most.
LEMMA GrowByOne ==
  ASSUME NEW A, IsFiniteSet(A), NEW x, NEW B, B \subseteq A \cup {x}
  PROVE  /\ IsFiniteSet(B) /\ Cardinality(A) \in Nat /\ Cardinality(B) \in Nat
         /\ Cardinality(B) <= Cardinality(A) + 1
<1>1. /\ IsFiniteSet(A \cup {x}) /\ Cardinality(A) \in Nat /\ Cardinality(A \cup {x}) \in Nat
      /\ Cardinality(A \cup {x}) <= Cardinality(A) + 1
  BY FS_AddElement, FS_CardinalityType
<1>2. IsFiniteSet(B) /\ Cardinality(B) <= Cardinality(A \cup {x}) /\ Cardinality(B) \in Nat
  BY <1>1, FS_Subset, FS_CardinalityType
<1> QED
  BY <1>1, <1>2

\* One that takes no more does not grow.
LEMMA NoGrowth ==
  ASSUME NEW A, IsFiniteSet(A), NEW B, B \subseteq A
  PROVE  /\ IsFiniteSet(B) /\ Cardinality(A) \in Nat /\ Cardinality(B) \in Nat
         /\ Cardinality(B) <= Cardinality(A)
  BY FS_Subset, FS_CardinalityType

\* One from which a debt is struck off is smaller.
LEMMA ShrinkByOne ==
  ASSUME NEW A, IsFiniteSet(A), NEW x \in A, NEW B, B \subseteq A \ {x}
  PROVE  /\ IsFiniteSet(B) /\ Cardinality(A) \in Nat /\ Cardinality(B) \in Nat
         /\ Cardinality(B) + 1 <= Cardinality(A)
<1>1. /\ IsFiniteSet(A \ {x}) /\ Cardinality(A) \in Nat /\ Cardinality(A \ {x}) \in Nat
      /\ Cardinality(A \ {x}) = Cardinality(A) - 1
  BY FS_RemoveElement, FS_CardinalityType
<1>2. IsFiniteSet(B) /\ Cardinality(B) <= Cardinality(A \ {x}) /\ Cardinality(B) \in Nat
  BY <1>1, FS_Subset, FS_CardinalityType
<1> QED
  BY <1>1, <1>2

\* A byte is the count of a frame of sensor s that is no older than the one posted last.
Remembered(s, c) == \E k \in post[s].n .. outN[s] : c = Cnt(k)

\* The first byte of a live sensor's temp_buffer, swapped or not, was once such a count,
\* unless it never was a header's.
BytesRemembered ==
  \A s \in alive : temp_buffer[s].cnt = Other \/ Remembered(s, temp_buffer[s].cnt)

\* Sensor s may yet spoil a message although no more reads fail: the streamcount it is
\* compared with is the trace of a read that failed, or the read under way may find nothing
\* new.
MaySpoil(s) ==
  IF pc = "get" /\ s = snum
    THEN post[s].n = outN[s] \/ Opaque(temp_buffer[s])
    ELSE ~Remembered(s, streamcount[s])

SpoiltDebts == {s \in alive : MaySpoil(s)}

\* The inductive invariant behind OneSpoiltPostPerFault: every fault is charged once, when a
\* message is spoilt or when a sensor comes into debt.
SpoiltInv ==
  /\ IInv /\ ResultsPosted
  /\ BytesRemembered
  /\ spoilt + Cardinality(SpoiltDebts) <= faults

\* The count of the frame a sensor shows is remembered, and no byte is forgotten while the
\* sensor shows more frames.
LEMMA ShownIsRemembered ==
  ASSUME NEW s, post[s].n \in Nat, outN[s] \in Nat, post[s].n <= outN[s]
  PROVE  Remembered(s, Cnt(outN[s]))
  BY DEF Remembered

\* SpoiltInv holds initially.
LEMMA SpoiltInit == Init => SpoiltInv
<1> SUFFICES ASSUME Init PROVE SpoiltInv
  OBVIOUS
<1>1. IInv /\ ResultsPosted /\ TypeOK
  BY InitIInv, StampInit DEF StampInv, IInv
<1>2. alive \subseteq Sensors
  BY <1>1, AliveFinite DEF TypeOK
<1>3. BytesRemembered
  BY <1>2 DEF Init, StartRanging, BytesRemembered
<1>4. SpoiltDebts = {}
  <2> SUFFICES ASSUME NEW s \in alive, MaySpoil(s) PROVE FALSE
    BY DEF SpoiltDebts
  <2>1. ~Remembered(s, NoCount) /\ post[s].n = 0 /\ outN[s] = 0
    BY <1>2 DEF MaySpoil, Init, StartRanging, NoPost
  <2>2. Cnt(0) = NoCount
    BY DEF Cnt
  <2> QED
    BY <2>1, <2>2, ShownIsRemembered
<1>5. Cardinality(SpoiltDebts) = 0
  BY <1>4, FS_EmptySet
<1>6. spoilt + Cardinality(SpoiltDebts) <= faults
  BY <1>5 DEF Init
<1> QED
  BY <1>1, <1>3, <1>6 DEF SpoiltInv

\* The four ways in which a step may change the account of SpoiltInv.
SpoiltAccount ==
  \/ UNCHANGED <<spoilt, faults>> /\ SpoiltDebts' \subseteq SpoiltDebts
  \/ UNCHANGED spoilt /\ faults' = faults + 1 /\ SpoiltDebts' \subseteq SpoiltDebts \cup {snum}
  \/ /\ UNCHANGED faults /\ spoilt' = spoilt + 1
     /\ snum \in SpoiltDebts /\ SpoiltDebts' \subseteq SpoiltDebts \ {snum}
  \/ faults' = faults + 1 /\ spoilt' = spoilt + 1 /\ SpoiltDebts' \subseteq SpoiltDebts

\* A step away from a full read that changes neither streamcount nor temp_buffer.
LEMMA SpoiltQuiet ==
  ASSUME SpoiltInv, TypeOK', UNCHANGED <<alive, streamcount, temp_buffer, post, spoilt, faults>>,
         \A s \in Sensors : outN'[s] >= outN[s],
         UNCHANGED <<pc, snum>> \/ (pc # "get" /\ pc' # "get")
  PROVE  BytesRemembered' /\ SpoiltAccount
<1>1. /\ \A s \in Sensors : /\ post[s].n \in Nat /\ outN[s] \in Nat /\ outN'[s] \in Nat
                            /\ post[s].n <= outN[s]
      /\ alive \subseteq Sensors
  BY AliveFinite DEF SpoiltInv, IInv, TypeOK, Posts, ResultsPosted
<1>2. \A s \in alive : \A k \in post[s].n .. outN[s] : k \in post[s].n .. outN'[s]
  BY <1>1
<1>3. BytesRemembered'
  BY <1>2 DEF SpoiltInv, BytesRemembered, Remembered
<1>4. \A s \in alive : MaySpoil(s)' => MaySpoil(s)
  <2> SUFFICES ASSUME NEW s \in alive, MaySpoil(s)' PROVE MaySpoil(s)
    OBVIOUS
  <2>1. CASE pc = "get" /\ s = snum
    <3>1. post[s].n = outN'[s] \/ Opaque(temp_buffer[s])
      BY <2>1 DEF MaySpoil
    <3>2. post[s].n = outN'[s] => post[s].n = outN[s]
      BY <1>1
    <3> QED
      BY <2>1, <3>1, <3>2 DEF MaySpoil
  <2>2. CASE ~(pc = "get" /\ s = snum)
    BY <1>2, <2>2 DEF MaySpoil, Remembered
  <2> QED
    BY <2>1, <2>2
<1>5. SpoiltDebts' \subseteq SpoiltDebts
  BY <1>4 DEF SpoiltDebts
<1> QED
  BY <1>3, <1>5 DEF SpoiltAccount

\* A check that works announces a frame only if it is new, unless streamcount was in debt; one
\* that fails may put its sensor in debt.
LEMMA SpoiltCheck ==
  ASSUME SpoiltInv, CheckDataReady, UNCHANGED alive
  PROVE  BytesRemembered' /\ SpoiltAccount
<1>1. TypeOK /\ ResultsPosted /\ BytesRemembered /\ alive \subseteq Sensors
  BY AliveFinite DEF SpoiltInv, IInv, TypeOK
<1>2. /\ pc = "check" /\ UNCHANGED <<outN, post, spoilt>> /\ snum \in Sensors
      /\ pc' = "get" => snum' = snum
  BY <1>1 DEF CheckDataReady, TryAgain, NextSensor, device, costs, TypeOK
<1>3. \A s \in Sensors : s # snum => /\ temp_buffer'[s] = temp_buffer[s]
                                     /\ streamcount'[s] = streamcount[s]
  BY <1>1, <1>2 DEF CheckDataReady, TypeOK
<1>4. \A s \in alive : s # snum /\ MaySpoil(s)' => MaySpoil(s)
  BY <1>1, <1>2, <1>3 DEF MaySpoil, Remembered
<1>5. /\ post[snum].n \in Nat /\ outN[snum] \in Nat /\ post[snum].n <= outN[snum]
  BY <1>1, <1>2 DEF TypeOK, Posts, ResultsPosted
<1> DEFINE h == [cnt |-> Cnt(outN[snum]), swapped |-> FALSE]
<1>6. CASE snum \in alive /\ ReadFails /\ UNCHANGED temp_buffer
  <2>1. faults' = faults + 1
    BY <1>6 DEF ReadFails
  <2>2. BytesRemembered'
    BY <1>1, <1>2, <1>6 DEF BytesRemembered, Remembered
  <2> QED
    BY <1>2, <1>4, <2>1, <2>2 DEF SpoiltAccount, SpoiltDebts
<1>7. CASE snum \notin alive /\ UNCHANGED <<faults, temp_buffer>>
  <2>1. BytesRemembered'
    BY <1>1, <1>2, <1>7 DEF BytesRemembered, Remembered
  <2> QED
    BY <1>2, <1>4, <1>7, <2>1 DEF SpoiltAccount, SpoiltDebts
<1>8. CASE /\ snum \in alive /\ UNCHANGED faults
           /\ temp_buffer' = [temp_buffer EXCEPT ![snum] = h]
  <2>1. temp_buffer'[snum] = h
    BY <1>1, <1>2, <1>8, Zenon DEF TypeOK
  <2>2. h.cnt = Cnt(outN[snum])
    OBVIOUS
  <2>3. BytesRemembered'
    <3>1. Remembered(snum, Cnt(outN[snum]))
      BY <1>5, ShownIsRemembered
    <3> HIDE DEF h
    <3> QED
      BY <1>1, <1>2, <1>3, <2>1, <2>2, <3>1 DEF BytesRemembered, Remembered
  <2>4. ~Opaque(h) /\ \A old : NewCounts(h, old) = {Cnt(outN[snum])} \ {NoCount, old}
    BY <1>5, FreshHeader
  <2>5. ASSUME NEW n \in alive, n = snum, MaySpoil(n)' PROVE MaySpoil(n)
    <3> HIDE DEF h
    <3>1. CASE pc' = "get"
      <4>1. Cnt(outN[snum]) # streamcount[snum]
        BY <2>1, <2>4, <3>1, NextSensorLeaves DEF CheckDataReady, TryAgain
      <4>2. SUFFICES ASSUME Remembered(snum, streamcount[snum]) PROVE FALSE
        BY <1>2, <2>5 DEF MaySpoil
      <4>3. PICK k \in post[snum].n .. outN[snum] : streamcount[snum] = Cnt(k)
        BY <4>2 DEF Remembered
      <4>4. k # outN[snum]
        BY <4>1, <4>3
      <4>5. post[snum].n # outN[snum]
        BY <1>5, <4>3, <4>4
      <4> QED
        BY <1>2, <2>1, <2>4, <2>5, <3>1, <4>5 DEF MaySpoil
    <3>2. CASE pc' # "get"
      <4>1. UNCHANGED streamcount
        BY <3>2 DEF CheckDataReady
      <4> QED
        BY <1>2, <2>5, <3>2, <4>1 DEF MaySpoil, Remembered
    <3> QED
      BY <3>1, <3>2
  <2> QED
    BY <1>2, <1>4, <1>8, <2>3, <2>5 DEF SpoiltAccount, SpoiltDebts
<1>9. \/ ReadWorks /\ temp_buffer' = [temp_buffer EXCEPT ![snum] = h]
      \/ ReadFails /\ UNCHANGED temp_buffer
  BY DEF CheckDataReady
<1> HIDE DEF h
<1> QED
  BY <1>6, <1>7, <1>8, <1>9 DEF ReadWorks, ReadFails

\* A full read that works spoils its message only if it was in debt, and is out of debt then;
\* one that fails spoils its message and brings no new debt.
LEMMA SpoiltGet ==
  ASSUME SpoiltInv, GetRangingData, UNCHANGED alive
  PROVE  BytesRemembered' /\ SpoiltAccount
<1>1. /\ TypeOK /\ ResultsPosted /\ BytesRemembered /\ DeadAreSilent /\ alive \subseteq Sensors
  BY AliveFinite DEF SpoiltInv, IInv, TypeOK
<1>2. pc = "get" /\ pc' # "get" /\ UNCHANGED outN /\ snum \in Sensors /\ snum \in alive
  BY <1>1, NextSensorLeaves DEF GetRangingData, device, TypeOK, DeadAreSilent
<1>n. PICK n \in alive : n = snum
  BY <1>2
<1>3. \A s \in Sensors : s # snum => /\ temp_buffer'[s] = temp_buffer[s]
                                     /\ streamcount'[s] = streamcount[s]
                                     /\ post'[s] = post[s]
  BY <1>1, <1>2 DEF GetRangingData, GetWorks, GetFails, TypeOK
<1>4. \A s \in alive : s # snum /\ MaySpoil(s)' => MaySpoil(s)
  BY <1>1, <1>2, <1>3 DEF MaySpoil, Remembered
<1>5. /\ post[snum].n \in Nat /\ outN[snum] \in Nat /\ post[snum].n <= outN[snum]
      /\ spoilt \in Nat /\ faults \in Nat
  BY <1>1, <1>2, RangingAssumption DEF TypeOK, Posts, ResultsPosted
<1>6. post'[snum] = [n |-> vl_results'[snum].n, pulse |-> vl_results'[snum].pulse,
                     genuine |-> vl_results'[snum].genuine, stamp |-> tv_now]
  BY <1>1, <1>2 DEF GetRangingData, TypeOK
<1> DEFINE h == [cnt |-> Cnt(outN[snum]), swapped |-> FALSE]
<1>7. CASE GetWorks
  <2>1. UNCHANGED faults
    BY <1>7 DEF GetWorks, ReadWorks
  <2>2. vl_results'[snum] = [n |-> outN[snum], pulse |-> outPulse[snum], genuine |-> TRUE]
    BY <1>1, <1>2, <1>7 DEF GetWorks, TypeOK
  <2>3. post'[snum].n = outN[snum] /\ post'[snum].genuine
    BY <1>6, <2>2
  <2>4. streamcount'[snum] = Cnt(outN[snum])
    BY <1>1, <1>2, <1>5, <1>7, FreshHeader DEF GetWorks, TypeOK
  <2>5. temp_buffer'[snum].cnt = Cnt(outN[snum])
    BY <1>1, <1>2, <1>7 DEF GetWorks, SwapBuffer, TypeOK
  <2>6. Remembered(n, Cnt(outN[n]))'
    BY <1>2, <1>n, <1>5, <2>3 DEF Remembered
  <2>7. ~MaySpoil(n)'
    BY <1>2, <2>4, <1>n, <2>6 DEF MaySpoil, Remembered
  <2>8. BytesRemembered'
    BY <1>1, <1>2, <1>n, <1>3, <2>5, <2>6 DEF BytesRemembered, Remembered
  <2>9. SpoiltDebts' \subseteq SpoiltDebts /\ snum \notin SpoiltDebts'
    BY <1>4, <1>n, <2>7 DEF SpoiltDebts
  <2>10. CASE outN[snum] > post[snum].n
    <3>1. UNCHANGED spoilt
      BY <2>3, <2>10 DEF GetRangingData
    <3> QED
      BY <2>1, <2>8, <2>9, <3>1 DEF SpoiltAccount
  <2>11. CASE ~(outN[snum] > post[snum].n)
    <3>1. spoilt' = spoilt + 1
      BY <2>3, <2>11 DEF GetRangingData
    <3>2. post[snum].n = outN[snum]
      BY <1>5, <2>11
    <3>3. snum \in SpoiltDebts
      BY <1>2, <3>2 DEF SpoiltDebts, MaySpoil
    <3> QED
      BY <2>1, <2>8, <2>9, <3>1, <3>3 DEF SpoiltAccount
  <2> QED
    BY <2>10, <2>11
<1>8. CASE GetFails
  <2>1. faults' = faults + 1
    BY <1>2, <1>8 DEF GetFails, ReadFails
  <2>2. vl_results'[snum].n = vl_results[snum].n
    BY <1>1, <1>2, <1>8 DEF GetFails, TypeOK, Results
  <2>3. post'[snum].n = post[snum].n
    BY <1>1, <1>2, <1>6, <2>2 DEF ResultsPosted
  <2>4. spoilt' = spoilt + 1
    BY <1>5, <2>3 DEF GetRangingData
  <2>5. temp_buffer'[snum].cnt = temp_buffer[snum].cnt
    BY <1>1, <1>2, <1>8 DEF GetFails, SwapBuffer, TypeOK
  <2>6. BytesRemembered'
    BY <1>1, <1>2, <1>3, <2>3, <2>5 DEF BytesRemembered, Remembered
  <2>7. MaySpoil(n)' => MaySpoil(n)
    <3> SUFFICES ASSUME ~Opaque(temp_buffer[snum]) PROVE ~MaySpoil(n)'
      BY <1>2, <1>n DEF MaySpoil
    <3>1. streamcount'[snum] = temp_buffer[snum].cnt /\ temp_buffer[snum].cnt # Other
      BY <1>1, <1>2, <1>8 DEF GetFails, CountIn, TypeOK, Opaque
    <3>2. Remembered(snum, temp_buffer[snum].cnt)
      BY <1>1, <1>2, <3>1 DEF BytesRemembered
    <3> QED
      BY <1>2, <1>n, <2>3, <3>1, <3>2 DEF MaySpoil, Remembered
  <2> QED
    BY <1>4, <1>n, <2>1, <2>4, <2>6, <2>7 DEF SpoiltAccount, SpoiltDebts
<1> QED
  BY <1>7, <1>8 DEF GetRangingData

\* Every step keeps the account.
LEMMA SpoiltStep == SpoiltInv /\ [Next]_vars => SpoiltInv'
<1> SUFFICES ASSUME SpoiltInv, [Next]_vars PROVE SpoiltInv'
  OBVIOUS
<1>1. IInv' /\ ResultsPosted' /\ TypeOK /\ TypeOK'
  BY NextIInv, ResultsStep DEF SpoiltInv, IInv
<1>2. UNCHANGED alive
  BY DEF Next, Thread, Complete, Done, Stuck, vars, config
<1>3. BytesRemembered' /\ SpoiltAccount
  <2>1. CASE CheckDataReady
    BY <1>2, <2>1, SpoiltCheck
  <2>2. CASE GetRangingData
    BY <1>2, <2>2, SpoiltGet
  <2>3. ASSUME NEW t \in Sensors, Complete(t)
        PROVE  /\ UNCHANGED <<alive, streamcount, temp_buffer, post, spoilt, faults, pc, snum>>
               /\ \A s \in Sensors : outN'[s] >= outN[s]
    <3>1. UNCHANGED <<alive, streamcount, temp_buffer, post, spoilt, faults, pc, snum>>
      BY <1>2, <2>3 DEF Complete, thread, driver, costs
    <3>2. \A s \in Sensors : outN[s] \in Nat /\ (outN'[s] = outN[s] \/ outN'[s] = outN[s] + 1)
      BY <1>1, <2>3 DEF Complete, TypeOK
    <3> QED
      BY <3>1, <3>2
  <2>4. CASE \E t \in Sensors : Complete(t)
    BY <1>1, <2>3, <2>4, SpoiltQuiet
  <2>5. CASE Pulse \/ Take \/ UNCHANGED vars
    <3>1. /\ UNCHANGED <<alive, streamcount, temp_buffer, post, spoilt, faults, outN>>
          /\ UNCHANGED <<pc, snum>> \/ (pc # "get" /\ pc' # "get")
      BY <1>2, <2>5 DEF Pulse, Take, vars, thread, driver, device, costs
    <3>2. \A s \in Sensors : outN'[s] >= outN[s]
      BY <1>1, <3>1 DEF TypeOK
    <3> QED
      BY <1>1, <3>1, <3>2, SpoiltQuiet
  <2> QED
    BY <2>1, <2>2, <2>4, <2>5 DEF Next, Thread, Done, Stuck
<1>4. IsFiniteSet(SpoiltDebts)
  BY <1>1, AliveFinite, FS_Subset DEF SpoiltDebts, TypeOK
<1>5. spoilt \in Nat /\ faults \in Nat /\ spoilt + Cardinality(SpoiltDebts) <= faults
  BY <1>1, RangingAssumption DEF TypeOK, SpoiltInv
<1>6. spoilt' + Cardinality(SpoiltDebts') <= faults'
  <2> DEFINE A == SpoiltDebts
             B == SpoiltDebts'
  <2>1. CASE UNCHANGED <<spoilt, faults>> /\ B \subseteq A
    <3>1. /\ Cardinality(A) \in Nat /\ Cardinality(B) \in Nat
          /\ Cardinality(B) <= Cardinality(A)
      BY <1>4, <2>1, NoGrowth
    <3> HIDE DEF A, B
    <3> QED
      BY <1>5, <2>1, <3>1 DEF A, B
  <2>2. CASE UNCHANGED spoilt /\ faults' = faults + 1 /\ B \subseteq A \cup {snum}
    <3>1. /\ Cardinality(A) \in Nat /\ Cardinality(B) \in Nat
          /\ Cardinality(B) <= Cardinality(A) + 1
      BY <1>4, <2>2, GrowByOne
    <3> QED
      BY <1>5, <2>2, <3>1
  <2>3. CASE /\ UNCHANGED faults /\ spoilt' = spoilt + 1
             /\ snum \in A /\ B \subseteq A \ {snum}
    <3>1. /\ Cardinality(A) \in Nat /\ Cardinality(B) \in Nat
          /\ Cardinality(B) + 1 <= Cardinality(A)
      BY <1>4, <2>3, ShrinkByOne
    <3> QED
      BY <1>5, <2>3, <3>1
  <2>4. CASE faults' = faults + 1 /\ spoilt' = spoilt + 1 /\ B \subseteq A
    <3>1. /\ Cardinality(A) \in Nat /\ Cardinality(B) \in Nat
          /\ Cardinality(B) <= Cardinality(A)
      BY <1>4, <2>4, NoGrowth
    <3> QED
      BY <1>5, <2>4, <3>1
  <2> QED
    BY <1>3, <2>1, <2>2, <2>3, <2>4 DEF SpoiltAccount
<1> QED
  BY <1>1, <1>3, <1>6 DEF SpoiltInv

\* For any number of sensors and of failed reads, at any moment: the messages that were not
\* genuine or not new are no more than the reads that have failed.
THEOREM FaultsSpoilOnePost == Spec => []OneSpoiltPostPerFault
<1>1. SpoiltInv => OneSpoiltPostPerFault
  <2> SUFFICES ASSUME SpoiltInv PROVE spoilt <= faults
    BY DEF OneSpoiltPostPerFault
  <2>1. TypeOK /\ spoilt + Cardinality(SpoiltDebts) <= faults
    BY DEF SpoiltInv, IInv
  <2>2. Cardinality(SpoiltDebts) \in Nat
    BY <2>1, AliveFinite, FS_Subset, FS_CardinalityType DEF SpoiltDebts, TypeOK
  <2>3. spoilt \in Nat /\ faults \in Nat
    BY <2>1, RangingAssumption DEF TypeOK
  <2> QED
    BY <2>1, <2>2, <2>3
<1> QED
  BY <1>1, SpoiltInit, SpoiltStep, PTL DEF Spec

\* Two frames in a row never show the same stream count: counts wrap at 2 or more.
LEMMA NextCountDiffers ==
  ASSUME NEW n \in Nat PROVE Cnt(n + 1) # Cnt(n)
<1>1. CountMod \in Nat /\ CountMod >= 2
  BY RangingAssumption
<1>2. CASE n = 0
  <2>1. (n + 1) % CountMod \in 0 .. CountMod - 1
    BY <1>1
  <2> QED
    BY <1>2, <2>1 DEF Cnt, NoCount
<1>3. CASE n # 0
  <2> DEFINE p == n \div CountMod
             q == (n + 1) \div CountMod
  <2>1. p \in Int /\ q \in Int
    BY <1>1
  <2>2. /\ n % CountMod = n - CountMod * p
        /\ (n + 1) % CountMod = (n + 1) - CountMod * q
    BY <1>1, Z3
  <2>3. n % CountMod \in Int /\ (n + 1) % CountMod \in Int
    BY <1>1
  <2> HIDE DEF p, q
  <2>4. SUFFICES ASSUME (n + 1) % CountMod = n % CountMod PROVE FALSE
    BY <1>3 DEF Cnt
  <2>5. CountMod * (q - p) = 1
    BY <1>1, <2>1, <2>2, <2>3, <2>4
  <2>6. q - p <= 0 => CountMod * (q - p) <= 0
    BY <1>1, <2>1
  <2>7. q - p >= 1 => CountMod * (q - p) >= 2
    BY <1>1, <2>1
  <2> QED
    BY <2>1, <2>5, <2>6, <2>7
<1> QED
  BY <1>2, <1>3

\* The loop has come to sensor s since the last pulse.
Visited(s) == pc = "pulse" \/ (pc \in {"check", "get"} /\ s < snum)

\* A timely sensor shows the frame of the pulse before, and the next one once it has
\* ended it, whatever became of the reads.
Shown ==
  timely => \A s \in alive : outN[s] = IF acq[s] = Idle THEN cycle + 1 ELSE cycle

\* The sensors the loop has come to without their frame of this cycle being posted.
Late == {s \in Lacking : Visited(s) /\ cycle > 0}

\* Sensor s may yet miss a frame although no more reads fail: the streamcount, or the byte it
\* will be set from, is by chance the count of the frame to be read next.
MayMiss(s) ==
  IF pc = "get" /\ s = snum
    THEN Opaque(temp_buffer[s]) \/ temp_buffer[s].cnt = Cnt(cycle + 1)
  ELSE IF pc = "check" /\ s = snum
    THEN tries > 0 \/ streamcount[s] = Cnt(cycle)
  ELSE streamcount[s] = Cnt(IF Visited(s) THEN cycle + 1 ELSE cycle)

MissDebts == {s \in alive : MayMiss(s)}

\* Every fault is charged once: for a frame missed, or for a sensor that may miss one.
MissedInv ==
  IF timely THEN missed + Cardinality(Late) + Cardinality(MissDebts) <= faults
            ELSE missed = 0

\* The inductive invariant behind OneFramePerFault.
CostInv == StampInv /\ Shown /\ MissedInv

\* It holds initially: nothing is posted and nothing is expected.
LEMMA CostInit == Init => CostInv
<1> SUFFICES ASSUME Init PROVE CostInv
  OBVIOUS
<1>1. TypeOK
  BY InitType
<1>2. \A s \in alive : s \in Sensors
  BY <1>1, AliveFinite DEF TypeOK
<1>3. Shown
  BY <1>2 DEF Init, Shown, Idle
<1>4. Late = {}
  BY DEF Init, Late
<1>5. Cnt(1) # NoCount
  BY RangingAssumption DEF Cnt, NoCount
<1>6. MissDebts = {}
  BY <1>2, <1>5 DEF Init, StartRanging, MissDebts, MayMiss, Visited
<1>7. Cardinality(Late) = 0 /\ Cardinality(MissDebts) = 0
  BY <1>4, <1>6, FS_EmptySet
<1>8. MissedInv
  BY <1>7 DEF MissedInv, Init
<1> QED
  BY <1>3, <1>8, StampInit DEF CostInv

\* The frames the devices show do not depend on the reads.
LEMMA ShownStep == StampInv /\ Shown /\ [Next]_vars => Shown'
<1> SUFFICES ASSUME StampInv, Shown, [Next]_vars, timely', NEW s \in alive'
             PROVE  outN'[s] = IF acq'[s] = Idle THEN cycle' + 1 ELSE cycle'
  BY DEF Shown
<1>1. TypeOK /\ Acquiring
  BY DEF StampInv, IInv
<1>2. timely /\ s \in alive /\ UNCHANGED alive
  BY DEF Next, Thread, Complete, Done, Stuck, vars, config
<1>3. s \in Sensors /\ cycle \in Nat
  BY <1>1, <1>2, AliveFinite, RangingAssumption DEF TypeOK
<1>4. outN[s] = IF acq[s] = Idle THEN cycle + 1 ELSE cycle
  BY <1>2 DEF Shown
<1>5. CASE UNCHANGED <<cycle, acq, outN>>
  BY <1>4, <1>5
<1>6. CASE \E t \in Sensors : Complete(t)
  <2> PICK t \in Sensors : Complete(t)
    BY <1>6
  <2>1. /\ cycle' = cycle /\ acq[t] # Idle
        /\ outN' = [outN EXCEPT ![t] = @ + 1] /\ acq' = [acq EXCEPT ![t] = Idle]
    BY DEF Complete, thread
  <2>2. t # s => acq[t] = cycle \/ t \notin alive
    BY <1>1, <1>2, <2>1 DEF Acquiring
  <2> QED
    BY <1>1, <1>3, <1>4, <2>1 DEF TypeOK
<1>7. CASE Pulse
  <2>1. acq[s] = Idle /\ acq'[s] = cycle + 1 /\ cycle' = cycle + 1 /\ outN' = outN
    BY <1>2, <1>3, <1>7 DEF Pulse
  <2> QED
    BY <1>3, <1>4, <2>1 DEF Idle
<1>8. CASE Take \/ CheckDataReady \/ GetRangingData
  BY <1>5, <1>8 DEF Take, CheckDataReady, GetRangingData, device
<1>9. CASE UNCHANGED vars
  BY <1>5, <1>9 DEF vars, thread, device
<1> QED
  BY <1>6, <1>7, <1>8, <1>9 DEF Next, Thread, Done, Stuck

\* What a timely sensor shows while the loop reads.
LEMMA ShownWhileReading ==
  ASSUME StampInv, Shown, timely, pc # "pulse", NEW s \in alive
  PROVE  /\ cycle \in Nat /\ cycle > 0
         /\ outN[s] = cycle /\ outPulse[s] = cycle - 1
<1>1. TypeOK /\ Acquiring /\ Stamped
  BY DEF StampInv, IInv
<1>2. cycle \in Nat /\ cycle > 0
  BY <1>1, RangingAssumption DEF TypeOK, Stamped
<1>3. acq[s] # Idle /\ outPulse[s] = cycle - 1
  BY <1>1, <1>2 DEF Acquiring
<1> QED
  BY <1>2, <1>3 DEF Shown

\* What is true of all sensors when the loop moves on or stays: which of them it has come to.
LEMMA Moves ==
  ASSUME TypeOK, CheckDataReady \/ GetRangingData
  PROVE  /\ UNCHANGED <<cycle, outN, missed>> /\ snum \in Sensors /\ pc \in {"check", "get"}
         /\ \/ pc = "check" /\ pc' \in {"check", "get"} /\ snum' = snum
            \/ pc' = "check" /\ snum' = snum + 1 /\ tries' = 0
            \/ pc' = "pulse" /\ snum = NumSensors - 1
         /\ \A s \in Sensors : s # snum => (Visited(s)' <=> Visited(s))
<1>1. /\ UNCHANGED <<cycle, outN, missed>> /\ snum \in Sensors /\ pc \in {"check", "get"}
  BY DEF TypeOK, CheckDataReady, GetRangingData, device, costs
<1>2. \/ pc = "check" /\ pc' \in {"check", "get"} /\ snum' = snum
      \/ pc' = "check" /\ snum' = snum + 1 /\ tries' = 0
      \/ pc' = "pulse" /\ snum = NumSensors - 1
  BY <1>1, RangingAssumption DEF CheckDataReady, GetRangingData, TryAgain, NextSensor, Sensors
<1>3. \A s \in Sensors : s # snum => (Visited(s)' <=> Visited(s))
  BY <1>1, <1>2, RangingAssumption DEF Visited, Sensors
<1> QED
  BY <1>1, <1>2, <1>3

\* The reading of one sensor leaves the accounts of the others alone.
LEMMA OthersKept ==
  ASSUME TypeOK, CheckDataReady \/ GetRangingData, UNCHANGED alive
  PROVE  /\ \A s \in alive \ {snum} : s \in Late' => s \in Late
         /\ \A s \in alive \ {snum} : s \in MissDebts' => s \in MissDebts
<1> SUFFICES ASSUME NEW s \in alive, s # snum
             PROVE  (s \in Late' => s \in Late) /\ (s \in MissDebts' => s \in MissDebts)
  OBVIOUS
<1>1. s \in Sensors
  BY AliveFinite DEF TypeOK
<1>2. /\ temp_buffer'[s] = temp_buffer[s] /\ streamcount'[s] = streamcount[s]
      /\ post'[s] = post[s]
  BY <1>1 DEF CheckDataReady, GetRangingData, GetWorks, GetFails, TypeOK
<1>3. UNCHANGED cycle /\ (Visited(s)' <=> Visited(s))
  BY <1>1, Moves
<1>4. s \in Late' => s \in Late
  BY <1>2, <1>3 DEF Late, Lacking
<1>5. MayMiss(s) <=> streamcount[s] = Cnt(IF Visited(s) THEN cycle + 1 ELSE cycle)
  BY DEF MayMiss
<1>6. MayMiss(s)' => streamcount'[s] = Cnt(IF Visited(s)' THEN cycle' + 1 ELSE cycle')
  <2>1. CASE pc' = "get" /\ s = snum'
    BY <2>1, Moves
  <2>2. CASE pc' = "check" /\ s = snum'
    <3>1. tries' = 0 /\ ~Visited(s)'
      BY <2>2, <1>1, Moves, RangingAssumption DEF Visited, Sensors
    <3> QED
      BY <2>2, <3>1 DEF MayMiss
  <2>3. CASE ~(pc' = "get" /\ s = snum') /\ ~(pc' = "check" /\ s = snum')
    BY <2>3 DEF MayMiss
  <2> QED
    BY <2>1, <2>2, <2>3
<1>7. MayMiss(s)' => MayMiss(s)
  <2>1. (Visited(s)' /\ Visited(s)) \/ (~Visited(s)' /\ ~Visited(s))
    BY <1>3
  <2> QED
    BY <1>2, <1>3, <1>5, <1>6, <2>1
<1> QED
  BY <1>4, <1>7 DEF MissDebts

\* The ways in which the reading of a sensor may change the account of MissedInv.
MissAccount ==
  /\ UNCHANGED missed
  /\ \/ UNCHANGED faults /\ Late' \subseteq Late /\ MissDebts' \subseteq MissDebts
     \/ /\ faults' = faults + 1 /\ Late' \subseteq Late
        /\ MissDebts' \subseteq MissDebts \cup {snum}
     \/ /\ UNCHANGED faults /\ Late' \subseteq Late \cup {snum}
        /\ snum \in MissDebts /\ MissDebts' \subseteq MissDebts \ {snum}
     \/ /\ faults' = faults + 1 /\ Late' \subseteq Late \cup {snum}
        /\ MissDebts' \subseteq MissDebts

\* The sensor being read is not one that the loop has come past.
LEMMA NotYetLate ==
  ASSUME TypeOK, CheckDataReady \/ GetRangingData, snum' = snum, pc' # "pulse"
  PROVE  snum \notin Late'
<1>1. snum \in Nat /\ pc' # "pulse"
  BY Moves DEF Sensors
<1> QED
  BY <1>1 DEF Late, Visited

\* A check that works announces the frame unless its sensor was in debt; when the last try
\* fails an earlier one has failed too.
LEMMA MissCheck ==
  ASSUME StampInv, Shown, timely, CheckDataReady, UNCHANGED alive
  PROVE  MissAccount
<1>1. TypeOK /\ alive \subseteq Sensors /\ tries \in Nat
  BY AliveFinite, RangingAssumption DEF StampInv, IInv, TypeOK
<1>2. /\ pc = "check" /\ UNCHANGED <<cycle, outN, missed>> /\ snum \in Sensors
      /\ \/ pc' \in {"check", "get"} /\ snum' = snum
         \/ pc' \in {"check", "pulse"} /\ tries + 1 >= MaxTries /\ UNCHANGED streamcount
  <2>1. /\ pc = "check" /\ UNCHANGED <<cycle, outN, missed>> /\ snum \in Sensors
    BY <1>1, Moves DEF CheckDataReady
  <2>2. \/ pc' = "get" /\ UNCHANGED <<snum, tries>>
        \/ tries + 1 < MaxTries /\ TryAgain /\ UNCHANGED streamcount
        \/ ~(tries + 1 < MaxTries) /\ NextSensor /\ UNCHANGED streamcount
    BY DEF CheckDataReady
  <2>3. ~(tries + 1 < MaxTries) => tries + 1 >= MaxTries
    BY <1>1, RangingAssumption
  <2> QED
    BY <2>1, <2>2, <2>3 DEF TryAgain, NextSensor
<1>3. /\ \A s \in alive \ {snum} : s \in Late' => s \in Late
      /\ \A s \in alive \ {snum} : s \in MissDebts' => s \in MissDebts
  BY <1>1, OthersKept
<1>4. /\ Late' \subseteq Late \cup {snum} /\ MissDebts' \subseteq MissDebts \cup {snum}
      /\ Late' \subseteq alive /\ MissDebts' \subseteq alive
  BY <1>3 DEF Late, Lacking, MissDebts
<1>5. CASE snum \notin alive
  <2>1. UNCHANGED faults
    BY <1>5 DEF CheckDataReady, ReadWorks, ReadFails
  <2> QED
    BY <1>2, <1>3, <1>4, <1>5, <2>1 DEF MissAccount
<1>6. CASE snum \in alive /\ ReadFails
  <2>1. faults' = faults + 1
    BY <1>6 DEF ReadFails
  <2>2. CASE snum' = snum /\ pc' # "pulse"
    <3>1. snum \notin Late'
      BY <1>1, <2>2, NotYetLate
    <3> QED
      BY <1>2, <1>4, <2>1, <3>1 DEF MissAccount
  <2>3. CASE ~(snum' = snum /\ pc' # "pulse")
    <3>1. tries > 0
      BY <1>1, <1>2, <2>3, RangingAssumption
    <3>2. snum \in MissDebts
      BY <1>2, <1>6, <3>1 DEF MissDebts, MayMiss
    <3> QED
      BY <1>2, <1>4, <2>1, <3>2 DEF MissAccount
  <2> QED
    BY <2>2, <2>3
<1>7. CASE snum \in alive /\ ~ReadFails
  <2>1. UNCHANGED faults
    BY <1>7 DEF CheckDataReady, ReadWorks
  <2>2. cycle \in Nat /\ cycle > 0 /\ outN[snum] = cycle
    BY <1>2, <1>7, ShownWhileReading
  <2> DEFINE h == [cnt |-> Cnt(cycle), swapped |-> FALSE]
  <2>3. temp_buffer'[snum] = h
    <3>1. temp_buffer' = [temp_buffer EXCEPT ![snum] = h]
      BY <1>7, <2>2, Zenon DEF CheckDataReady
    <3> HIDE DEF h
    <3> QED
      BY <1>1, <1>2, <3>1, Zenon DEF TypeOK
  <2>4. /\ ~Opaque(h) /\ h.cnt = Cnt(cycle)
        /\ NewCounts(h, streamcount[snum]) = {Cnt(cycle)} \ {NoCount, streamcount[snum]}
    BY <2>2, FreshHeader
  <2> HIDE DEF h
  <2>5. Cnt(cycle) # NoCount /\ Cnt(cycle + 1) # Cnt(cycle)
    BY <2>2, NextCountDiffers, RangingAssumption DEF Cnt, NoCount
  <2>6. PICK n \in alive : n = snum
    BY <1>7
  <2>7. CASE streamcount[snum] # Cnt(cycle)
    <3>1. pc' = "get" /\ snum' = snum
      <4>1. ~(Opaque(h) \/ NewCounts(h, streamcount[snum]) = {})
        BY <2>4, <2>5, <2>7
      <4> QED
        BY <2>3, <4>1 DEF CheckDataReady
    <3>2. n \notin MissDebts'
      BY <2>3, <2>4, <2>5, <2>6, <1>2, <3>1 DEF MissDebts, MayMiss
    <3>3. snum \notin Late'
      BY <1>1, <3>1, NotYetLate
    <3> QED
      BY <1>2, <1>4, <2>1, <2>6, <3>2, <3>3 DEF MissAccount
  <2>8. CASE streamcount[snum] = Cnt(cycle)
    <3>1. snum \in MissDebts
      BY <1>2, <1>7, <2>8 DEF MissDebts, MayMiss
    <3>2. UNCHANGED streamcount /\ pc' # "get"
      <4>1. NewCounts(temp_buffer'[snum], streamcount[snum]) = {}
        BY <2>3, <2>4, <2>8
      <4> QED
        BY <4>1, NextSensorLeaves, <1>2 DEF CheckDataReady, TryAgain
    <3>3. CASE snum' = snum /\ pc' # "pulse"
      <4>1. snum \notin Late'
        BY <1>1, <3>3, NotYetLate
      <4> QED
        BY <1>2, <1>4, <2>1, <3>1, <4>1 DEF MissAccount
    <3>4. CASE ~(snum' = snum /\ pc' # "pulse")
      <4>1. Visited(n)' /\ ~(pc' = "check" /\ n = snum')
        <5>1. pc' = "pulse" \/ (pc' = "check" /\ snum' = snum + 1)
          BY <1>1, <3>4, Moves
        <5> QED
          BY <1>2, <2>6, <5>1 DEF Visited, Sensors
      <4>2. n \notin MissDebts'
        BY <1>2, <2>5, <2>6, <2>8, <3>2, <4>1 DEF MissDebts, MayMiss
      <4> QED
        BY <1>2, <1>4, <2>1, <2>6, <3>1, <4>2 DEF MissAccount
    <3> QED
      BY <3>3, <3>4
  <2> QED
    BY <2>7, <2>8
<1> QED
  BY <1>5, <1>6, <1>7

\* A full read that works posts the frame and settles the debt; one that fails costs the
\* frame and brings no new debt.
LEMMA MissGet ==
  ASSUME StampInv, Shown, timely, GetRangingData, UNCHANGED alive
  PROVE  MissAccount
<1>1. TypeOK /\ DeadAreSilent /\ alive \subseteq Sensors
  BY AliveFinite DEF StampInv, IInv, TypeOK
<1>2. /\ pc = "get" /\ UNCHANGED <<cycle, outN, missed>> /\ snum \in Sensors /\ snum \in alive
      /\ pc' = "pulse" \/ (pc' = "check" /\ snum' = snum + 1)
  BY <1>1, Moves DEF GetRangingData, DeadAreSilent
<1>3. /\ \A s \in alive \ {snum} : s \in Late' => s \in Late
      /\ \A s \in alive \ {snum} : s \in MissDebts' => s \in MissDebts
  BY <1>1, OthersKept
<1>4. /\ Late' \subseteq Late \cup {snum} /\ MissDebts' \subseteq MissDebts \cup {snum}
      /\ Late' \subseteq alive /\ MissDebts' \subseteq alive
  BY <1>3 DEF Late, Lacking, MissDebts
<1>5. cycle \in Nat /\ cycle > 0 /\ outN[snum] = cycle /\ outPulse[snum] = cycle - 1
  BY <1>2, ShownWhileReading
<1>6. Cnt(cycle + 1) # Cnt(cycle)
  BY <1>5, NextCountDiffers
<1>7. PICK n \in alive : n = snum
  BY <1>2
<1>8. MayMiss(n)' <=> streamcount'[n] = Cnt(cycle + 1)
  <2>1. Visited(n)' /\ ~(pc' = "get" /\ n = snum') /\ ~(pc' = "check" /\ n = snum')
    BY <1>2, <1>7 DEF Visited, Sensors
  <2> QED
    BY <1>2, <2>1 DEF MayMiss
<1>9. CASE GetWorks
  <2>1. UNCHANGED faults
    BY <1>9 DEF GetWorks, ReadWorks
  <2>2. vl_results'[snum] = [n |-> outN[snum], pulse |-> outPulse[snum], genuine |-> TRUE]
    BY <1>1, <1>2, <1>9 DEF GetWorks, TypeOK
  <2>3. post'[snum].pulse = cycle - 1 /\ post'[snum].genuine
    BY <1>1, <1>2, <1>5, <2>2 DEF GetRangingData, TypeOK
  <2>4. streamcount'[snum] = Cnt(cycle)
    <3>1. CountIn([cnt |-> Cnt(outN[snum]), swapped |-> FALSE]) = {Cnt(cycle)}
      BY <1>5, FreshHeader
    <3> QED
      BY <1>1, <1>2, <1>9, <3>1 DEF GetWorks, TypeOK
  <2>5. n \notin Late' /\ n \notin MissDebts'
    BY <1>2, <1>6, <1>7, <1>8, <2>3, <2>4 DEF Late, Lacking, MissDebts
  <2> QED
    BY <1>2, <1>4, <1>7, <2>1, <2>5 DEF MissAccount
<1>10. CASE GetFails
  <2>1. faults' = faults + 1
    BY <1>2, <1>10 DEF GetFails, ReadFails
  <2>2. n \in MissDebts' => n \in MissDebts
    <3> SUFFICES ASSUME ~MayMiss(n) PROVE ~MayMiss(n)'
      BY <1>7 DEF MissDebts
    <3>1. ~Opaque(temp_buffer[snum]) /\ temp_buffer[snum].cnt # Cnt(cycle + 1)
      BY <1>2, <1>7 DEF MayMiss
    <3>2. streamcount'[snum] = temp_buffer[snum].cnt
      BY <1>1, <1>2, <1>10, <3>1 DEF GetFails, CountIn, TypeOK
    <3> QED
      BY <1>7, <1>8, <3>1, <3>2
  <2> QED
    BY <1>2, <1>4, <1>7, <2>1, <2>2 DEF MissAccount
<1> QED
  BY <1>9, <1>10 DEF GetRangingData

\* A pulse writes off the frames that are late; no other step concerns the account.
LEMMA MissQuiet ==
  ASSUME TypeOK, UNCHANGED <<alive, timely, streamcount, temp_buffer, post, faults>>,
         \/ UNCHANGED <<pc, snum, tries, cycle, missed>>
         \/ Take
         \/ Pulse
  PROVE  /\ MissDebts' \subseteq MissDebts
         /\ \/ missed' = missed /\ Late' \subseteq Late
            \/ /\ timely /\ missed' = missed + Cardinality(Late)
               /\ Late' = {}
<1>1. /\ alive \subseteq Sensors /\ Sensors \subseteq Nat /\ cycle \in Nat
  BY AliveFinite, RangingAssumption DEF TypeOK, Sensors
<1>2. CASE UNCHANGED <<pc, snum, tries, cycle, missed>>
  BY <1>2 DEF MissDebts, MayMiss, Late, Lacking, Visited
<1>3. CASE Take
  <2>1. /\ pc = "take" /\ pc' = "check" /\ snum' = 0 /\ tries' = 0
        /\ UNCHANGED <<cycle, missed>>
    BY <1>3 DEF Take, costs
  <2>2. \A s \in alive : ~Visited(s) /\ ~Visited(s)'
    BY <1>1, <2>1 DEF Visited
  <2>3. Late' = {}
    BY <2>2 DEF Late, Lacking
  <2>4. \A s \in alive : MayMiss(s)' => MayMiss(s)
    BY <2>1, <2>2 DEF MayMiss
  <2> QED
    BY <2>1, <2>3, <2>4 DEF MissDebts
<1>4. CASE Pulse
  <2>1. /\ pc = "pulse" /\ pc' = "take" /\ cycle' = cycle + 1
        /\ missed' = IF timely /\ cycle > 0 THEN missed + Cardinality(Lacking) ELSE missed
    BY <1>4 DEF Pulse
  <2>2. \A s \in alive : Visited(s) /\ ~Visited(s)'
    BY <2>1 DEF Visited
  <2>3. Late' = {}
    BY <2>2 DEF Late, Lacking
  <2>4. cycle > 0 => Late = Lacking
    BY <2>2 DEF Late, Lacking
  <2>5. \A s \in alive : MayMiss(s)' => MayMiss(s)
    BY <2>1, <2>2 DEF MayMiss
  <2> QED
    BY <2>1, <2>3, <2>4, <2>5 DEF MissDebts
<1> QED
  BY <1>2, <1>3, <1>4

\* Every step keeps the inductive invariant.
LEMMA CostStep == CostInv /\ [Next]_vars => CostInv'
<1> SUFFICES ASSUME CostInv, [Next]_vars PROVE CostInv'
  OBVIOUS
<1>1. StampInv /\ StampInv' /\ Shown /\ Shown' /\ TypeOK /\ TypeOK' /\ MissedInv
  BY StampStep, ShownStep DEF CostInv, StampInv, IInv
<1>2. UNCHANGED <<alive, timely>>
  BY DEF Next, Thread, Complete, Done, Stuck, vars, config
<1>3. \/ CheckDataReady \/ GetRangingData
      \/ /\ UNCHANGED <<streamcount, temp_buffer, post, faults>>
         /\ UNCHANGED <<pc, snum, tries, cycle, missed>> \/ Take \/ Pulse
  BY DEF Next, Thread, Complete, Take, Pulse, Done, Stuck, vars, thread, driver, costs
<1>4. CASE ~timely
  <2>1. missed' = missed
    BY <1>3, <1>4 DEF CheckDataReady, GetRangingData, Take, Pulse, costs
  <2> QED
    BY <1>1, <1>2, <1>4, <2>1 DEF CostInv, MissedInv
<1>5. CASE timely
  <2>1. IsFiniteSet(Late) /\ IsFiniteSet(MissDebts)
    BY <1>1, AliveFinite, LackingFinite, FS_Subset DEF Late, MissDebts, TypeOK
  <2>2. /\ missed \in Nat /\ faults \in Nat
        /\ Cardinality(Late) \in Nat /\ Cardinality(MissDebts) \in Nat
        /\ missed + Cardinality(Late) + Cardinality(MissDebts) <= faults
    BY <1>1, <1>5, <2>1, FS_CardinalityType, RangingAssumption DEF TypeOK, MissedInv
  <2>3. missed' + Cardinality(Late') + Cardinality(MissDebts') <= faults'
    <3>1. CASE CheckDataReady \/ GetRangingData
      <4>1. MissAccount
        BY <1>1, <1>2, <1>5, <3>1, MissCheck, MissGet
      <4>2. CASE UNCHANGED faults /\ Late' \subseteq Late /\ MissDebts' \subseteq MissDebts
        <5>1. /\ Cardinality(Late') \in Nat /\ Cardinality(Late') <= Cardinality(Late)
              /\ Cardinality(MissDebts') \in Nat
              /\ Cardinality(MissDebts') <= Cardinality(MissDebts)
          BY <2>1, <4>2, NoGrowth
        <5> QED
          BY <2>2, <4>1, <4>2, <5>1 DEF MissAccount
      <4>3. CASE /\ faults' = faults + 1 /\ Late' \subseteq Late
                 /\ MissDebts' \subseteq MissDebts \cup {snum}
        <5>1. Cardinality(Late') \in Nat /\ Cardinality(Late') <= Cardinality(Late)
          BY <2>1, <4>3, NoGrowth
        <5>2. /\ Cardinality(MissDebts') \in Nat
              /\ Cardinality(MissDebts') <= Cardinality(MissDebts) + 1
          BY <2>1, <4>3, GrowByOne
        <5>3. missed' = missed
          BY <4>1 DEF MissAccount
        <5> QED
          BY <2>2, <4>3, <5>1, <5>2, <5>3
      <4>4. CASE /\ UNCHANGED faults /\ Late' \subseteq Late \cup {snum}
                 /\ snum \in MissDebts /\ MissDebts' \subseteq MissDebts \ {snum}
        <5>1. Cardinality(Late') \in Nat /\ Cardinality(Late') <= Cardinality(Late) + 1
          BY <2>1, <4>4, GrowByOne
        <5>2. /\ Cardinality(MissDebts') \in Nat
              /\ Cardinality(MissDebts') + 1 <= Cardinality(MissDebts)
          BY <2>1, <4>4, ShrinkByOne
        <5>3. missed' = missed
          BY <4>1 DEF MissAccount
        <5> QED
          BY <2>2, <4>4, <5>1, <5>2, <5>3
      <4>5. CASE /\ faults' = faults + 1 /\ Late' \subseteq Late \cup {snum}
                 /\ MissDebts' \subseteq MissDebts
        <5>1. Cardinality(Late') \in Nat /\ Cardinality(Late') <= Cardinality(Late) + 1
          BY <2>1, <4>5, GrowByOne
        <5>2. /\ Cardinality(MissDebts') \in Nat
              /\ Cardinality(MissDebts') <= Cardinality(MissDebts)
          BY <2>1, <4>5, NoGrowth
        <5>3. missed' = missed
          BY <4>1 DEF MissAccount
        <5> QED
          BY <2>2, <4>5, <5>1, <5>2, <5>3
      <4> QED
        BY <4>1, <4>2, <4>3, <4>4, <4>5 DEF MissAccount
    <3>2. CASE /\ UNCHANGED <<streamcount, temp_buffer, post, faults>>
               /\ UNCHANGED <<pc, snum, tries, cycle, missed>> \/ Take \/ Pulse
      <4>1. /\ MissDebts' \subseteq MissDebts
            /\ \/ missed' = missed /\ Late' \subseteq Late
               \/ missed' = missed + Cardinality(Late) /\ Late' = {}
        BY <1>1, <1>2, <3>2, MissQuiet
      <4>2. /\ Cardinality(MissDebts') \in Nat
            /\ Cardinality(MissDebts') <= Cardinality(MissDebts)
        BY <2>1, <4>1, NoGrowth
      <4>3. CASE missed' = missed /\ Late' \subseteq Late
        <5>1. Cardinality(Late') \in Nat /\ Cardinality(Late') <= Cardinality(Late)
          BY <2>1, <4>3, NoGrowth
        <5> QED
          BY <2>2, <3>2, <4>2, <4>3, <5>1
      <4>4. CASE missed' = missed + Cardinality(Late) /\ Late' = {}
        <5>1. Cardinality(Late') = 0
          BY <4>4, FS_EmptySet
        <5> QED
          BY <2>2, <3>2, <4>2, <4>4, <5>1
      <4> QED
        BY <4>1, <4>3, <4>4
    <3> QED
      BY <1>3, <3>1, <3>2
  <2> QED
    BY <1>1, <1>2, <1>5, <2>3 DEF CostInv, MissedInv
<1> QED
  BY <1>4, <1>5

\* With timely sensors a failed read costs at most one frame in all, for any number of
\* sensors, tries and failed reads: over the whole run no more frames are missed than reads
\* have failed.
THEOREM FaultsCostOneFrame == Spec => []OneFramePerFault
<1>1. CostInv => OneFramePerFault
  <2> SUFFICES ASSUME CostInv PROVE missed <= faults
    BY DEF OneFramePerFault
  <2>1. TypeOK /\ MissedInv
    BY DEF CostInv, StampInv, IInv
  <2>2. IsFiniteSet(Late) /\ IsFiniteSet(MissDebts)
    BY <2>1, AliveFinite, LackingFinite, FS_Subset DEF Late, MissDebts, TypeOK
  <2>3. /\ missed \in Nat /\ faults \in Nat
        /\ Cardinality(Late) \in Nat /\ Cardinality(MissDebts) \in Nat
    BY <2>1, <2>2, FS_CardinalityType, RangingAssumption DEF TypeOK
  <2> QED
    BY <2>1, <2>3 DEF MissedInv
<1> QED
  BY <1>1, CostInit, CostStep, PTL DEF Spec

\* With timely sensors and no failed read, at the end of each cycle every live sensor has had
\* the frame of the pulse before posted, for any number of sensors and any wrap of the counts.
THEOREM NothingIsSkipped == Spec => []NoFrameSkipped
<1>1. CostInv => NoFrameSkipped
  <2> SUFFICES ASSUME CostInv, timely /\ 0 \in alive /\ pc = "pulse" /\ faults = 0 /\ cycle > 0
               PROVE  \A s \in alive : post[s].genuine /\ post[s].pulse = cycle - 1
    BY DEF NoFrameSkipped
  <2>1. TypeOK /\ missed + Cardinality(Late) + Cardinality(MissDebts) <= 0
    BY DEF CostInv, MissedInv, StampInv, IInv
  <2>2. IsFiniteSet(Late) /\ IsFiniteSet(MissDebts)
    BY <2>1, AliveFinite, LackingFinite, FS_Subset DEF Late, MissDebts, TypeOK
  <2>3. missed \in Nat /\ Cardinality(Late) \in Nat /\ Cardinality(MissDebts) \in Nat
    BY <2>1, <2>2, FS_CardinalityType DEF TypeOK
  <2>4. Cardinality(Late) = 0
    BY <2>1, <2>3
  <2>5. Late = {}
    BY <2>2, <2>4, FS_EmptySet
  <2> QED
    BY <2>5 DEF Late, Lacking, Visited
<1> QED
  BY <1>1, CostInit, CostStep, PTL DEF Spec

=============================================================================
