--------------------------- MODULE SensorBusProofs ---------------------------
(***************************************************************************)
(* For every number of sensors, starts and failing writes: the types of    *)
(* SensorBus, and what writes that fail can and cannot do to the sensors'  *)
(* addresses and to the list of those found alive (see LossesApart).       *)
(***************************************************************************)
EXTENDS SensorBus, TLAPS

\* The steps of a sensor's turn, and those after the last turn.
Turn == {"select", "page0", "address", "page2"}
Moved == {"all_on", "init_sensor", "ranging"}

\* The expander drives the pins once it has been told to.
Driven ==
  /\ pc # "direction" => mux.output
  /\ pc \notin {"direction", "follow"} => mux.follow

OwnAddress == \A s \in Sensor : addr[s] \in {Default, NewAddr(s)}

\* While a sensor is moved, another one that hears the bus has been moved before.
OthersMoved ==
  pc \in {"page0", "address"} => \A s \in mux.high : s = i \/ addr[s] # Default

\* If no write has failed that could keep a sensor from moving or the pins of an
\* earlier boot high, the sensor that hears the bus at the end of a turn has moved.
HighMoved ==
  lost \cap {"low", "page0", "address"} = {} =>
    /\ pc \in {"select", "page2"} => \A s \in mux.high : addr[s] # Default
    /\ pc = "address" => \A s \in mux.high : addr[s] = Default => page[s] = 0

\* What each step of a boot has done, if no write of the boot has failed.
CleanTurn ==
  /\ pc \in {"page0", "address", "page2"} => mux.high = {i}
  /\ pc = "address" => (addr[i] = Default => page[i] = 0)
  /\ pc = "page2" => addr[i] # Default
  /\ pc \in Turn => \A s \in Sensor : s < i => addr[s] # Default

CleanEnd ==
  /\ pc \in Moved => \A s \in Sensor : addr[s] # Default
  /\ pc \in {"init_sensor", "ranging"} => mux.high = Sensor
  /\ pc = "init_sensor" => \A s \in Sensor : s < i => s \in alive
  /\ pc = "ranging" => alive = Sensor

\* The first turn is sensor 1's, and so is the first init_sensor.
FirstTurn == pc \in {"direction", "follow", "low", "all_on"} => i = 1

NobodyYet == pc \notin {"init_sensor", "ranging"} => alive = {}

SlipInv ==
  /\ NobodyYet /\ FirstTurn
  /\ LossesApart => /\ Driven
                    /\ OwnAddress
                    /\ OthersMoved /\ HighMoved
                    /\ clean => CleanTurn /\ CleanEnd
                    /\ AliveIsAlone

-----------------------------------------------------------------------------
(* Types.                                                                  *)

\* The registers of a write that is of the right type keep it, whether it fails or not.
LEMMA TransmitType ==
  ASSUME TypeOK, NEW m, NEW a, NEW p, Transmit(m, a, p),
         m \in [output : BOOLEAN, follow : BOOLEAN, high : SUBSET Sensor],
         a \in [Sensor -> Address], p \in [Sensor -> Page]
  PROVE  /\ mux' \in [output : BOOLEAN, follow : BOOLEAN, high : SUBSET Sensor]
         /\ addr' \in [Sensor -> Address]
         /\ page' \in [Sensor -> Page]
         /\ faults' \in 0 .. MaxFaults /\ lost' \subseteq Steps /\ clean' \in BOOLEAN
<1>1. CASE mux' = m /\ addr' = a /\ page' = p /\ UNCHANGED ghosts
  BY <1>1, Zenon DEF ghosts, TypeOK
<1>2. CASE /\ faults < MaxFaults
           /\ faults' = faults + 1 /\ lost' = lost \cup {pc} /\ clean' = FALSE
           /\ UNCHANGED bus
  <2>1. faults' \in 0 .. MaxFaults
    BY <1>2, BusAssumption DEF TypeOK
  <2>2. UNCHANGED <<mux, addr, page>> /\ lost' = lost \cup {pc} /\ clean' = FALSE
    BY <1>2 DEF bus
  <2> QED
    BY <2>1, <2>2, Zenon DEF TypeOK
<1> QED
  BY <1>1, <1>2 DEF Transmit

LEMMA SetPagesType ==
  ASSUME TypeOK, NEW S, NEW p \in Page
  PROVE  SetPages(S, p) \in [Sensor -> Page]
  BY DEF SetPages, TypeOK

LEMMA MuxType ==
  ASSUME TypeOK, NEW H \in SUBSET Sensor
  PROVE  /\ [mux EXCEPT !.output = TRUE] \in [output : BOOLEAN, follow : BOOLEAN, high : SUBSET Sensor]
         /\ [mux EXCEPT !.follow = TRUE] \in [output : BOOLEAN, follow : BOOLEAN, high : SUBSET Sensor]
         /\ [mux EXCEPT !.high = H] \in [output : BOOLEAN, follow : BOOLEAN, high : SUBSET Sensor]
  BY Zenon DEF TypeOK

LEMMA InitType == Init => TypeOK
<1> SUFFICES ASSUME Init PROVE TypeOK
  OBVIOUS
<1>1. mux \in [output : BOOLEAN, follow : BOOLEAN, high : SUBSET Sensor]
  BY Zenon DEF Init
<1>2. addr \in [Sensor -> Address] /\ page \in [Sensor -> Page]
  BY DEF Init, Address
<1>3. /\ pc \in Steps /\ i \in Sensor /\ alive \subseteq Sensor
      /\ boots \in 1 .. MaxBoots /\ faults \in 0 .. MaxFaults /\ lost \subseteq Steps
  BY BusAssumption DEF Init, Steps, Sensor
<1>4. clean \in BOOLEAN
  BY Zenon DEF Init
<1> QED
  BY <1>1, <1>2, <1>3, <1>4, Zenon DEF TypeOK

LEMMA NextType == TypeOK /\ [Next]_vars => TypeOK'
<1> SUFFICES ASSUME TypeOK, [Next]_vars PROVE TypeOK'
  OBVIOUS
<1> DEFINE Registers ==
      /\ mux' \in [output : BOOLEAN, follow : BOOLEAN, high : SUBSET Sensor]
      /\ addr' \in [Sensor -> Address]
      /\ page' \in [Sensor -> Page]
      /\ faults' \in 0 .. MaxFaults /\ lost' \subseteq Steps /\ clean' \in BOOLEAN
    Thread == pc' \in Steps /\ i' \in Sensor /\ alive' \subseteq Sensor /\ boots' \in 1 .. MaxBoots
<1>1. SUFFICES Registers /\ Thread
  BY Zenon DEF TypeOK
<1>2. /\ addr \in [Sensor -> Address] /\ page \in [Sensor -> Page] /\ i \in Sensor
      /\ 0 \in Page /\ 2 \in Page /\ {} \in SUBSET Sensor /\ Sensor \in SUBSET Sensor
      /\ mux \in [output : BOOLEAN, follow : BOOLEAN, high : SUBSET Sensor]
  BY Zenon DEF TypeOK, Page
<1>3. \A n \in Steps : Goto(n) => Thread
  BY Zenon DEF Goto, TypeOK
<1> DEFINE Muxes == [output : BOOLEAN, follow : BOOLEAN, high : SUBSET Sensor]
<1>3a. ASSUME NEW m \in Muxes, MuxWrite(m) PROVE Registers
  BY <1>2, <1>3a, TransmitType DEF MuxWrite
<1>3b. /\ [mux EXCEPT !.output = TRUE] \in Muxes /\ [mux EXCEPT !.follow = TRUE] \in Muxes
       /\ \A H \in SUBSET Sensor : [mux EXCEPT !.high = H] \in Muxes
  BY <1>2, MuxType, Zenon
<1> HIDE DEF Registers, Thread, Muxes
<1>4. CASE MuxInitDirection \/ MuxInitFollow \/ MuxInitLow \/ AllOn
  <2>1. \E m \in Muxes : MuxWrite(m)
    BY <1>2, <1>3b, <1>4, Zenon DEF MuxInitDirection, MuxInitFollow, MuxInitLow, AllOn
  <2>2. Registers
    BY <1>3a, <2>1
  <2>3. Thread
    BY <1>3, <1>4 DEF MuxInitDirection, MuxInitFollow, MuxInitLow, AllOn, Steps
  <2> QED
    BY <2>2, <2>3
<1>5. CASE Select
  <2>1. Mask(i) \in SUBSET Sensor
    BY <1>2 DEF Mask
  <2>2. Registers
    BY <1>3a, <1>3b, <1>5, <2>1, Zenon DEF Select
  <2> QED
    BY <1>3, <1>5, <2>2 DEF Select, Steps
<1>6. CASE SelectPage0
  <2>1. Registers
    BY <1>2, <1>6, SetPagesType, TransmitType DEF SelectPage0, PageZero, Registers
  <2> QED
    BY <1>3, <1>6, <2>1 DEF SelectPage0, Steps
<1>7. CASE SetAddress
  <2>1. MoveTo(NewAddr(i)) \in [Sensor -> Address]
    BY <1>2 DEF MoveTo, NewAddr, Address
  <2>2. Registers
    BY <1>2, <1>7, <2>1, TransmitType DEF SetAddress, Registers
  <2> QED
    BY <1>3, <1>7, <2>2 DEF SetAddress, Steps
<1>8. CASE SelectPage2
  <2>1. Registers
    BY <1>2, <1>8, SetPagesType, TransmitType DEF SelectPage2, Registers
  <2>2. pc' \in Steps /\ i' \in Sensor
    BY <1>2, <1>8, BusAssumption DEF SelectPage2, Steps, Sensor
  <2>3. alive' \subseteq Sensor /\ boots' \in 1 .. MaxBoots
    BY <1>8 DEF SelectPage2, TypeOK
  <2> QED
    BY <2>1, <2>2, <2>3 DEF Thread
<1>9. CASE InitSensor
  <2>1. mux' = mux /\ addr' = addr /\ page' \in [Sensor -> Page]
    BY <1>2, <1>9, SetPagesType DEF InitSensor
  <2>2. faults' \in 0 .. MaxFaults /\ lost' \subseteq Steps
    <3>1. CASE UNCHANGED ghosts
      BY <3>1 DEF ghosts, TypeOK
    <3>2. CASE faults < MaxFaults /\ faults' = faults + 1 /\ lost' = lost \cup {pc}
      BY <3>2, BusAssumption DEF TypeOK
    <3> QED
      BY <1>9, <3>1, <3>2 DEF InitSensor
  <2>3. clean' \in BOOLEAN
    BY <1>9, Zenon DEF InitSensor, ghosts, TypeOK
  <2>4. pc' \in Steps /\ i' \in Sensor
    BY <1>2, <1>9, BusAssumption DEF InitSensor, Steps, Sensor
  <2>5. alive' \subseteq Sensor /\ boots' \in 1 .. MaxBoots
    BY <1>2, <1>9 DEF InitSensor, TypeOK
  <2> QED
    BY <1>2, <2>1, <2>2, <2>3, <2>4, <2>5, Zenon DEF Registers, Thread
<1>10. CASE Restart
  <2>1. pc' \in Steps /\ i' \in Sensor /\ alive' \subseteq Sensor /\ boots' \in 1 .. MaxBoots
    BY <1>10, BusAssumption DEF Restart, Steps, Sensor, TypeOK
  <2>2. UNCHANGED <<mux, addr, page, faults, lost>> /\ clean' = TRUE
    BY <1>10 DEF Restart, bus
  <2> QED
    BY <2>1, <2>2, Zenon DEF TypeOK, Registers, Thread
<1>11. CASE UNCHANGED vars
  BY <1>11, Zenon DEF vars, bus, thread, ghosts, TypeOK, Registers, Thread
<1> QED
  BY <1>4, <1>5, <1>6, <1>7, <1>8, <1>9, <1>10, <1>11 DEF Next

\* The expander's registers, the sensors' addresses and the thread's position stay of
\* their types whatever writes fail and however often the board restarts.
THEOREM TypeCorrect == Spec => []TypeOK
<1>1. TypeOK /\ [Next]_vars => TypeOK'
  BY NextType
<1> QED
  BY InitType, <1>1, PTL DEF Spec

-----------------------------------------------------------------------------
(* Failed writes.                                                          *)

\* A write happens, or it is lost and none of those that make the expander drive
\* the pins.
LEMMA WriteOrLost ==
  ASSUME TypeOK, NEW m, NEW a, NEW p, Transmit(m, a, p), LossesApart'
  PROVE  /\ LossesApart /\ lost \subseteq lost'
         /\ \/ mux' = m /\ addr' = a /\ page' = p /\ clean' = clean
            \/ /\ mux' = mux /\ addr' = addr /\ page' = page
               /\ ~clean' /\ pc \in lost'
               /\ pc \notin {"direction", "follow"}
<1>1. CASE mux' = m /\ addr' = a /\ page' = p /\ UNCHANGED ghosts
  <2>1. lost' = lost /\ clean' = clean
    BY <1>1, Zenon DEF ghosts
  <2>2. LossesApart
    BY <2>1 DEF LossesApart
  <2> QED
    BY <1>1, <2>1, <2>2, Zenon
<1>2. CASE /\ faults' = faults + 1 /\ lost' = lost \cup {pc} /\ clean' = FALSE
           /\ UNCHANGED bus
  <2>1. lost \subseteq lost' /\ pc \in lost'
    BY <1>2
  <2>2. LossesApart /\ pc \notin {"direction", "follow"}
    BY <2>1 DEF LossesApart
  <2> QED
    BY <1>2, <2>1, <2>2, Zenon DEF bus
<1> QED
  BY <1>1, <1>2, Zenon DEF Transmit

\* An expander that drives the pins lets those sensors hear that it holds high.
LEMMA EnabledIsHigh == mux.output /\ mux.follow => Enabled = mux.high
  BY Zenon DEF Enabled

\* The thread's position and what it leaves alone when it goes on to a step.
LEMMA GoneTo ==
  ASSUME NEW n, Goto(n)
  PROVE  pc' = n /\ i' = i /\ alive' = alive
  BY DEF Goto

\* The part of the invariant that does not depend on what has failed.
LEMMA NextNobody ==
  NobodyYet /\ FirstTurn /\ [Next]_vars => NobodyYet' /\ FirstTurn'
<1> SUFFICES ASSUME NobodyYet, FirstTurn, [Next]_vars PROVE NobodyYet' /\ FirstTurn'
  OBVIOUS
<1>1. CASE MuxInitDirection \/ MuxInitFollow \/ MuxInitLow \/ Select \/ AllOn
  BY <1>1 DEF MuxInitDirection, MuxInitFollow, MuxInitLow, Select, AllOn, Goto, NobodyYet, FirstTurn
<1>2. CASE SelectPage0 \/ SetAddress \/ SelectPage2
  BY <1>2 DEF SelectPage0, SetAddress, SelectPage2, Goto, NobodyYet, FirstTurn
<1>3. CASE InitSensor
  BY <1>3 DEF InitSensor, NobodyYet, FirstTurn
<1>4. CASE Restart
  BY <1>4, Zenon DEF Restart, NobodyYet, FirstTurn
<1>5. CASE UNCHANGED vars
  BY <1>5, Zenon DEF vars, thread, NobodyYet, FirstTurn
<1> QED
  BY <1>1, <1>2, <1>3, <1>4, <1>5 DEF Next

\* What the failures leave of the invariant.
Addressed ==
  /\ Driven /\ OwnAddress /\ OthersMoved /\ HighMoved
  /\ clean => CleanTurn /\ CleanEnd
  /\ AliveIsAlone

\* The context of every step below: the invariant before it, the premise after it.
Before == TypeOK /\ SlipInv /\ LossesApart'

LEMMA BeforeMeans ==
  Before => /\ NobodyYet /\ FirstTurn
            /\ i \in Sensor /\ i \in Nat /\ NumSensors \in Nat
            /\ \A s \in Sensor : s \in Nat /\ NewAddr(s) # Default
            /\ addr \in [Sensor -> Address] /\ page \in [Sensor -> Page]
            /\ mux.high \subseteq Sensor
<1> SUFFICES ASSUME Before PROVE
            /\ NobodyYet /\ FirstTurn
            /\ i \in Sensor /\ i \in Nat /\ NumSensors \in Nat
            /\ \A s \in Sensor : s \in Nat /\ NewAddr(s) # Default
            /\ addr \in [Sensor -> Address] /\ page \in [Sensor -> Page]
            /\ mux.high \subseteq Sensor
  OBVIOUS
<1>1. \A s \in Sensor : s \in Nat /\ NewAddr(s) # Default
  BY BusAssumption DEF Sensor, NewAddr, Default
<1>2. mux.high \subseteq Sensor
  BY Zenon DEF Before, TypeOK
<1> QED
  BY <1>1, <1>2, BusAssumption DEF Before, SlipInv, TypeOK

\* Nobody is taken for alive before the last write, so nobody wrongly.
LEMMA NobodyWrong ==
  ASSUME NobodyYet', pc' \notin {"init_sensor", "ranging"}
  PROVE  AliveIsAlone'
  BY Zenon DEF NobodyYet, AliveIsAlone

LEMMA ExpanderSetUp ==
  ASSUME Before, NobodyYet', MuxInitDirection \/ MuxInitFollow \/ MuxInitLow
  PROVE  Addressed'
<1>1. /\ i \in Sensor /\ addr \in [Sensor -> Address] /\ TypeOK /\ LossesApart'
      /\ \A s \in Sensor : s \in Nat
  BY BeforeMeans DEF Before
<1>2. CASE MuxInitDirection
  <2>1. pc = "direction" /\ pc' = "follow"
    BY <1>2 DEF MuxInitDirection, Goto
  <2>2. LossesApart /\ mux' = [mux EXCEPT !.output = TRUE] /\ addr' = addr
    BY <1>1, <1>2, <2>1, WriteOrLost DEF MuxInitDirection, MuxWrite
  <2>3. mux'.output
    BY <1>1, <2>2, Zenon DEF TypeOK
  <2>4. Driven' /\ OthersMoved' /\ HighMoved'
    BY <2>1, <2>3 DEF Driven, OthersMoved, HighMoved
  <2>5. OwnAddress'
    BY <2>2 DEF OwnAddress, Before, SlipInv
  <2>6. CleanTurn' /\ CleanEnd'
    BY <2>1 DEF CleanTurn, CleanEnd, Turn, Moved
  <2> QED
    BY <2>1, <2>4, <2>5, <2>6, NobodyWrong DEF Addressed
<1>3. CASE MuxInitFollow
  <2>1. pc = "follow" /\ pc' = "low"
    BY <1>3 DEF MuxInitFollow, Goto
  <2>2. LossesApart /\ mux' = [mux EXCEPT !.follow = TRUE] /\ addr' = addr
    BY <1>1, <1>3, <2>1, WriteOrLost DEF MuxInitFollow, MuxWrite
  <2>3. mux.output
    BY <2>1, <2>2 DEF Before, SlipInv, Driven
  <2>4. mux'.follow /\ mux'.output
    BY <1>1, <2>2, <2>3, Zenon DEF TypeOK
  <2>5. Driven' /\ OthersMoved' /\ HighMoved'
    BY <2>1, <2>4 DEF Driven, OthersMoved, HighMoved
  <2>6. OwnAddress'
    BY <2>2 DEF OwnAddress, Before, SlipInv
  <2>7. CleanTurn' /\ CleanEnd'
    BY <2>1 DEF CleanTurn, CleanEnd, Turn, Moved
  <2> QED
    BY <2>1, <2>5, <2>6, <2>7, NobodyWrong DEF Addressed
<1>4. CASE MuxInitLow
  <2>1. pc = "low" /\ pc' = "select" /\ i' = i
    BY <1>4 DEF MuxInitLow, Goto
  <2>2. /\ LossesApart /\ addr' = addr
        /\ \/ mux' = [mux EXCEPT !.high = {}]
           \/ mux' = mux /\ ~clean' /\ "low" \in lost'
    BY <1>1, <1>4, <2>1, WriteOrLost DEF MuxInitLow, MuxWrite
  <2>3. mux.follow /\ mux.output
    BY <2>1, <2>2 DEF Before, SlipInv, Driven
  <2>4. mux'.follow /\ mux'.output
    BY <1>1, <2>2, <2>3, Zenon DEF TypeOK
  <2>5. mux'.high = {} \/ (~clean' /\ "low" \in lost')
    BY <1>1, <2>2, Zenon DEF TypeOK
  <2>6. Driven' /\ OthersMoved' /\ HighMoved'
    BY <2>1, <2>4, <2>5 DEF Driven, OthersMoved, HighMoved
  <2>7. OwnAddress'
    BY <2>2 DEF OwnAddress, Before, SlipInv
  <2>8. i' = 1
    BY <2>1, BeforeMeans DEF FirstTurn
  <2>9. clean' => CleanTurn' /\ CleanEnd'
    BY <1>1, <2>1, <2>5, <2>8 DEF CleanTurn, CleanEnd, Turn, Moved, Sensor
  <2> QED
    BY <2>1, <2>6, <2>7, <2>9, NobodyWrong DEF Addressed
<1> QED
  BY <1>2, <1>3, <1>4

\* A write of the output register leaves the other registers.
LEMMA HighWritten ==
  ASSUME TypeOK, NEW H, mux' = [mux EXCEPT !.high = H]
  PROVE  mux'.high = H /\ mux'.output = mux.output /\ mux'.follow = mux.follow
  BY Zenon DEF TypeOK

LEMMA SelectSlip == ASSUME Before, NobodyYet', Select PROVE Addressed'
<1>1. /\ i \in Sensor /\ addr \in [Sensor -> Address] /\ TypeOK /\ LossesApart'
  BY BeforeMeans DEF Before
<1>2. pc = "select" /\ pc' = "page0" /\ i' = i
  BY DEF Select, Goto
<1>3. /\ LossesApart /\ addr' = addr /\ lost \subseteq lost'
      /\ \/ mux' = [mux EXCEPT !.high = {i}] /\ clean' = clean
         \/ mux' = mux /\ ~clean' /\ "select" \in lost'
  BY <1>1, <1>2, WriteOrLost, Zenon DEF Select, MuxWrite, Mask
<1>4. mux.output /\ mux.follow
  BY <1>2, <1>3 DEF Before, SlipInv, Driven
<1>5. HighMoved /\ (clean => CleanTurn)
  BY <1>3, Zenon DEF Before, SlipInv
<1>6. /\ mux'.output /\ mux'.follow
      /\ \/ mux'.high = {i} /\ clean' = clean
         \/ mux'.high = mux.high /\ ~clean' /\ "select" \in lost'
  <2>1. CASE mux' = [mux EXCEPT !.high = {i}] /\ clean' = clean
    <3>1. mux'.high = {i} /\ mux'.output = mux.output /\ mux'.follow = mux.follow
      BY <1>1, <2>1, HighWritten
    <3>2. mux'.output /\ mux'.follow
      BY <1>4, <3>1
    <3> QED
      BY <2>1, <3>1, <3>2, Zenon
  <2>2. CASE mux' = mux /\ ~clean' /\ "select" \in lost'
    BY <1>4, <2>2, Zenon
  <2> QED
    BY <1>3, <2>1, <2>2, Zenon
<1>7. Driven' /\ OwnAddress' /\ HighMoved'
  BY <1>2, <1>3, <1>6 DEF Before, SlipInv, Driven, OwnAddress, HighMoved
<1>8. OthersMoved'
  <2>1. CASE mux'.high = {i}
    BY <1>2, <2>1 DEF OthersMoved
  <2>2. CASE mux'.high = mux.high /\ "select" \in lost'
    <3>1. lost \cap {"low", "page0", "address"} = {}
      BY <1>1, <1>3, <2>2 DEF LossesApart
    <3>2. \A s \in mux.high : addr[s] # Default
      BY <1>2, <1>5, <3>1 DEF HighMoved
    <3> QED
      BY <1>3, <2>2, <3>2 DEF OthersMoved
  <2> QED
    BY <1>6, <2>1, <2>2
<1>9. clean' => CleanTurn' /\ CleanEnd'
  BY <1>2, <1>3, <1>5, <1>6 DEF CleanTurn, CleanEnd, Turn, Moved
<1> QED
  BY <1>2, <1>7, <1>8, <1>9, NobodyWrong DEF Addressed

LEMMA PageZeroSlip == ASSUME Before, NobodyYet', SelectPage0 PROVE Addressed'
<1>1. /\ i \in Sensor /\ page \in [Sensor -> Page] /\ TypeOK /\ LossesApart'
  BY BeforeMeans DEF Before
<1>2. pc = "page0" /\ pc' = "address" /\ i' = i
  BY DEF SelectPage0, Goto
<1>3. /\ LossesApart /\ mux' = mux /\ addr' = addr
      /\ \/ page' = PageZero(Answering(Default)) /\ clean' = clean
         \/ ~clean' /\ "page0" \in lost'
  BY <1>1, <1>2, WriteOrLost, Zenon DEF SelectPage0
<1>4. mux.output /\ mux.follow
  BY <1>2, <1>3 DEF Before, SlipInv, Driven
<1>5. clean => CleanTurn
  BY <1>3, Zenon DEF Before, SlipInv
<1>6. Driven' /\ OwnAddress' /\ OthersMoved'
  BY <1>2, <1>3, <1>4 DEF Before, SlipInv, Driven, OwnAddress, OthersMoved
<1>7. HighMoved'
  <2> SUFFICES ASSUME (lost \cap {"low", "page0", "address"} = {})'
               PROVE  \A s \in mux.high : addr[s] = Default => page'[s] = 0
    BY <1>2, <1>3 DEF HighMoved
  <2>1. page' = PageZero(Answering(Default))
    BY <1>3
  <2>2. mux.high \subseteq Sensor /\ Enabled = mux.high
    BY <1>4, BeforeMeans, EnabledIsHigh
  <2> QED
    BY <1>1, <2>1, <2>2 DEF PageZero, SetPages, Answering
<1>8. ASSUME clean' PROVE CleanTurn' /\ CleanEnd'
  <2>1. clean /\ CleanTurn /\ page' = PageZero(Answering(Default))
    BY <1>3, <1>5, <1>8, Zenon
  <2>2. i \in Enabled
    BY <1>2, <1>4, <2>1, EnabledIsHigh DEF CleanTurn
  <2>3. addr[i] = Default => page'[i] = 0
    BY <1>1, <2>1, <2>2 DEF PageZero, SetPages, Answering
  <2> QED
    BY <1>2, <1>3, <2>1, <2>3 DEF CleanTurn, CleanEnd, Turn, Moved
<1> QED
  BY <1>2, <1>6, <1>7, <1>8, NobodyWrong DEF Addressed

LEMMA SetAddressSlip == ASSUME Before, NobodyYet', SetAddress PROVE Addressed'
<1>1. /\ i \in Sensor /\ addr \in [Sensor -> Address] /\ TypeOK /\ LossesApart'
      /\ \A s \in Sensor : s \in Nat /\ NewAddr(s) # Default
  BY BeforeMeans DEF Before
<1>2. pc = "address" /\ pc' = "page2" /\ i' = i
  BY DEF SetAddress, Goto
<1>3. /\ LossesApart /\ mux' = mux /\ lost \subseteq lost'
      /\ \/ addr' = MoveTo(NewAddr(i)) /\ clean' = clean
         \/ addr' = addr /\ ~clean' /\ "address" \in lost'
  BY <1>1, <1>2, WriteOrLost, Zenon DEF SetAddress
<1>4. /\ mux.output /\ mux.follow /\ Driven /\ OwnAddress /\ OthersMoved /\ HighMoved
      /\ clean => CleanTurn
  BY <1>2, <1>3 DEF Before, SlipInv, Driven
<1>5. Driven' /\ OthersMoved'
  BY <1>2, <1>3, <1>4 DEF Driven, OthersMoved
<1>6. OwnAddress'
  <2>1. \A s \in Answering(Default) : s = i
    BY <1>2, <1>4, EnabledIsHigh DEF Answering, OthersMoved
  <2>2. CASE addr' = MoveTo(NewAddr(i))
    BY <1>1, <1>4, <2>1, <2>2 DEF MoveTo, OwnAddress
  <2>3. CASE addr' = addr
    BY <1>4, <2>3 DEF OwnAddress
  <2> QED
    BY <1>3, <2>2, <2>3
<1>7. HighMoved'
  <2> SUFFICES ASSUME (lost \cap {"low", "page0", "address"} = {})'
               PROVE  \A s \in mux.high : addr'[s] # Default
    BY <1>2, <1>3 DEF HighMoved
  <2>1. addr' = MoveTo(NewAddr(i)) /\ lost \cap {"low", "page0", "address"} = {}
    BY <1>3
  <2>2. \A s \in mux.high : addr[s] = Default => page[s] = 0
    BY <1>2, <1>4, <2>1 DEF HighMoved
  <2>3. mux.high \subseteq Sensor /\ Enabled = mux.high
    BY <1>4, BeforeMeans, EnabledIsHigh
  <2> QED
    BY <1>1, <2>1, <2>2, <2>3 DEF MoveTo, Answering
<1>8. ASSUME clean' PROVE CleanTurn' /\ CleanEnd'
  <2>1. clean /\ CleanTurn /\ addr' = MoveTo(NewAddr(i))
    BY <1>3, <1>4, <1>8, Zenon
  <2>2. i \in Enabled
    BY <1>2, <1>4, <2>1, EnabledIsHigh DEF CleanTurn
  <2>3. addr'[i] # Default
    BY <1>1, <1>2, <2>1, <2>2 DEF MoveTo, Answering, CleanTurn
  <2>4. \A s \in Sensor : s < i => addr'[s] # Default
    BY <1>1, <1>2, <2>1 DEF MoveTo, CleanTurn, Turn
  <2> QED
    BY <1>2, <1>3, <2>1, <2>3, <2>4 DEF CleanTurn, CleanEnd, Turn, Moved
<1> QED
  BY <1>2, <1>5, <1>6, <1>7, <1>8, NobodyWrong DEF Addressed

LEMMA PageTwoSlip == ASSUME Before, NobodyYet', SelectPage2 PROVE Addressed'
<1>1. /\ i \in Sensor /\ TypeOK /\ LossesApart' /\ i \in Nat /\ NumSensors \in Nat
      /\ \A s \in Sensor : s \in Nat
  BY BeforeMeans DEF Before
<1>2. /\ pc = "page2"
      /\ \/ i < NumSensors /\ pc' = "select" /\ i' = i + 1
         \/ ~(i < NumSensors) /\ pc' = "all_on"
  BY DEF SelectPage2
<1>3. /\ LossesApart /\ mux' = mux /\ addr' = addr /\ (clean' => clean)
      /\ lost \subseteq lost'
  BY <1>1, WriteOrLost, Zenon DEF SelectPage2
<1>4. /\ mux.output /\ mux.follow /\ OwnAddress /\ HighMoved
      /\ clean => CleanTurn
  BY <1>2, <1>3 DEF Before, SlipInv, Driven
<1>5. Driven' /\ OwnAddress' /\ OthersMoved' /\ HighMoved'
  <2>1. HighMoved'
    <3> SUFFICES ASSUME (lost \cap {"low", "page0", "address"} = {})'
                 PROVE  \A s \in mux.high : addr[s] # Default
      BY <1>2, <1>3 DEF HighMoved
    <3>1. lost \cap {"low", "page0", "address"} = {}
      BY <1>3
    <3> QED
      BY <1>2, <1>4, <3>1 DEF HighMoved
  <2> QED
    BY <1>2, <1>3, <1>4, <2>1 DEF Driven, OwnAddress, OthersMoved
<1>6. ASSUME clean' PROVE CleanTurn' /\ CleanEnd'
  <2>1. CleanTurn
    BY <1>3, <1>4, <1>6, Zenon
  <2>2. /\ mux.high = {i} /\ addr[i] # Default
        /\ \A s \in Sensor : s < i => addr[s] # Default
    BY <1>2, <2>1 DEF CleanTurn, Turn
  <2>3. CASE pc' = "select"
    <3>1. \A s \in Sensor : s < i + 1 => s = i \/ s < i
      BY <1>1
    <3>2. \A s \in Sensor : s < i + 1 => addr[s] # Default
      BY <2>2, <3>1, Zenon
    <3> QED
      BY <1>2, <1>3, <2>2, <2>3, <3>2 DEF CleanTurn, CleanEnd, Turn, Moved
  <2>4. CASE pc' = "all_on"
    <3>1. \A s \in Sensor : addr[s] # Default
      BY <1>1, <1>2, <2>2, <2>4 DEF Sensor
    <3> QED
      BY <1>3, <2>4, <3>1 DEF CleanTurn, CleanEnd, Turn, Moved
  <2> QED
    BY <1>2, <2>3, <2>4
<1>7. pc' \notin {"init_sensor", "ranging"}
  BY <1>2
<1> QED
  BY <1>5, <1>6, <1>7, NobodyWrong DEF Addressed

LEMMA AllOnSlip == ASSUME Before, AllOn PROVE Addressed'
<1>1. /\ i \in Sensor /\ TypeOK /\ LossesApart' /\ NobodyYet /\ FirstTurn
      /\ \A s \in Sensor : s \in Nat
  BY BeforeMeans DEF Before
<1>2. /\ pc = "all_on" /\ pc' = "init_sensor" /\ i' = i /\ alive' = alive
      /\ alive = {} /\ i = 1
  BY <1>1 DEF AllOn, Goto, NobodyYet, FirstTurn
<1>3. /\ LossesApart /\ addr' = addr
      /\ \/ mux' = [mux EXCEPT !.high = Sensor] /\ clean' = clean
         \/ mux' = mux /\ ~clean'
  BY <1>1, WriteOrLost, Zenon DEF AllOn, MuxWrite
<1>4. /\ mux.output /\ mux.follow /\ OwnAddress
      /\ clean => CleanEnd
  BY <1>2, <1>3 DEF Before, SlipInv, Driven
<1>5. /\ mux'.output /\ mux'.follow
      /\ clean' => mux'.high = Sensor /\ clean
  <2>1. CASE mux' = [mux EXCEPT !.high = Sensor] /\ clean' = clean
    BY <1>1, <1>4, <2>1, HighWritten, Zenon
  <2>2. CASE mux' = mux /\ ~clean'
    BY <1>4, <2>2, Zenon
  <2> QED
    BY <1>3, <2>1, <2>2, Zenon
<1>6. Driven' /\ OwnAddress' /\ OthersMoved' /\ HighMoved'
  BY <1>2, <1>3, <1>4, <1>5 DEF Driven, OwnAddress, OthersMoved, HighMoved
<1>7. ASSUME clean' PROVE CleanTurn' /\ CleanEnd'
  BY <1>1, <1>2, <1>3, <1>4, <1>5, <1>7, BusAssumption
  DEF CleanTurn, CleanEnd, Turn, Moved, Sensor
<1>8. AliveIsAlone'
  BY <1>2, Zenon DEF AliveIsAlone
<1> QED
  BY <1>6, <1>7, <1>8 DEF Addressed

LEMMA InitSensorSlip == ASSUME Before, InitSensor PROVE Addressed'
<1>1. /\ i \in Sensor /\ TypeOK /\ LossesApart' /\ i \in Nat /\ NumSensors \in Nat
      /\ \A s \in Sensor : s \in Nat /\ NewAddr(s) # Default
  BY BeforeMeans DEF Before
<1>2. /\ pc = "init_sensor" /\ UNCHANGED <<mux, addr>>
      /\ \/ i < NumSensors /\ i' = i + 1 /\ pc' = pc
         \/ ~(i < NumSensors) /\ pc' = "ranging"
  BY DEF InitSensor
<1>3. /\ LossesApart
      /\ \/ clean' = clean /\ alive' = IF Found(i) # {} THEN alive \cup {i} ELSE alive
         \/ ~clean' /\ alive' = alive
  <2>1. CASE UNCHANGED ghosts /\ alive' = IF Found(i) # {} THEN alive \cup {i} ELSE alive
    <3>1. LossesApart
      BY <1>1, <2>1, Zenon DEF ghosts, LossesApart
    <3> QED
      BY <2>1, <3>1, Zenon DEF ghosts
  <2>2. CASE /\ faults' = faults + 1 /\ lost' = lost \cup {pc} /\ clean' = FALSE
             /\ UNCHANGED alive
    <3>1. LossesApart
      BY <1>1, <2>2 DEF LossesApart
    <3> QED
      BY <2>2, <3>1, Zenon
  <2> QED
    BY <2>1, <2>2, Zenon DEF InitSensor
<1>4. /\ Driven /\ OwnAddress /\ AliveIsAlone
      /\ clean => CleanEnd
  BY <1>3, Zenon DEF Before, SlipInv
<1>5. Driven' /\ OwnAddress' /\ OthersMoved' /\ HighMoved'
  BY <1>2, <1>4 DEF Driven, OwnAddress, OthersMoved, HighMoved
<1>6. \A a : Answering(a)' = Answering(a)
  BY <1>2, Zenon DEF Answering, Enabled
<1>7. Enabled = mux.high /\ mux.high \subseteq Sensor
  <2>1. mux.output /\ mux.follow
    BY <1>2, <1>4 DEF Driven
  <2> QED
    BY <1>1, <2>1, EnabledIsHigh, Zenon DEF TypeOK
<1>8. Answering(NewAddr(i)) \subseteq {i}
  BY <1>1, <1>4, <1>7 DEF Answering, OwnAddress, NewAddr
<1>9. AliveIsAlone'
  <2>1. ASSUME NEW s \in alive' PROVE Answering(NewAddr(s)) = {s}
    <3>1. CASE s \in alive
      BY <1>3, <1>4, <3>1, Zenon DEF AliveIsAlone
    <3>2. CASE s \notin alive
      <4>1. s = i /\ Answering(NewAddr(i)) # {}
        BY <1>3, <2>1, <3>2 DEF Found
      <4> QED
        BY <1>8, <4>1
    <3> QED
      BY <3>1, <3>2
  <2> QED
    BY <1>6, <2>1, Zenon DEF AliveIsAlone, NewAddr
<1>10. ASSUME clean' PROVE CleanTurn' /\ CleanEnd'
  <2>1. clean /\ CleanEnd /\ alive' = IF Found(i) # {} THEN alive \cup {i} ELSE alive
    BY <1>3, <1>4, <1>10, Zenon
  <2>2. /\ \A s \in Sensor : addr[s] # Default
        /\ mux.high = Sensor
        /\ \A s \in Sensor : s < i => s \in alive
    BY <1>2, <2>1 DEF CleanEnd, Moved
  <2>3. i \in Found(i)
    BY <1>1, <1>4, <1>7, <2>2 DEF Found, Answering, OwnAddress
  <2>4. alive' = alive \cup {i} /\ alive \subseteq Sensor
    BY <1>1, <2>1, <2>3 DEF TypeOK
  <2>5. CASE i < NumSensors /\ i' = i + 1 /\ pc' = pc
    <3>1. \A s \in Sensor : s < i + 1 => s \in alive'
      BY <1>1, <2>2, <2>4
    <3> QED
      BY <1>2, <2>2, <2>5, <3>1 DEF CleanTurn, CleanEnd, Turn, Moved
  <2>6. CASE ~(i < NumSensors) /\ pc' = "ranging"
    <3>1. \A s \in Sensor : s < i \/ s = i
      BY <1>1, <2>6 DEF Sensor
    <3>2. alive' = Sensor
      BY <1>1, <2>2, <2>4, <3>1
    <3> QED
      BY <1>2, <2>2, <2>6, <3>2 DEF CleanTurn, CleanEnd, Turn, Moved
  <2> QED
    BY <1>2, <2>5, <2>6
<1> QED
  BY <1>5, <1>9, <1>10 DEF Addressed

LEMMA RestartSlip == ASSUME Before, Restart PROVE Addressed'
<1>1. /\ pc' = "direction" /\ i' = 1 /\ alive' = {} /\ addr' = addr /\ LossesApart
  BY Zenon DEF Restart, bus, LossesApart, Before
<1>2. Driven' /\ OwnAddress' /\ OthersMoved' /\ HighMoved'
  BY <1>1 DEF Before, SlipInv, Driven, OwnAddress, OthersMoved, HighMoved
<1>3. CleanTurn' /\ CleanEnd' /\ AliveIsAlone'
  BY <1>1 DEF CleanTurn, CleanEnd, Turn, Moved, AliveIsAlone
<1> QED
  BY <1>2, <1>3 DEF Addressed

-----------------------------------------------------------------------------

LEMMA InitSlip == Init => SlipInv
<1> SUFFICES ASSUME Init PROVE SlipInv
  OBVIOUS
<1>1. NobodyYet /\ FirstTurn
  BY DEF Init, NobodyYet, FirstTurn
<1>2. Driven /\ OwnAddress /\ OthersMoved /\ HighMoved
  BY DEF Init, Driven, OwnAddress, OthersMoved, HighMoved
<1>3. CleanTurn /\ CleanEnd /\ AliveIsAlone
  BY DEF Init, CleanTurn, CleanEnd, Turn, Moved, AliveIsAlone
<1> QED
  BY <1>1, <1>2, <1>3, Zenon DEF SlipInv

LEMMA NextSlip == TypeOK /\ SlipInv /\ [Next]_vars => SlipInv'
<1> SUFFICES ASSUME TypeOK, SlipInv, [Next]_vars PROVE SlipInv'
  OBVIOUS
<1>1. NobodyYet' /\ FirstTurn'
  BY NextNobody DEF SlipInv
<1>2. ASSUME LossesApart' PROVE Addressed'
  <2>1. Before
    BY <1>2 DEF Before
  <2>2. CASE UNCHANGED vars
    <3>1. LossesApart
      BY <1>2, <2>2, Zenon DEF vars, ghosts, LossesApart
    <3>2. Addressed
      BY <3>1, Zenon DEF SlipInv, Addressed
    <3>3. UNCHANGED <<mux, addr, page, pc, i, alive, clean, lost>>
      BY <2>2, Zenon DEF vars, bus, thread, ghosts
    <3>4. Driven' /\ OwnAddress' /\ OthersMoved' /\ HighMoved'
      BY <3>2, <3>3 DEF Addressed, Driven, OwnAddress, OthersMoved, HighMoved
    <3>5. clean' => CleanTurn' /\ CleanEnd'
      BY <3>2, <3>3 DEF Addressed, CleanTurn, CleanEnd
    <3>6. AliveIsAlone'
      <4>1. \A a : Answering(a)' = Answering(a)
        BY <3>3, Zenon DEF Answering, Enabled
      <4>2. \A s \in alive : Answering(NewAddr(s)) = {s}
        BY <3>1, <3>2 DEF Addressed, AliveIsAlone
      <4>3. alive' = alive
        BY <3>3
      <4> QED
        BY <4>1, <4>2, <4>3, Zenon DEF AliveIsAlone, NewAddr
    <3> QED
      BY <3>4, <3>5, <3>6 DEF Addressed
  <2> QED
    BY <1>1, <2>1, <2>2, ExpanderSetUp, SelectSlip, PageZeroSlip, SetAddressSlip,
       PageTwoSlip, AllOnSlip, InitSensorSlip, RestartSlip, Zenon DEF Next
<1> QED
  BY <1>1, <1>2, Zenon DEF SlipInv, Addressed

LEMMA SlipAlways == Spec => [](TypeOK /\ SlipInv)
<1>1. TypeOK /\ SlipInv /\ [Next]_vars => (TypeOK /\ SlipInv)'
  BY NextType, NextSlip
<1> QED
  BY InitType, InitSlip, <1>1, PTL DEF Spec

\* With any number of sensors, starts and failed writes: if none of these was one that
\* makes the expander drive the pins, and no select was lost besides a low, page0 or
\* address, no sensor gets another one's address.
THEOREM OwnAddresses == Spec => []OwnAddressOrNone
<1>1. TypeOK /\ SlipInv => OwnAddressOrNone
  BY DEF SlipInv, OwnAddress, OwnAddressOrNone
<1> QED
  BY SlipAlways, <1>1, PTL

\* ... under the same condition a sensor that the thread takes for alive is alone at
\* its address ...
THEOREM AliveAlone == Spec => []AliveIsAlone
<1>1. TypeOK /\ SlipInv => AliveIsAlone
  BY Zenon DEF SlipInv, AliveIsAlone
<1> QED
  BY SlipAlways, <1>1, PTL

\* ... and a boot in which no write fails repairs what such failures of the earlier
\* ones have done: it finds every sensor.
THEOREM CleanBootRepairs == Spec => []CleanBootFindsAll
<1>1. TypeOK /\ SlipInv => CleanBootFindsAll
  BY DEF SlipInv, CleanEnd, CleanBootFindsAll
<1> QED
  BY SlipAlways, <1>1, PTL
=============================================================================
