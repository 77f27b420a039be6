----------------------------- MODULE SensorBus -----------------------------
(***************************************************************************)
(* thesis.c, init_all: the GPIO expander ("mux") that drives the sensors'  *)
(* LPn pins, and the sensors' move from the address they all have at       *)
(* power-on to one each.  Every write on the bus may fail, and no error is *)
(* looked at.  The board may restart at any point, which resets neither    *)
(* the expander nor the sensors.                                           *)
(*                                                                         *)
(* The expander and the sensors are external.  A sensor whose LPn is low   *)
(* does not hear the bus and keeps its registers.                          *)
(***************************************************************************)
EXTENDS Naturals, FiniteSets

CONSTANTS
  NumSensors,   \* 8
  PulledUp,     \* LPn is high while the expander does not drive it
  MaxFaults,    \* bound: writes that fail
  MaxBoots      \* bound: starts of the board after the sensors' power-on

ASSUME BusAssumption ==
  /\ NumSensors \in Nat \ {0}
  /\ PulledUp \in BOOLEAN
  /\ MaxFaults \in Nat
  /\ MaxBoots \in Nat \ {0}

Sensor == 1 .. NumSensors

Default    == 0               \* VL53_DEFAULT_ADDR
NewAddr(i) == i               \* VL53_<i>_NEW_ADDR: all different
Address    == {Default} \cup {NewAddr(i) : i \in Sensor}
Page       == {0, 2}          \* what register 0x7fff selects; 2: not page 0

\* The writes of mux_init, of each sensor's turn, and of the end, in order.
Steps == {"direction", "follow", "low",
          "select", "page0", "address", "page2",
          "all_on", "init_sensor", "ranging"}

VARIABLES
  mux,      \* the expander: all pins outputs?, all following 0x05?, pins high
  addr,     \* [Sensor -> Address]
  page,     \* [Sensor -> Page]
  pc, i,    \* the next write, and the sensor whose turn it is
  alive,    \* sensors init_sensor found alive in this boot
  boots,    \* starts so far
  faults,   \* ghost: writes that failed, over all boots
  lost,     \* ghost: the steps they were of
  clean     \* ghost: none of them in this boot

bus    == <<mux, addr, page>>
thread == <<pc, i, alive, boots>>
ghosts == <<faults, lost, clean>>
vars   == <<bus, thread, ghosts>>

\* The sensors that hear the bus.
Enabled ==
  IF mux.output /\ mux.follow THEN mux.high
  ELSE IF PulledUp THEN Sensor ELSE {}

Answering(a) == {s \in Enabled : addr[s] = a}

\* Power-on of the expander (inputs, high impedance) and of the sensors.
Init ==
  /\ mux = [output |-> FALSE, follow |-> FALSE, high |-> {}]
  /\ addr = [s \in Sensor |-> Default]
  /\ page \in {[s \in Sensor |-> p] : p \in Page}
  /\ pc = "direction" /\ i = 1 /\ alive = {} /\ boots = 1
  /\ faults = 0 /\ lost = {} /\ clean = TRUE

-----------------------------------------------------------------------------

\* A write that would make the registers m, a and p: it happens, or it fails
\* and thesis.c goes on as if it had not.
Transmit(m, a, p) ==
  \/ mux' = m /\ addr' = a /\ page' = p /\ UNCHANGED ghosts
  \/ /\ faults < MaxFaults
     /\ faults' = faults + 1 /\ lost' = lost \cup {pc} /\ clean' = FALSE
     /\ UNCHANGED bus

MuxWrite(m)  == Transmit(m, addr, page)
SetPages(S, p) == [s \in Sensor |-> IF s \in S THEN p ELSE page[s]]

Goto(next) == pc' = next /\ UNCHANGED <<i, alive, boots>>

MuxInitDirection ==
  /\ pc = "direction"
  /\ MuxWrite([mux EXCEPT !.output = TRUE])
  /\ Goto("follow")

MuxInitFollow ==
  /\ pc = "follow"
  /\ MuxWrite([mux EXCEPT !.follow = TRUE])
  /\ Goto("low")

MuxInitLow ==
  /\ pc = "low"
  /\ MuxWrite([mux EXCEPT !.high = {}])
  /\ Goto("select")

\* Mutant: the mask of line 104, which leaves the earlier sensors on.
MaskCumulative(n) == 1 .. n

\* Mutant: the table is read one place further on.
MaskShifted(n) == {n + 1}

\* mux_lut.
Mask(n) == {n}

\* mux_set(mux_lut[i]).
Select ==
  /\ pc = "select"
  /\ MuxWrite([mux EXCEPT !.high = Mask(i)])
  /\ Goto("page0")

\* Mutant: the page is left as it is.
PageZeroKept(S) == page

\* Page 0 for the sensors of S.
PageZero(S) == SetPages(S, 0)

\* 0x7fff := 0 at the default address: every sensor that answers there obeys.
SelectPage0 ==
  /\ pc = "page0"
  /\ Transmit(mux, addr, PageZero(Answering(Default)))
  /\ Goto("address")

\* Register 4 is the address on page 0 only.
MoveTo(a) ==
  [s \in Sensor |->
     IF s \in Answering(Default) /\ page[s] = 0 THEN a ELSE addr[s]]

SetAddress ==
  /\ pc = "address"
  /\ Transmit(mux, MoveTo(NewAddr(i)), page)
  /\ Goto("page2")

\* The device has been removed and added again with its new address, so this
\* write goes there.
SelectPage2 ==
  /\ pc = "page2"
  /\ Transmit(mux, addr, SetPages(Answering(NewAddr(i)), 2))
  /\ IF i < NumSensors
       THEN pc' = "select" /\ i' = i + 1
       ELSE pc' = "all_on" /\ i' = 1
  /\ UNCHANGED <<alive, boots>>

\* mux_set(0b11111111).
AllOn ==
  /\ pc = "all_on"
  /\ MuxWrite([mux EXCEPT !.high = Sensor])
  /\ Goto("init_sensor")

\* Mutant: is_alive takes whatever answers at the default address.
FoundAtDefault(n) == Answering(NewAddr(n)) \cup Answering(Default)

\* Who answers is_alive of sensor n.
Found(n) == Answering(NewAddr(n))

\* init_sensor's is_alive reads the identification bytes at the new address,
\* the same of all sensors.  Any failing transfer counts as not alive.
InitSensor ==
  /\ pc = "init_sensor"
  /\ \/ /\ alive' = IF Found(i) # {} THEN alive \cup {i} ELSE alive
        /\ UNCHANGED ghosts
     \/ /\ faults < MaxFaults
        /\ faults' = faults + 1 /\ lost' = lost \cup {pc} /\ clean' = FALSE
        /\ UNCHANGED alive
  /\ page' = SetPages(Answering(NewAddr(i)), 2)
  /\ IF i < NumSensors
       THEN i' = i + 1 /\ UNCHANGED pc
       ELSE i' = 1 /\ pc' = "ranging"
  /\ UNCHANGED <<mux, addr, boots>>

\* The board restarts, by panic or by hand; the sensors keep their power.
Restart ==
  /\ boots < MaxBoots
  /\ boots' = boots + 1
  /\ pc' = "direction" /\ i' = 1 /\ alive' = {} /\ clean' = TRUE
  /\ UNCHANGED <<bus, faults, lost>>

Next ==
  \/ MuxInitDirection \/ MuxInitFollow \/ MuxInitLow
  \/ Select \/ SelectPage0 \/ SetAddress \/ SelectPage2
  \/ AllOn \/ InitSensor \/ Restart

Spec == Init /\ [][Next]_vars

-----------------------------------------------------------------------------
(* Properties.                                                             *)

\* The type invariant.
TypeOK ==
  /\ mux \in [output : BOOLEAN, follow : BOOLEAN, high : SUBSET Sensor]
  /\ addr \in [Sensor -> Address]
  /\ page \in [Sensor -> Page]
  /\ pc \in Steps /\ i \in Sensor
  /\ alive \subseteq Sensor
  /\ boots \in 1 .. MaxBoots
  /\ faults \in 0 .. MaxFaults
  /\ lost \subseteq Steps
  /\ clean \in BOOLEAN

\* Any number of writes has failed, over all boots, but none that makes the
\* expander drive the pins; and if one was a select, which leaves the pins as they
\* are, then none was one that leaves a sensor at the default address (page0,
\* address) or the pins of an earlier boot high (low).
LossesApart ==
  /\ lost \cap {"direction", "follow"} = {}
  /\ "select" \in lost => lost \cap {"low", "page0", "address"} = {}

\* Such failures, in whichever boots and wherever the board restarts, never give a
\* sensor another one's address (thesis.c:106-126).
OwnAddressOrNone ==
  LossesApart => \A s \in Sensor : addr[s] \in {Default, NewAddr(s)}

\* After such failures the thread takes a sensor for alive only if that sensor,
\* alone, answers at its address (thesis.c:161): frame s is then one of sensor s.
AliveIsAlone ==
  LossesApart => \A s \in alive : Answering(NewAddr(s)) = {s}

\* After such failures a boot without a failing write ends with every sensor found,
\* whether the boots before it were cut short or left sensors behind.
CleanBootFindsAll ==
  (LossesApart /\ clean /\ pc = "ranging") => alive = Sensor

\* Thesis.c:243 says of the mux_set after the move: "This should be fine as the
\* sensors are now on different addresses".
DifferentAddresses ==
  pc \in {"all_on", "init_sensor", "ranging"} =>
    \A s, t \in Sensor : s # t => addr[s] # addr[t]

=============================================================================
