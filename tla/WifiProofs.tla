----------------------------- MODULE WifiProofs -----------------------------
(***************************************************************************)
(* For every number of retries, disconnects and addresses: the types of    *)
(* Wifi, that an idle station has been given up or has an event on its way *)
(* that will start it, that it is not given up early, and that a failure   *)
(* which networking_connect reports is one.                                *)
(***************************************************************************)
EXTENDS Wifi, FiniteSetTheorems, TLAPS

\* The events at which a callback starts an attempt.
Starting == {"sta_start", "disconnected"}

Places == 1 .. Len(events)

\* The station leaves its idle state by the event that is pending, so that there is
\* never more than one.
OneStarting ==
  /\ \A k, l \in Places : events[k] \in Starting /\ events[l] \in Starting => k = l
  /\ (\E k \in Places : events[k] \in Starting) => driver = "idle"
  /\ pc = "start" => driver = "off"

IdleWaits ==
  driver = "idle" => "fail" \in bits \/ \E k \in Places : events[k] \in Starting

\* What the callbacks have counted has happened since the station was last online,
\* unless the address of that time is still to be handled: it will reset the counter
\* before a later disconnect is.
CountedInStreak ==
  /\ (\E j \in Places : events[j] = "got_ip") \/ count <= streak
  /\ \A k \in Places : events[k] = "disconnected" =>
       /\ streak >= 1
       /\ \/ \E j \in Places : j < k /\ events[j] = "got_ip"
          \/ count + 1 <= streak

GivenUpReally == "fail" \in bits => drops > Retries

WInv == OneStarting /\ IdleWaits /\ CountedInStreak /\ GivenUpReally

-----------------------------------------------------------------------------
(* The event loop's queue.                                                 *)

\* The callbacks take the first event.
LEMMA Handled ==
  ASSUME events \in Seq(Events), NEW e, Head1(e)
  PROVE  /\ events' \in Seq(Events)
         /\ Len(events) \in Nat /\ Len(events) >= 1 /\ Len(events') = Len(events) - 1
         /\ events[1] = e
         /\ \A k \in Places' : k + 1 \in Places /\ events'[k] = events[k + 1]
         /\ \A k \in Places : k = 1 \/ (k - 1 \in Places' /\ events'[k - 1] = events[k])
<1>1. events # <<>> /\ events[1] = e /\ events' = Tail(events)
  BY DEF Head1
<1>2. /\ Len(events) \in Nat /\ Len(events) >= 1 /\ Tail(events) \in Seq(Events)
      /\ Len(Tail(events)) = Len(events) - 1
      /\ \A k \in 1 .. Len(events) - 1 : Tail(events)[k] = events[k + 1]
  BY <1>1
<1> QED
  BY <1>1, <1>2 DEF Places

\* The driver posts at the end.
LEMMA Posted ==
  ASSUME events \in Seq(Events), NEW e \in Events, events' = Append(events, e)
  PROVE  /\ events' \in Seq(Events)
         /\ Len(events) \in Nat /\ Len(events') = Len(events) + 1
         /\ events'[Len(events) + 1] = e
         /\ Places' = Places \cup {Len(events) + 1}
         /\ \A k \in Places : k \in Nat /\ k < Len(events) + 1 /\ events'[k] = events[k]
<1>1. /\ Len(events) \in Nat /\ events' \in Seq(Events) /\ Len(events') = Len(events) + 1
      /\ events'[Len(events) + 1] = e
      /\ \A k \in 1 .. Len(events) : events'[k] = events[k]
  OBVIOUS
<1> QED
  BY <1>1 DEF Places

-----------------------------------------------------------------------------
(* Types.                                                                  *)

LEMMA InitType == Init => TypeOK
<1> SUFFICES ASSUME Init PROVE TypeOK
  OBVIOUS
<1>1. dhcp \in BOOLEAN
  BY Zenon DEF Init
<1>2. result = "none" <=> pc # "returned"
  BY DEF Init
<1> QED
  BY <1>1, <1>2, WifiAssumption DEF Init, TypeOK

\* Setting a bit, which may wake the caller, keeps the caller's types.
LEMMA SetBitType ==
  ASSUME TypeOK, NEW b \in Bits, SetBit(b)
  PROVE  /\ bits' \subseteq Bits
         /\ pc' \in {"start", "started", "blocked", "returned"}
         /\ result' \in {"none", "ok", "fail"}
         /\ result' = "none" <=> pc' # "returned"
         /\ pc' = "start" => pc = "start"
  BY DEF TypeOK, SetBit, Verdict, caller

LEMMA NextType == TypeOK /\ [Next]_vars => TypeOK'
<1> SUFFICES ASSUME TypeOK, [Next]_vars PROVE TypeOK'
  OBVIOUS
<1> DEFINE CallerOK == /\ bits' \subseteq Bits
                       /\ pc' \in {"start", "started", "blocked", "returned"}
                       /\ result' \in {"none", "ok", "fail"}
                       /\ result' = "none" <=> pc' # "returned"
           StationOK == /\ driver' \in {"off", "idle", "trying", "joined", "online"}
                        /\ events' \in Seq(Events)
                        /\ count' \in 0 .. Retries
           CountsOK == /\ drops' \in 0 .. MaxDrops /\ ips' \in 0 .. MaxIPs
                       /\ streak' \in 0 .. drops'
<1>1. SUFFICES CallerOK /\ StationOK /\ CountsOK /\ dhcp' \in BOOLEAN
  BY Zenon DEF TypeOK
<1>2. /\ events \in Seq(Events) /\ count \in 0 .. Retries /\ dhcp \in BOOLEAN
      /\ driver \in {"off", "idle", "trying", "joined", "online"}
  BY Zenon DEF TypeOK
<1>3. CASE Start
  <2>1. StationOK
    BY <1>2, <1>3, Posted DEF Start, Events
  <2>2. CallerOK /\ CountsOK
    BY <1>3 DEF Start, ghosts, TypeOK
  <2>3. dhcp' \in BOOLEAN
    BY <1>2, <1>3, Zenon DEF Start
  <2> QED
    BY <2>1, <2>2, <2>3
<1>4. CASE WaitBits
  <2>1. StationOK /\ CallerOK /\ CountsOK
    BY <1>4 DEF WaitBits, Verdict, station, ghosts, TypeOK
  <2>2. dhcp' = dhcp
    BY <1>4 DEF WaitBits, station
  <2> QED
    BY <1>2, <2>1, <2>2, Zenon
<1>5. CASE OnStaStart
  <2>1. events' \in Seq(Events)
    BY <1>2, <1>5, Handled DEF OnStaStart
  <2>2. StationOK /\ CallerOK /\ CountsOK
    BY <1>2, <1>5, <2>1 DEF OnStaStart, Connect, caller, ghosts, TypeOK
  <2>3. dhcp' = dhcp
    BY <1>5 DEF OnStaStart
  <2> QED
    BY <1>2, <2>2, <2>3, Zenon
<1>6. CASE OnGotIp
  <2>1. events' \in Seq(Events)
    BY <1>2, <1>6, Handled DEF OnGotIp
  <2>2. CallerOK
    BY <1>6, SetBitType DEF OnGotIp, Bits
  <2>3. StationOK /\ CountsOK
    BY <1>2, <1>6, <2>1, WifiAssumption DEF OnGotIp, ResetCount, station, ghosts, TypeOK
  <2>4. dhcp' = dhcp
    BY <1>6 DEF OnGotIp, station
  <2> QED
    BY <1>2, <2>2, <2>3, <2>4, Zenon
<1>7. CASE OnDisconnected
  <2>1. events' \in Seq(Events)
    BY <1>2, <1>7, Handled DEF OnDisconnected
  <2>2. CallerOK
    <3>1. CASE Retry
      BY <3>1 DEF Retry, caller, TypeOK
    <3>2. CASE GiveUp
      BY <3>2, SetBitType DEF GiveUp, Bits
    <3> QED
      BY <1>7, <3>1, <3>2 DEF OnDisconnected
  <2>3. StationOK /\ CountsOK
    BY <1>2, <1>7, <2>1, WifiAssumption
    DEF OnDisconnected, Retry, GiveUp, Connect, ghosts, TypeOK
  <2>4. dhcp' = FALSE
    BY <1>7, Zenon DEF OnDisconnected
  <2> QED
    BY <2>2, <2>3, <2>4, Zenon
<1>8. CASE Joins
  <2>1. StationOK /\ CallerOK /\ CountsOK
    BY <1>2, <1>8 DEF Joins, caller, ghosts, TypeOK
  <2>2. dhcp' = TRUE
    BY <1>8, Zenon DEF Joins
  <2> QED
    BY <2>1, <2>2, Zenon
<1>9. CASE ObtainsIp
  <2>1. StationOK
    BY <1>2, <1>9, Posted DEF ObtainsIp, Events
  <2>2. CallerOK
    BY <1>9 DEF ObtainsIp, caller, TypeOK
  <2>3. CountsOK
    BY <1>9, WifiAssumption DEF ObtainsIp, TypeOK
  <2>4. dhcp' = FALSE
    BY <1>9, Zenon DEF ObtainsIp
  <2> QED
    BY <2>1, <2>2, <2>3, <2>4, Zenon
<1>10. CASE Drops
  <2>1. StationOK
    BY <1>2, <1>10, Posted DEF Drops, Events
  <2>2. CallerOK
    BY <1>10 DEF Drops, caller, TypeOK
  <2>3. CountsOK
    BY <1>10, WifiAssumption DEF Drops, TypeOK
  <2>4. dhcp' = dhcp
    BY <1>10 DEF Drops
  <2> QED
    BY <1>2, <2>1, <2>2, <2>3, <2>4, Zenon
<1>11. CASE UNCHANGED vars
  <2>1. StationOK /\ CallerOK /\ CountsOK
    BY <1>11 DEF vars, station, caller, ghosts, TypeOK
  <2>2. dhcp' = dhcp
    BY <1>11 DEF vars, station
  <2> QED
    BY <1>2, <2>1, <2>2, Zenon
<1> QED
  BY <1>3, <1>4, <1>5, <1>6, <1>7, <1>8, <1>9, <1>10, <1>11 DEF Next, Callbacks, Driver

\* The event group, the counter and the queue of events stay of their types however the
\* station comes and goes.
THEOREM TypeCorrect == Spec => []TypeOK
<1>1. TypeOK /\ [Next]_vars => TypeOK'
  BY NextType
<1> QED
  BY InitType, <1>1, PTL DEF Spec

-----------------------------------------------------------------------------
(* The retry counter against what has happened.                            *)

LEMMA InitWInv == Init => WInv
<1> SUFFICES ASSUME Init PROVE WInv
  OBVIOUS
<1>1. Places = {}
  BY DEF Init, Places
<1> QED
  BY <1>1 DEF Init, WInv, OneStarting, IdleWaits, CountedInStreak, GivenUpReally

\* Steps that leave the queue of events alone.
LEMMA QuietWInv ==
  ASSUME TypeOK, WInv, WaitBits \/ Joins \/ UNCHANGED vars
  PROVE  WInv'
<1>1. UNCHANGED <<events, count, bits, drops, streak>>
  BY DEF WaitBits, Joins, vars, station, caller, ghosts
<1>2. /\ driver' = driver \/ (driver = "trying" /\ driver' = "joined")
      /\ pc' = "start" => pc = "start"
  BY DEF WaitBits, Joins, vars, station, caller
<1>3. OneStarting' /\ IdleWaits'
  BY <1>1, <1>2 DEF WInv, OneStarting, IdleWaits, Places
<1>4. CountedInStreak' /\ GivenUpReally'
  BY <1>1 DEF WInv, CountedInStreak, GivenUpReally, Places
<1> QED
  BY <1>3, <1>4 DEF WInv

LEMMA StartWInv == ASSUME TypeOK, WInv, Start PROVE WInv'
<1>1. events \in Seq(Events) /\ count \in Nat /\ streak \in Nat
  BY WifiAssumption DEF TypeOK
<1>2. /\ events' = Append(events, "sta_start") /\ driver' = "idle" /\ pc' = "started"
      /\ UNCHANGED <<count, bits, drops, streak>>
  BY DEF Start, ghosts
<1>3. /\ Len(events) \in Nat /\ events'[Len(events) + 1] = "sta_start"
      /\ Places' = Places \cup {Len(events) + 1}
      /\ \A k \in Places : k \in Nat /\ k < Len(events) + 1 /\ events'[k] = events[k]
  BY <1>1, <1>2, Posted DEF Events
<1>4. \A k \in Places : events[k] \notin Starting
  BY DEF Start, WInv, OneStarting
<1>5. OneStarting' /\ IdleWaits'
  BY <1>2, <1>3, <1>4 DEF OneStarting, IdleWaits, Starting
<1>6. CountedInStreak'
  BY <1>2, <1>3, <1>4 DEF WInv, CountedInStreak, Starting
<1> QED
  BY <1>2, <1>5, <1>6 DEF WInv, GivenUpReally

LEMMA OnStaStartWInv == ASSUME TypeOK, WInv, OnStaStart PROVE WInv'
<1>1. events \in Seq(Events)
  BY DEF TypeOK
<1>2. /\ Len(events) >= 1 /\ events[1] = "sta_start" /\ 1 \in Places
      /\ \A k \in Places' : k + 1 \in Places /\ events'[k] = events[k + 1]
      /\ \A k \in Places : k = 1 \/ (k - 1 \in Places' /\ events'[k - 1] = events[k])
      /\ \A k \in Places' : k \in Nat /\ k # 0
  BY <1>1, Handled DEF OnStaStart, Places
<1>3. /\ driver = "idle" /\ driver' = "trying"
      /\ UNCHANGED <<count, bits, pc, drops, streak>>
  BY <1>2 DEF OnStaStart, Connect, WInv, OneStarting, Starting, caller, ghosts
<1>4. \A k \in Places' : events'[k] \notin Starting
  <2>1. \A k \in Places' : k + 1 # 1
    BY <1>2
  <2> QED
    BY <1>2, <2>1 DEF WInv, OneStarting, Starting
<1>5. OneStarting' /\ IdleWaits'
  BY <1>3, <1>4 DEF OneStarting, IdleWaits, WInv
<1>6. (\E j \in Places : events[j] = "got_ip") => \E j \in Places' : events'[j] = "got_ip"
  BY <1>2
<1>7. CountedInStreak'
  BY <1>3, <1>4, <1>6 DEF WInv, CountedInStreak, Starting
<1> QED
  BY <1>3, <1>5, <1>7 DEF WInv, GivenUpReally

LEMMA OnGotIpWInv == ASSUME TypeOK, WInv, OnGotIp PROVE WInv'
<1>1. events \in Seq(Events) /\ count \in Nat /\ streak \in Nat
  BY WifiAssumption DEF TypeOK
<1>2. /\ Len(events) >= 1 /\ events[1] = "got_ip" /\ 1 \in Places
      /\ \A k \in Places' : k + 1 \in Places /\ events'[k] = events[k + 1]
      /\ \A k \in Places : k = 1 \/ (k - 1 \in Places' /\ events'[k - 1] = events[k])
      /\ \A k \in Places' : k \in Nat
  BY <1>1, Handled DEF OnGotIp, Places
<1>3. /\ count' = 0 /\ bits' = bits \cup {"connected"}
      /\ driver' = driver /\ UNCHANGED <<drops, streak>>
      /\ pc' = "start" => pc = "start"
  BY DEF OnGotIp, ResetCount, SetBit, caller, station, ghosts
<1>4. OneStarting'
  <2>1. ASSUME NEW k \in Places', NEW l \in Places',
               events'[k] \in Starting, events'[l] \in Starting
        PROVE  k = l
    <3>1. k + 1 \in Places /\ l + 1 \in Places
      BY <1>2
    <3>2. events[k + 1] \in Starting /\ events[l + 1] \in Starting
      BY <1>2, <2>1
    <3>3. k + 1 = l + 1
      BY <3>1, <3>2 DEF WInv, OneStarting
    <3> QED
      BY <1>2, <3>3
  <2> QED
    BY <1>2, <1>3, <2>1 DEF WInv, OneStarting
<1>5. IdleWaits'
  BY <1>2, <1>3 DEF WInv, IdleWaits, Starting
<1>6. CountedInStreak'
  BY <1>1, <1>2, <1>3 DEF WInv, CountedInStreak
<1> QED
  BY <1>3, <1>4, <1>5, <1>6 DEF WInv, GivenUpReally

\* What a disconnect finds: the counter has not run ahead of what has happened.
LEMMA CounterBehind ==
  ASSUME TypeOK, WInv, OnDisconnected
  PROVE  /\ driver = "idle" /\ count + 1 <= streak /\ streak <= drops
         /\ \A k \in Places' : events'[k] \notin Starting
<1>1. events \in Seq(Events)
  BY DEF TypeOK
<1>2. /\ Len(events) >= 1 /\ events[1] = "disconnected" /\ 1 \in Places
      /\ \A k \in Places' : k + 1 \in Places /\ events'[k] = events[k + 1]
      /\ \A k \in Places' : k + 1 # 1
      /\ ~ \E j \in Places : j < 1
  BY <1>1, Handled DEF OnDisconnected, Places
<1>3. driver = "idle"
  BY <1>2 DEF WInv, OneStarting, Starting
<1>4. \A k \in Places' : events'[k] \notin Starting
  BY <1>2 DEF WInv, OneStarting, Starting
<1>5. count + 1 <= streak
  BY <1>2 DEF WInv, CountedInStreak
<1>6. streak <= drops
  BY WifiAssumption DEF TypeOK
<1> QED
  BY <1>3, <1>4, <1>5, <1>6

LEMMA OnDisconnectedWInv == ASSUME TypeOK, WInv, OnDisconnected PROVE WInv'
<1>1. /\ driver = "idle" /\ count + 1 <= streak /\ streak <= drops
      /\ \A k \in Places' : events'[k] \notin Starting
      /\ UNCHANGED <<drops, streak>>
  BY CounterBehind DEF OnDisconnected, ghosts
<1>2. count \in Nat /\ streak \in Nat /\ drops \in Nat /\ Retries \in Nat
  BY WifiAssumption DEF TypeOK
<1>3. CASE Retry
  <2>1. driver' = "trying" /\ count' = count + 1 /\ UNCHANGED <<bits, pc>>
    BY <1>1, <1>3 DEF Retry, Connect, caller
  <2>2. OneStarting' /\ IdleWaits'
    BY <1>1, <2>1 DEF WInv, OneStarting, IdleWaits
  <2>3. CountedInStreak'
    BY <1>1, <2>1 DEF CountedInStreak, Starting
  <2> QED
    BY <1>1, <2>1, <2>2, <2>3 DEF WInv, GivenUpReally
<1>4. CASE GiveUp
  <2>1. /\ count >= Retries /\ bits' = bits \cup {"fail"} /\ UNCHANGED <<driver, count>>
        /\ pc' = "start" => pc = "start"
    BY <1>4 DEF GiveUp, SetBit, caller
  <2>2. OneStarting' /\ IdleWaits'
    BY <1>1, <2>1 DEF WInv, OneStarting, IdleWaits
  <2>3. CountedInStreak'
    BY <1>1, <1>2, <2>1 DEF CountedInStreak, Starting
  <2>4. GivenUpReally'
    BY <1>1, <1>2, <2>1 DEF GivenUpReally
  <2> QED
    BY <2>2, <2>3, <2>4 DEF WInv
<1> QED
  BY <1>3, <1>4 DEF OnDisconnected

LEMMA ObtainsIpWInv == ASSUME TypeOK, WInv, ObtainsIp PROVE WInv'
<1>1. events \in Seq(Events) /\ count \in Nat /\ streak \in Nat
  BY WifiAssumption DEF TypeOK
<1>2. /\ events' = Append(events, "got_ip")
      /\ UNCHANGED <<count, bits, pc, drops>>
      /\ \/ driver = "joined" /\ driver' = "online"
         \/ driver' = driver /\ streak' = streak
  BY DEF ObtainsIp, caller
<1>3. /\ Len(events) \in Nat /\ events'[Len(events) + 1] = "got_ip"
      /\ Places' = Places \cup {Len(events) + 1}
      /\ \A k \in Places : k \in Nat /\ k < Len(events) + 1 /\ events'[k] = events[k]
  BY <1>1, <1>2, Posted DEF Events
<1>4. OneStarting' /\ IdleWaits'
  BY <1>2, <1>3 DEF WInv, OneStarting, IdleWaits, Starting
<1>5. CountedInStreak'
  <2>1. \E j \in Places' : events'[j] = "got_ip"
    BY <1>3
  <2>2. CASE driver = "joined"
    <3>1. \A k \in Places' : events'[k] # "disconnected"
      BY <1>3, <2>2 DEF WInv, OneStarting, Starting
    <3> QED
      BY <2>1, <3>1 DEF CountedInStreak
  <2>3. CASE driver' = driver /\ streak' = streak
    <3>1. ASSUME NEW k \in Places', events'[k] = "disconnected"
          PROVE  /\ streak' >= 1
                 /\ \/ \E j \in Places' : j < k /\ events'[j] = "got_ip"
                    \/ count' + 1 <= streak'
      <4>1. k \in Places /\ events[k] = "disconnected"
        BY <1>3, <3>1
      <4>2. /\ streak >= 1
            /\ \/ \E j \in Places : j < k /\ events[j] = "got_ip"
               \/ count + 1 <= streak
        BY <4>1 DEF WInv, CountedInStreak
      <4> QED
        BY <1>2, <1>3, <2>3, <4>2
    <3> QED
      BY <2>1, <3>1 DEF CountedInStreak
  <2> QED
    BY <1>2, <2>2, <2>3
<1> QED
  BY <1>2, <1>4, <1>5 DEF WInv, GivenUpReally

LEMMA DropsWInv == ASSUME TypeOK, WInv, Drops PROVE WInv'
<1>1. events \in Seq(Events) /\ count \in Nat /\ streak \in Nat /\ drops \in Nat
  BY WifiAssumption DEF TypeOK
<1>2. /\ events' = Append(events, "disconnected") /\ driver' = "idle" /\ driver # "idle"
      /\ driver # "off" /\ drops' = drops + 1 /\ streak' = streak + 1
      /\ UNCHANGED <<count, bits, pc>>
  BY DEF Drops, caller
<1>3. /\ Len(events) \in Nat /\ events'[Len(events) + 1] = "disconnected"
      /\ Places' = Places \cup {Len(events) + 1}
      /\ \A k \in Places : k \in Nat /\ k < Len(events) + 1 /\ events'[k] = events[k]
  BY <1>1, <1>2, Posted DEF Events
<1>4. \A k \in Places : events[k] \notin Starting
  BY <1>2 DEF WInv, OneStarting
<1>5. OneStarting' /\ IdleWaits'
  BY <1>2, <1>3, <1>4 DEF WInv, OneStarting, IdleWaits, Starting
<1>6. CountedInStreak'
  <2>1. (\E j \in Places : events[j] = "got_ip") \/ count <= streak
    BY DEF WInv, CountedInStreak
  <2>2. \/ \E j \in Places : j < Len(events) + 1 /\ events'[j] = "got_ip"
        \/ count + 1 <= streak'
    <3>1. CASE count <= streak
      BY <1>1, <1>2, <3>1
    <3>2. CASE \E j \in Places : events[j] = "got_ip"
      BY <1>3, <3>2
    <3> QED
      BY <2>1, <3>1, <3>2
  <2>3. (\E j \in Places' : events'[j] = "got_ip") \/ count' <= streak'
    <3>1. CASE count <= streak
      BY <1>1, <1>2, <3>1
    <3>2. CASE \E j \in Places : events[j] = "got_ip"
      BY <1>3, <3>2
    <3> QED
      BY <2>1, <3>1, <3>2
  <2>4. \A k \in Places' : events'[k] = "disconnected" => k = Len(events) + 1
    BY <1>3, <1>4 DEF Starting
  <2>5. streak' >= 1 /\ count' = count
    BY <1>1, <1>2
  <2> QED
    BY <1>3, <2>2, <2>3, <2>4, <2>5 DEF CountedInStreak
<1>7. GivenUpReally'
  BY <1>1, <1>2, WifiAssumption DEF WInv, GivenUpReally
<1> QED
  BY <1>5, <1>6, <1>7 DEF WInv

LEMMA NextWInv == TypeOK /\ WInv /\ [Next]_vars => WInv'
  BY QuietWInv, StartWInv, OnStaStartWInv, OnGotIpWInv, OnDisconnectedWInv,
     ObtainsIpWInv, DropsWInv DEF Next, Callbacks, Driver

LEMMA WInvAlways == Spec => [](TypeOK /\ WInv)
<1>1. TypeOK /\ WInv /\ [Next]_vars => (TypeOK /\ WInv)'
  BY NextType, NextWInv
<1> QED
  BY InitType, InitWInv, <1>1, PTL DEF Spec

-----------------------------------------------------------------------------

\* An idle station without a disconnect or a start on its way has been given up,
\* whatever addresses and disconnects overtook each other.
THEOREM IdleMeansGivenUp == Spec => []IdleOnlyGivenUp
<1>1. ASSUME TypeOK, WInv PROVE IdleOnlyGivenUp
  <2> DEFINE Of(e) == {k \in DOMAIN events : events[k] = e}
  <2>1. Len(events) \in Nat /\ DOMAIN events = 1 .. Len(events)
    BY <1>1 DEF TypeOK
  <2>2. IsFiniteSet(DOMAIN events)
    BY <2>1, FS_Interval
  <2>3. \A e : IsFiniteSet(Of(e))
    BY <2>2, FS_Subset
  <2>4. \A e : Pending(e) \in Nat /\ (Pending(e) = 0 => Of(e) = {})
    BY <2>3, FS_CardinalityType, FS_EmptySet DEF Pending
  <2>5. ASSUME Pending("disconnected") + Pending("sta_start") = 0
        PROVE  \A k \in Places : events[k] \notin Starting
    <3>1. Of("disconnected") = {} /\ Of("sta_start") = {}
      BY <2>4, <2>5
    <3> QED
      BY <2>1, <3>1 DEF Places, Starting
  <2> QED
    BY <1>1, <2>5 DEF WInv, IdleWaits, IdleOnlyGivenUp
<1> QED
  BY WInvAlways, <1>1, PTL

\* The station is given up only after more disconnects in a row than there are retries.
THEOREM NotGivenUpEarly == Spec => NoEarlyGiveUp
<1>1. ASSUME TypeOK, WInv, [Next]_vars, "fail" \notin bits, "fail" \in bits'
      PROVE  streak > Retries
  <2>1. OnDisconnected /\ GiveUp
    BY <1>1 DEF Next, Callbacks, Driver, Start, WaitBits, OnStaStart, OnGotIp, SetBit,
                OnDisconnected, Retry, Joins, ObtainsIp, Drops, vars
  <2>2. count + 1 <= streak /\ count >= Retries
    BY <1>1, <2>1, CounterBehind DEF GiveUp
  <2> QED
    BY <1>1, <2>2, WifiAssumption DEF TypeOK
<1>2. TypeOK /\ WInv /\ [Next]_vars
      => [("fail" \notin bits /\ "fail" \in bits') => streak > Retries]_vars
  BY <1>1
<1> QED
  BY WInvAlways, <1>2, PTL DEF Spec, NoEarlyGiveUp

\* networking_connect reports a failure only when there has been no address and all
\* attempts have been made.
THEOREM FailuresAreReal == Spec => FailureIsReal
<1>1. ASSUME TypeOK, WInv, [Next]_vars, result' # result, result' = "fail"
      PROVE  drops > Retries /\ "connected" \notin bits
  <2>1. CASE WaitBits
    BY <1>1, <2>1 DEF WaitBits, Verdict, TypeOK, Bits, WInv, GivenUpReally
  <2>2. CASE OnGotIp
    BY <1>1, <2>2 DEF OnGotIp, SetBit, Verdict, caller
  <2>3. CASE OnDisconnected
    <3>1. GiveUp
      BY <1>1, <2>3 DEF OnDisconnected, Retry, caller
    <3>2. count + 1 <= streak /\ count >= Retries /\ streak <= drops
      BY <1>1, <2>3, <3>1, CounterBehind DEF GiveUp
    <3>3. drops > Retries
      BY <1>1, <3>2, WifiAssumption DEF TypeOK
    <3>4. "connected" \notin bits
      BY <1>1, <3>1 DEF GiveUp, SetBit, Verdict, caller
    <3> QED
      BY <3>3, <3>4
  <2>4. CASE Start \/ OnStaStart \/ Driver \/ UNCHANGED vars
    BY <1>1, <2>4 DEF Start, OnStaStart, Driver, Joins, ObtainsIp, Drops, vars, caller
  <2> QED
    BY <1>1, <2>1, <2>2, <2>3, <2>4 DEF Next, Callbacks
<1>2. TypeOK /\ WInv /\ [Next]_vars
      => [result' # result /\ result' = "fail" =>
            drops > Retries /\ "connected" \notin bits]_vars
  BY <1>1
<1> QED
  BY WInvAlways, <1>2, PTL DEF Spec, FailureIsReal
=============================================================================
