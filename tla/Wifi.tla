-------------------------------- MODULE Wifi --------------------------------
(***************************************************************************)
(* networking.c: the two event callbacks with their retry counter, the     *)
(* event group, and networking_connect, which waits on it.  The Wi-Fi      *)
(* driver and the event loop that calls the callbacks, one event at a      *)
(* time and in the order of posting, are external.                         *)
(*                                                                         *)
(* Events the callbacks only log are left out.                             *)
(***************************************************************************)
EXTENDS Naturals, Sequences, FiniteSets

CONSTANTS
  Retries,    \* WIFI_RETRY_ATTEMPT, 3
  MaxDrops,   \* bound: attempts that fail and associations that end
  MaxIPs      \* bound: addresses the driver obtains

ASSUME WifiAssumption ==
  /\ Retries \in Nat
  /\ MaxDrops \in Nat
  /\ MaxIPs \in Nat

Events == {"sta_start", "disconnected", "got_ip"}
Bits   == {"connected", "fail"}       \* WIFI_CONNECTED_BIT, WIFI_FAIL_BIT

VARIABLES
  driver,      \* the station: "off", "idle", "trying", "joined" or "online"
  dhcp,        \* the request for an address is not answered and not stopped
  events,      \* posted and not yet handled, oldest first
  count,       \* wifi_retry_count
  bits,        \* s_wifi_event_group
  pc,          \* networking_connect: "start", "started", "blocked", "returned"
  result,      \* what it returned: "none", "ok", "fail"
  drops, ips,  \* bounds and ghosts: disconnects and addresses so far
  streak       \* ghost: disconnects since it was last online

caller == <<pc, result>>
ghosts == <<drops, ips, streak>>
station == <<driver, dhcp>>
vars   == <<station, events, count, bits, caller, ghosts>>

Init ==
  /\ driver = "off" /\ dhcp = FALSE /\ events = <<>>
  /\ count = 0 /\ bits = {}
  /\ pc = "start" /\ result = "none"
  /\ drops = 0 /\ ips = 0 /\ streak = 0

-----------------------------------------------------------------------------
(* networking_connect.                                                     *)

\* esp_wifi_start, after the configuration; the station posts its start.
Start ==
  /\ pc = "start"
  /\ pc' = "started"
  /\ driver' = "idle"
  /\ events' = Append(events, "sta_start")
  /\ UNCHANGED <<dhcp, count, bits, result, ghosts>>

\* Mutant: a failure outranks a success.
VerdictSwapped(b) == IF "fail" \in b THEN "fail" ELSE "ok"

\* A success outranks a failure (lines 171-177).
Verdict(b) == IF "connected" \in b THEN "ok" ELSE "fail"

\* xEventGroupWaitBits: it returns at once if a bit is set, else it blocks.
WaitBits ==
  /\ pc = "started"
  /\ IF bits = {}
       THEN pc' = "blocked" /\ UNCHANGED result
       ELSE pc' = "returned" /\ result' = Verdict(bits)
  /\ UNCHANGED <<station, events, count, bits, ghosts>>

-----------------------------------------------------------------------------
(* The callbacks, in the event loop's task.                                *)

Head1(e) == events # <<>> /\ Head(events) = e /\ events' = Tail(events)

\* xEventGroupSetBits: the bits are never cleared, and a blocked caller gets
\* their value of this moment.
SetBit(b) ==
  /\ bits' = bits \cup {b}
  /\ IF pc = "blocked"
       THEN pc' = "returned" /\ result' = Verdict(bits')
       ELSE UNCHANGED caller

\* esp_wifi_connect: an idle station starts an attempt.
Connect == driver' = IF driver = "idle" THEN "trying" ELSE driver

OnStaStart ==
  /\ Head1("sta_start")
  /\ Connect
  /\ UNCHANGED <<dhcp, count, bits, caller, ghosts>>

\* Mutant: the counter is left as it is.
KeepCount == UNCHANGED count

\* wifi_retry_count = 0.
ResetCount == count' = 0

OnGotIp ==
  /\ Head1("got_ip")
  /\ ResetCount
  /\ SetBit("connected")
  /\ UNCHANGED <<station, ghosts>>

\* Mutant: a retry is counted and not made.
RetryUnmade ==
  /\ count < Retries
  /\ count' = count + 1
  /\ UNCHANGED <<driver, bits, caller>>

\* Mutant: one retry too many.
RetryOffByOne ==
  /\ count <= Retries
  /\ Connect
  /\ count' = count + 1
  /\ UNCHANGED <<bits, caller>>

Retry ==
  /\ count < Retries
  /\ Connect
  /\ count' = count + 1
  /\ UNCHANGED <<bits, caller>>

\* Mutant: the caller is not told.
GiveUpSilently ==
  /\ count >= Retries
  /\ UNCHANGED <<driver, count, bits, caller>>

\* No attempt is made after this one, and none is ever made again.
GiveUp ==
  /\ count >= Retries
  /\ SetBit("fail")
  /\ UNCHANGED <<driver, count>>

OnDisconnected ==
  /\ Head1("disconnected")
  /\ Retry \/ GiveUp
  /\ dhcp' = FALSE
  /\ UNCHANGED ghosts

Callbacks == OnStaStart \/ OnGotIp \/ OnDisconnected

-----------------------------------------------------------------------------
(* The driver (external).                                                  *)

Joins ==
  /\ driver = "trying"
  /\ driver' = "joined" /\ dhcp' = TRUE
  /\ UNCHANGED <<events, count, bits, caller, ghosts>>

\* DHCP, or router advertisements: an address, IPv4 or IPv6.  It may still
\* come in when the station has just left, until the event loop's own handler
\* of the disconnect stops the request.
ObtainsIp ==
  /\ dhcp
  /\ ips < MaxIPs
  /\ driver' = IF driver = "joined" THEN "online" ELSE driver
  /\ streak' = IF driver = "joined" THEN 0 ELSE streak
  /\ dhcp' = FALSE
  /\ events' = Append(events, "got_ip")
  /\ ips' = ips + 1
  /\ UNCHANGED <<count, bits, caller, drops>>

\* An attempt fails, or the access point goes away.
Drops ==
  /\ driver \in {"trying", "joined", "online"}
  /\ drops < MaxDrops
  /\ driver' = "idle"
  /\ events' = Append(events, "disconnected")
  /\ drops' = drops + 1 /\ streak' = streak + 1
  /\ UNCHANGED <<dhcp, count, bits, caller, ips>>

Driver == Joins \/ ObtainsIp \/ Drops

Next == Start \/ WaitBits \/ Callbacks \/ Driver

Spec == Init /\ [][Next]_vars

\* The tasks are scheduled, and no attempt hangs: it ends in an address or in a
\* disconnect.
FairSpec == Spec /\ WF_vars(Start) /\ WF_vars(WaitBits) /\ WF_vars(Callbacks)
                 /\ WF_vars(Driver)

-----------------------------------------------------------------------------
(* Properties.                                                             *)

\* The type invariant.
TypeOK ==
  /\ driver \in {"off", "idle", "trying", "joined", "online"}
  /\ dhcp \in BOOLEAN
  /\ events \in Seq(Events)
  /\ count \in 0 .. Retries
  /\ bits \subseteq Bits
  /\ pc \in {"start", "started", "blocked", "returned"}
  /\ result \in {"none", "ok", "fail"}
  /\ result = "none" <=> pc # "returned"
  /\ drops \in 0 .. MaxDrops /\ ips \in 0 .. MaxIPs
  /\ streak \in 0 .. drops

Pending(e) == Cardinality({k \in DOMAIN events : events[k] = e})

\* The station stays idle only once it has been given up: while the failure bit
\* is clear, an idle station has an event on its way that will start an attempt
\* (networking.c:64, 76-83).
IdleOnlyGivenUp ==
  (driver = "idle" /\ Pending("disconnected") + Pending("sta_start") = 0) =>
    "fail" \in bits

\* The callbacks give the network up only after Retries + 1 disconnects in a row
\* without the station being online between them, however addresses and
\* disconnects queue up (networking.c:33, 76-83).
NoEarlyGiveUp ==
  [][ ("fail" \notin bits /\ "fail" \in bits') => streak > Retries ]_vars

\* networking_connect reports a failure only if no address had come by then, and
\* all its attempts have been made.
FailureIsReal ==
  [][ result' # result /\ result' = "fail" =>
        drops > Retries /\ "connected" \notin bits ]_vars

\* networking_connect returns.
ConnectReturns == pc = "started" ~> pc = "returned"

=============================================================================
