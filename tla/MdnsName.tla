------------------------------ MODULE MdnsName ------------------------------
(***************************************************************************)
(* How boards on one network settle who is called lwlidar: the state       *)
(* machine of mdns_pcb.c, the collisions that mdns_receive.c detects in    *)
(* the A records of probes, announcements and answers, and the packets     *)
(* between the boards.  comms.c gives every board the same host name.      *)
(*                                                                         *)
(* A board has one IPv4 interface, no services, and its address decides    *)
(* every collision, so a host is its address.  One packet at a time is     *)
(* scheduled for sending, and its kind follows from the state: the queue   *)
(* is cleared whenever probing starts over.  Names are numbered in the     *)
(* order mangle_name goes through them: lwlidar, lwlidar-2, lwlidar-3.     *)
(***************************************************************************)
EXTENDS Naturals, Sequences

CONSTANTS
  N,          \* hosts
  None,       \* no host name yet
  Room,       \* bound: packets on their way to a host
  MaxLost,    \* bound: packets lost
  MaxFaults   \* bound: disconnections and restarts of boards

ASSUME MdnsNameAssumption ==
  /\ N \in Nat \ {0} /\ Room \in Nat \ {0}
  /\ MaxLost \in Nat /\ MaxFaults \in Nat
  /\ None \notin Nat

\* A host is the last byte of its address: memcmp orders hosts like numbers.
Hosts == 1 .. N
Names == 0 .. N - 1

States == {"off", "probe1", "probe2", "probe3", "announce1", "announce2", "announce3", "running"}
Probing == {"probe1", "probe2", "probe3"}    \* probe_running
AfterProbing == {"announce1", "announce2", "announce3", "running"}

VARIABLES
  state,     \* s_pcbs[..].state of each host
  hostname,  \* s_server->hostname of each host
  inbox,     \* packets on their way to each host, its receive actions included
  lost, faults

vars == <<state, hostname, inbox, lost, faults>>

\* src: the sender; its A record is the sender's address.  unicast: the questions
\* of a probe ask for an answer to the sender alone.
Packets == [kind : {"probe", "announce"}, src : Hosts, name : Nat, unicast : BOOLEAN]

Init ==
  /\ state = [h \in Hosts |-> "off"]
  /\ hostname = [h \in Hosts |-> None]
  /\ inbox = [h \in Hosts |-> <<>>]
  /\ lost = 0 /\ faults = 0

-----------------------------------------------------------------------------
(* The network: multicast to the other hosts that are on.                  *)

On(h) == state[h] # "off"

Post(box, p, to) ==
  [g \in Hosts |-> IF g \in to /\ On(g) THEN Append(box[g], p) ELSE box[g]]

\* Bound: the spacing of packets, 120 ms and more, outlasts their delivery but for
\* the last few.
Delivered == \A g \in Hosts : Len(inbox[g]) < Room

-----------------------------------------------------------------------------
(* The interface.                                                          *)

\* mdns_priv_init_pcb_probe: without a host name there is nothing to probe.
ProbeState(n) == IF n = None THEN "running" ELSE "probe1"

\* The board gets its address: mdns_priv_pcb_enable, which starts probing over
\* (restart_pcb, mdns_pcb.c:180) whatever was announced before.
Enable(h) ==
  /\ state[h] = "off"
  /\ state' = [state EXCEPT ![h] = ProbeState(hostname[h])]
  /\ UNCHANGED <<hostname, inbox, lost, faults>>

\* Mutant: the interface is not off when the network has gone (mdns_pcb.c:115 and 166), so
\* that it goes on where it was instead of probing again.
DisableForgets(h) ==
  /\ On(h) /\ hostname[h] # None /\ faults < MaxFaults
  /\ inbox' = [inbox EXCEPT ![h] = <<>>]
  /\ faults' = faults + 1
  /\ UNCHANGED <<state, hostname, lost>>

\* The network goes: mdns_priv_pcb_disable.  What was on its way is not received.
Disable(h) ==
  /\ On(h) /\ hostname[h] # None /\ faults < MaxFaults
  /\ state' = [state EXCEPT ![h] = "off"]
  /\ inbox' = [inbox EXCEPT ![h] = <<>>]
  /\ faults' = faults + 1
  /\ UNCHANGED <<hostname, lost>>

\* The board starts over.
Reboot(h) ==
  /\ On(h) /\ hostname[h] # None /\ faults < MaxFaults
  /\ state' = [state EXCEPT ![h] = "off"]
  /\ hostname' = [hostname EXCEPT ![h] = None]
  /\ inbox' = [inbox EXCEPT ![h] = <<>>]
  /\ faults' = faults + 1
  /\ UNCHANGED lost

\* mdns_hostname_set at comms.c:101, once after each start.
HostnameSet(h) ==
  /\ hostname[h] = None
  /\ On(h)
  /\ hostname' = [hostname EXCEPT ![h] = 0]
  /\ state' = [state EXCEPT ![h] = ProbeState(0)]
  /\ UNCHANGED <<inbox, lost, faults>>

-----------------------------------------------------------------------------
(* Sending.                                                                *)

\* Mutant: one probe is enough, and one announcement.
ScheduledOnce(s) == IF s = "probe1" THEN "announce3" ELSE "running"

\* mdns_priv_pcb_schedule_tx_packet, after the scheduled packet has gone out.
Scheduled(s) ==
  CASE s = "probe1" -> "probe2"
    [] s = "probe2" -> "probe3"
    [] s = "probe3" -> "announce1"
    [] s = "announce1" -> "announce2"
    [] s = "announce2" -> "announce3"
    [] OTHER -> "running"

ScheduledPacket(h) ==
  [kind |-> IF state[h] \in Probing THEN "probe" ELSE "announce", src |-> h,
   name |-> hostname[h], unicast |-> state[h] = "probe1"]

\* handle_packet.
Transmit(h) ==
  /\ state[h] \notin {"off", "running"}
  /\ Delivered
  /\ inbox' = Post(inbox, ScheduledPacket(h), Hosts \ {h})
  /\ state' = [state EXCEPT ![h] = Scheduled(state[h])]
  /\ UNCHANGED <<hostname, lost, faults>>

-----------------------------------------------------------------------------
(* Receiving.                                                              *)

IsOurs(h, p) == p.name = hostname[h]

\* Mutant: everybody gives way.
TheyWinAlways(h, p) == TRUE

\* check_a_collision: the higher address wins.
TheyWin(h, p) == p.src > h

\* Mutant: the number of the name goes up twice.
RenameTwice(h) ==
  /\ hostname' = [hostname EXCEPT ![h] = @ + 2]
  /\ state' = [state EXCEPT ![h] = "probe1"]

\* Mutant: probing starts over with the same name.
RenameForgets(h) ==
  /\ state' = [state EXCEPT ![h] = "probe1"]
  /\ UNCHANGED hostname

\* A collision while probing: another name, and probing starts over.
Rename(h) ==
  /\ hostname' = [hostname EXCEPT ![h] = @ + 1]
  /\ state' = [state EXCEPT ![h] = "probe1"]

\* Mutant: whoever has announced the name keeps it.
LoseKeeps(h) == IF state[h] \in Probing THEN Rename(h) ELSE UNCHANGED <<hostname, state>>

\* A collision: after probing the same name is probed again.
Lose(h) ==
  IF state[h] \in Probing THEN Rename(h)
  ELSE state' = [state EXCEPT ![h] = "probe1"] /\ UNCHANGED hostname

\* The answer to a probe for our name, from an address that gives way.
AnswerTo(h, p) == IF p.unicast THEN {p.src} ELSE Hosts \ {h}

Answer(h) == [kind |-> "announce", src |-> h, name |-> hostname[h], unicast |-> FALSE]

\* Mutant: probes are answered only by a host that is done announcing.
RepliesRunning(h, p) == p.kind = "probe" /\ state[h] = "running"

Replies(h, p) == p.kind = "probe" /\ state[h] \in AfterProbing

\* mdns_parse_packet.
Parse(h, p, box) ==
  IF IsOurs(h, p) /\ TheyWin(h, p)
    THEN Lose(h) /\ inbox' = box
    ELSE /\ inbox' = IF IsOurs(h, p) /\ Replies(h, p)
                       THEN Post(box, Answer(h), AnswerTo(h, p)) ELSE box
         /\ UNCHANGED <<state, hostname>>

Receive(h) ==
  /\ inbox[h] # <<>>
  /\ Parse(h, Head(inbox[h]), [inbox EXCEPT ![h] = Tail(@)])
  /\ UNCHANGED <<lost, faults>>

\* The network or a full action queue drops it.
Drop(h) ==
  /\ inbox[h] # <<>> /\ lost < MaxLost
  /\ inbox' = [inbox EXCEPT ![h] = Tail(@)]
  /\ lost' = lost + 1
  /\ UNCHANGED <<state, hostname, faults>>

Next ==
  \E h \in Hosts :
    Enable(h) \/ Disable(h) \/ Reboot(h) \/ HostnameSet(h) \/ Transmit(h) \/ Receive(h) \/ Drop(h)

Spec == Init /\ [][Next]_vars

\* Wi-Fi comes back, and comms_thread, the service task and the network go on.
FairSpec ==
  Spec /\ \A h \in Hosts : WF_vars(Enable(h)) /\ WF_vars(HostnameSet(h))
                           /\ WF_vars(Transmit(h)) /\ WF_vars(Receive(h))

-----------------------------------------------------------------------------
(* Properties.                                                             *)

\* The type invariant.
TypeOK ==
  /\ state \in [Hosts -> States]
  /\ hostname \in [Hosts -> Names \cup {None}]
  /\ inbox \in [Hosts -> Seq(Packets)]
  /\ lost \in 0 .. MaxLost /\ faults \in 0 .. MaxFaults

\* A host is renamed at most once for every host of a higher address: stale packets,
\* restarts and losses never push it further (mdns_receive.c:1190-1199).
Rank(h) == N - h

RankBoundsName ==
  /\ \A h \in Hosts : hostname[h] # None => hostname[h] <= Rank(h)
  /\ \A h \in Hosts : \A i \in DOMAIN inbox[h] : inbox[h][i].name <= Rank(inbox[h][i].src)

Settled(h) == state[h] = "running" /\ hostname[h] # None /\ inbox[h] = <<>>

\* While fewer than three packets have been lost, two hosts that are done and have nothing
\* left to read have different names, though each may have missed the other while it was
\* off: it probes again when it is back (mdns_pcb.c:180, mdns_receive.c:1184).
NamesDiffer ==
  lost < 3 =>
    \A g, h \in Hosts : g # h /\ Settled(g) /\ Settled(h) => hostname[g] # hostname[h]

\* Probing, colliding and answering come to an end.
Settles == <>[](\A h \in Hosts : Settled(h))
=============================================================================
