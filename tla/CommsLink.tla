----------------------------- MODULE CommsLink -----------------------------
(***************************************************************************)
(* comms.c: commsPost as the LIDAR and motion threads call it, the queue,  *)
(* and the thread that empties it into a TCP connection to the offloader,  *)
(* with the loop that (re)connects.  The network, the lwIP socket pool and *)
(* the reader at the far end are the environment.                          *)
(*                                                                         *)
(* A message is its number in the order of posting.                        *)
(***************************************************************************)
EXTENDS Naturals, Sequences, FiniteSets

CONSTANTS
  QueueLen,      \* 100 (comms.c:66)
  MaxSockets,    \* lwIP's socket pool, CONFIG_LWIP_MAX_SOCKETS
  MaxPosts,      \* bound: messages of a behaviour
  MaxRefusals,   \* bound: connects the offloader refuses
  MaxBreaks      \* bound: connections that break

ASSUME CommsAssumption ==
  /\ QueueLen \in Nat \ {0}
  /\ MaxSockets \in Nat \ {0}
  /\ MaxPosts \in Nat
  /\ MaxRefusals \in Nat
  /\ MaxBreaks \in Nat

None == 0                                   \* no message, no socket

VARIABLES
  queue,       \* comms_queue
  pc,          \* where comms_thread is
  rmsg,        \* the message it has taken off the queue, None otherwise
  sock,        \* its socket, None for -1
  sockets,     \* descriptors the pool has handed out; the code closes none
  link,        \* the connection of sock: "none", "up", or "dead" unnoticed
  wire,        \* messages sent and not yet received or lost
  posted, accepted, received, got,  \* ghosts: counts, and the last one received
  named,       \* the offloader's name can be resolved
  refusals, breaks   \* refused connects and broken connections so far

thread == <<pc, rmsg, sock, sockets>>
ghosts == <<posted, accepted, received, got>>
outside == <<named, refusals, breaks>>
vars   == <<queue, thread, link, wire, ghosts, outside>>

Messages == 1 .. MaxPosts

\* Everything accepted and still on its way, oldest first.
Held    == IF rmsg = None THEN <<>> ELSE <<rmsg>>
Transit == wire \o Held \o queue

Init ==
  /\ queue = <<>> /\ wire = <<>>
  /\ pc = "start" /\ rmsg = None /\ sock = None /\ sockets = 0
  /\ link = "none"
  /\ posted = 0 /\ accepted = 0 /\ received = 0 /\ got = 0
  /\ named \in BOOLEAN /\ refusals = 0 /\ breaks = 0

-----------------------------------------------------------------------------
(* The threads that post.                                                  *)

\* Mutant: a full queue makes room by throwing away its oldest message.
EnqueueOverwrite(m) ==
  IF Len(queue) < QueueLen
    THEN queue' = Append(queue, m) /\ accepted' = accepted + 1
    ELSE queue' = Append(Tail(queue), m) /\ accepted' = accepted + 1

\* Mutant: one message more than the queue has room for.
EnqueueOffByOne(m) ==
  IF Len(queue) <= QueueLen
    THEN queue' = Append(queue, m) /\ accepted' = accepted + 1
    ELSE UNCHANGED <<queue, accepted>>

\* xQueueSend with no ticks to wait: a full queue refuses the new message.
Enqueue(m) ==
  IF Len(queue) < QueueLen
    THEN queue' = Append(queue, m) /\ accepted' = accepted + 1
    ELSE UNCHANGED <<queue, accepted>>

\* commsPost; both callers ignore its result.
Post ==
  /\ posted < MaxPosts
  /\ posted' = posted + 1
  /\ Enqueue(posted + 1)
  /\ UNCHANGED <<thread, link, wire, received, got, outside>>

-----------------------------------------------------------------------------
(* comms_thread.                                                           *)

\* networking_init, networking_connect and the SNTP wait are over, whatever
\* came of them; messages have been queued meanwhile.
Start ==
  /\ pc = "start"
  /\ pc' = "mdns"
  /\ UNCHANGED <<queue, rmsg, sock, sockets, link, wire, ghosts, outside>>

\* The query loop ends when the offloader's name resolves; a query that fails
\* changes nothing, so for as long as nobody has the name the thread is here.
QueryMdns ==
  /\ pc = "mdns"
  /\ named
  /\ pc' = "socket"
  /\ UNCHANGED <<queue, rmsg, sock, sockets, link, wire, ghosts, outside>>

\* shutdown of the socket in use, if any, and socket() for a new one.  The old
\* descriptor is not closed, so it stays with the pool.
OpenSocket ==
  /\ pc = "socket"
  /\ link' = "none"
  /\ IF sockets < MaxSockets
       THEN sock' = sockets + 1 /\ sockets' = sockets + 1
       ELSE sock' = None /\ UNCHANGED sockets
  /\ pc' = "connect"
  /\ UNCHANGED <<queue, rmsg, wire, ghosts, outside>>

\* Mutant: conn_ok is not set (line 169 missing).
ConnectUnnoticed ==
  /\ sock # None
  /\ link' = "up"
  /\ pc' = "mdns"
  /\ UNCHANGED outside

\* connect() succeeds.
ConnectWorks ==
  /\ sock # None
  /\ link' = "up"
  /\ pc' = "receive"
  /\ UNCHANGED outside

\* It fails: no socket to connect, or the offloader refuses.
ConnectFails ==
  /\ \/ sock = None /\ UNCHANGED outside
     \/ /\ sock # None /\ refusals < MaxRefusals
        /\ refusals' = refusals + 1 /\ UNCHANGED <<named, breaks>>
  /\ pc' = "mdns"
  /\ UNCHANGED link

Connect ==
  /\ pc = "connect"
  /\ ConnectWorks \/ ConnectFails
  /\ UNCHANGED <<queue, rmsg, sock, sockets, wire, ghosts>>

\* Mutant: xQueuePeek in the place of xQueueReceive.
Peek == rmsg' = Head(queue) /\ UNCHANGED queue

\* xQueueReceive returns a message (a timeout changes nothing).
Dequeue == rmsg' = Head(queue) /\ queue' = Tail(queue)

Take ==
  /\ pc = "receive"
  /\ queue # <<>>
  /\ Dequeue
  /\ pc' = "send"
  /\ UNCHANGED <<sock, sockets, link, wire, ghosts, outside>>

\* Mutant: the message whose send failed is put back behind the others.
SendFailsRequeues ==
  /\ link = "dead"
  /\ pc' = "mdns"
  /\ queue' = Append(queue, rmsg)
  /\ UNCHANGED wire

\* send() hands the message to the stack; a connection that is dead without
\* the stack knowing swallows it.
SendWorks ==
  /\ wire' = IF link = "up" THEN Append(wire, rmsg) ELSE wire
  /\ pc' = "receive"
  /\ UNCHANGED queue

\* send() reports the dead connection: conn_ok is cleared, the message is gone.
SendFails ==
  /\ link = "dead"
  /\ pc' = "mdns"
  /\ UNCHANGED <<queue, wire>>

Send ==
  /\ pc = "send"
  /\ SendWorks \/ SendFails
  /\ rmsg' = None
  /\ UNCHANGED <<sock, sockets, link, ghosts, outside>>

Thread == Start \/ QueryMdns \/ OpenSocket \/ Connect \/ Take \/ Send

-----------------------------------------------------------------------------
(* The network and the reader (environment).                               *)

\* The connection breaks, with it the newer part of what was on the wire.
Break ==
  /\ link = "up"
  /\ breaks < MaxBreaks
  /\ breaks' = breaks + 1
  /\ link' = "dead"
  /\ \E k \in 0 .. Len(wire) : wire' = SubSeq(wire, 1, k)
  /\ UNCHANGED <<queue, thread, ghosts, named, refusals>>

\* The reader gets the next message; it reads a connection to its end before
\* it turns to the next one, so the wire is one sequence.
Deliver ==
  /\ wire # <<>>
  /\ got' = Head(wire)
  /\ wire' = Tail(wire)
  /\ received' = received + 1
  /\ UNCHANGED <<queue, thread, link, posted, accepted, outside>>

\* The offloader's process comes or goes, and its name with it.
ComeOrGo ==
  /\ named' \in BOOLEAN \ {named}
  /\ UNCHANGED <<queue, thread, link, wire, ghosts, refusals, breaks>>

Next == Post \/ Thread \/ Break \/ Deliver \/ ComeOrGo

Spec == Init /\ [][Next]_vars

\* The scheduler runs the thread and what is on a wire arrives.  Nothing has to be
\* posted, and nothing is asked of the name.
FairSpec == Spec /\ WF_vars(Thread) /\ WF_vars(Deliver)

-----------------------------------------------------------------------------
(* Properties.                                                             *)

\* The type invariant: the queue's bound, the thread's position and the message
\* it holds, the pool and the ghosts.
TypeOK ==
  /\ queue \in Seq(Messages) /\ Len(queue) <= QueueLen
  /\ pc \in {"start", "mdns", "socket", "connect", "receive", "send"}
  /\ rmsg \in Messages \cup {None}
  /\ rmsg # None <=> pc = "send"
  /\ sock \in 0 .. MaxSockets
  /\ sockets \in 0 .. MaxSockets
  /\ link \in {"none", "up", "dead"}
  /\ wire \in Seq(Messages)
  /\ posted \in 0 .. MaxPosts
  /\ accepted \in 0 .. posted
  /\ received \in Nat
  /\ got \in 0 .. MaxPosts
  /\ refusals \in 0 .. MaxRefusals
  /\ breaks \in 0 .. MaxBreaks
  /\ named \in BOOLEAN

\* Whatever breaks, what is on its way is in the order of posting and newer than
\* everything the reader has: nothing arrives twice or late (comms.c:172-259
\* with the reconnect loop before it).
InOrder ==
  /\ \A i, j \in 1 .. Len(Transit) : i < j => Transit[i] < Transit[j]
  /\ \A i \in 1 .. Len(Transit) : got < Transit[i] /\ Transit[i] <= posted

\* InOrder, told of the wire, the thread's message and the queue one by one.
Ascending(s)    == \A i, j \in 1 .. Len(s) : i < j => s[i] < s[j]
Between(a, s, b) == \A i \in 1 .. Len(s) : a < s[i] /\ s[i] <= b
InOrderByParts ==
  /\ Ascending(wire) /\ Ascending(queue)
  /\ got <= posted
  /\ Between(got, wire, posted) /\ Between(got, queue, posted)
  /\ \A i \in 1 .. Len(wire), j \in 1 .. Len(queue) : wire[i] < queue[j]
  /\ rmsg # None => /\ got < rmsg /\ rmsg <= posted
                    /\ \A i \in 1 .. Len(wire) : wire[i] < rmsg
                    /\ \A j \in 1 .. Len(queue) : rmsg < queue[j]

\* Until a connection breaks nothing that commsPost accepted is missing: it has
\* been received or is on its way, however many connects are refused.
NoLossWhileUp ==
  breaks = 0 => accepted = received + Len(Transit)

\* The queue, the thread, the wire and the reader implement the channel, the
\* messages on their way being those of Transit.
Elements(s) == {s[i] : i \in 1 .. Len(s)}
Channel == INSTANCE TelemetryChannel WITH transit <- Elements(Transit)
ImplementsChannel == Channel!ChanSpec

\* socket() has failed: the thread gives no descriptor back (comms.c:143-157), and
\* as many connects or connections as the pool has sockets have failed before.
Exhausted ==
  /\ pc = "connect" /\ sock = None
  /\ refusals + breaks >= MaxSockets

\* If the name can be resolved from some point on, the thread that has lost its
\* connection gets another, however the failures fall (comms.c:127-171), unless
\* failures have used up its sockets: nothing else stands in its way.
Reconnects == <>[]named => (pc = "mdns" ~> pc = "receive" \/ Exhausted)

\* Under the same condition every message the queue accepted leaves it, unless
\* failures have used up the sockets: nothing else keeps a full queue full.
Drains ==
  <>[]named =>
    \A m \in Messages :
      (\E i \in 1 .. Len(queue) : queue[i] = m) ~>
        (Exhausted \/ \A i \in 1 .. Len(queue) : queue[i] # m)

=============================================================================
