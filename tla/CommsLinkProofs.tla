-------------------------- MODULE CommsLinkProofs --------------------------
(***************************************************************************)
(* For every queue length, socket pool and number of messages, refusals    *)
(* and breaks: the types of CommsLink, that its messages stay in the order *)
(* of posting from the queue to the reader, what it implements, and that   *)
(* the same is true against the server that really answers, however often  *)
(* its operator stops it.                                                  *)
(***************************************************************************)
EXTENDS TelemetryPath, TLAPS

\* The tail of a sequence that is not empty: its length and its elements.
LEMMA TailOfSeq ==
  ASSUME NEW S, NEW s \in Seq(S), s # <<>>
  PROVE  /\ Tail(s) \in Seq(S)
         /\ Head(s) \in S
         /\ Head(s) = s[1]
         /\ Len(s) > 0
         /\ Len(Tail(s)) = Len(s) - 1
         /\ \A i \in 1 .. Len(Tail(s)) : Tail(s)[i] = s[i + 1]
  OBVIOUS

\* A sequence with one element more.
LEMMA AppendToSeq ==
  ASSUME NEW S, NEW s \in Seq(S), NEW e \in S
  PROVE  /\ Append(s, e) \in Seq(S)
         /\ Len(Append(s, e)) = Len(s) + 1
         /\ Append(s, e)[Len(s) + 1] = e
         /\ \A i \in 1 .. Len(s) : Append(s, e)[i] = s[i]
  OBVIOUS

\* The prefix that a break leaves of the wire.
LEMMA PrefixOfSeq ==
  ASSUME NEW S, NEW s \in Seq(S), NEW k \in 0 .. Len(s)
  PROVE  /\ SubSeq(s, 1, k) \in Seq(S)
         /\ Len(SubSeq(s, 1, k)) = k
         /\ \A i \in 1 .. k : SubSeq(s, 1, k)[i] = s[i]
  OBVIOUS

\* The elements of a sequence of messages are numbers.
LEMMA ElementsAreNat ==
  ASSUME NEW s \in Seq(Messages)
  PROVE  Len(s) \in Nat /\ \A i \in 1 .. Len(s) : s[i] \in Nat
<1>1. \A i \in 1 .. Len(s) : s[i] \in Messages
  OBVIOUS
<1>2. \A m \in Messages : m \in Nat
  BY CommsAssumption DEF Messages
<1>3. Len(s) \in Nat
  OBVIOUS
<1> QED
  BY <1>1, <1>2, <1>3

-----------------------------------------------------------------------------
(* Types.                                                                  *)

\* The type invariant of CommsLink holds initially.
LEMMA InitType == Init => TypeOK
  BY CommsAssumption DEF Init, TypeOK, None

\* Every step of a poster, the thread, the network or the reader keeps it.
LEMMA NextType == TypeOK /\ [Next]_vars => TypeOK'
<1> SUFFICES ASSUME TypeOK, [Next]_vars PROVE TypeOK'
  OBVIOUS
<1>1. CASE Post
  <2>1. posted + 1 \in Messages /\ posted' \in 0 .. MaxPosts /\ posted' = posted + 1
    BY <1>1, CommsAssumption DEF Post, TypeOK, Messages
  <2>2. queue' \in Seq(Messages) /\ Len(queue') <= QueueLen
    <3>1. CASE Len(queue) < QueueLen
      BY <1>1, <2>1, <3>1, AppendToSeq, CommsAssumption DEF Post, Enqueue, TypeOK
    <3>2. CASE ~(Len(queue) < QueueLen)
      BY <1>1, <3>2 DEF Post, Enqueue, TypeOK
    <3> QED
      BY <3>1, <3>2
  <2>3. accepted' \in 0 .. posted'
    <3>1. accepted' \in {accepted, accepted + 1}
      BY <1>1 DEF Post, Enqueue
    <3> QED
      BY <2>1, <3>1 DEF TypeOK
  <2> QED
    BY <1>1, <2>1, <2>2, <2>3 DEF Post, TypeOK, thread, outside
<1>2. CASE Start \/ QueryMdns
  BY <1>2 DEF Start, QueryMdns, TypeOK, ghosts, outside
<1>3. CASE OpenSocket
  <2>1. sock' \in 0 .. MaxSockets /\ sockets' \in 0 .. MaxSockets
    BY <1>3, CommsAssumption DEF OpenSocket, TypeOK, None
  <2> QED
    BY <1>3, <2>1 DEF OpenSocket, TypeOK, ghosts, outside
<1>4. CASE Connect
  <2>1. /\ refusals' \in 0 .. MaxRefusals /\ breaks' \in 0 .. MaxBreaks
        /\ named' = named
    BY <1>4, CommsAssumption
    DEF Connect, ConnectWorks, ConnectFails, TypeOK, outside
  <2>2. pc = "connect" /\ pc' \in {"receive", "mdns"} /\ link' \in {"none", "up", "dead"}
    BY <1>4 DEF Connect, ConnectWorks, ConnectFails, TypeOK
  <2> QED
    BY <1>4, <2>1, <2>2 DEF Connect, TypeOK, ghosts
<1>5. CASE Take
  <2>1. /\ queue' \in Seq(Messages) /\ Len(queue') <= QueueLen
        /\ rmsg' \in Messages /\ rmsg' # None
    BY <1>5, TailOfSeq, CommsAssumption DEF Take, Dequeue, TypeOK, Messages, None
  <2> QED
    BY <1>5, <2>1 DEF Take, TypeOK, ghosts, outside
<1>6. CASE Send
  <2>1. rmsg \in Messages
    BY <1>6 DEF Send, TypeOK
  <2>2. wire' \in Seq(Messages) /\ UNCHANGED queue
    BY <1>6, <2>1, AppendToSeq DEF Send, SendWorks, SendFails, TypeOK
  <2>3. pc = "send" /\ pc' \in {"receive", "mdns"} /\ rmsg' = None
    BY <1>6 DEF Send, SendWorks, SendFails
  <2> QED
    BY <1>6, <2>2, <2>3 DEF Send, TypeOK, ghosts, outside
<1>7. CASE Break
  <2>1. wire' \in Seq(Messages)
    BY <1>7, PrefixOfSeq DEF Break, TypeOK
  <2>2. breaks' \in 0 .. MaxBreaks
    BY <1>7, CommsAssumption DEF Break, TypeOK
  <2> QED
    BY <1>7, <2>1, <2>2 DEF Break, TypeOK, thread, ghosts
<1>8. CASE Deliver
  <2>1. wire' \in Seq(Messages) /\ got' \in Messages
    BY <1>8, TailOfSeq DEF Deliver, TypeOK
  <2>2. got' \in 0 .. MaxPosts /\ received' \in Nat
    BY <1>8, <2>1, CommsAssumption DEF Deliver, TypeOK, Messages
  <2> QED
    BY <1>8, <2>1, <2>2 DEF Deliver, TypeOK, thread, outside
<1>9. CASE ComeOrGo
  BY <1>9 DEF ComeOrGo, TypeOK, thread, ghosts
<1>10. CASE UNCHANGED vars
  BY <1>10 DEF TypeOK, vars, thread, ghosts, outside
<1> QED
  BY <1>1, <1>2, <1>3, <1>4, <1>5, <1>6, <1>7, <1>8, <1>9, <1>10 DEF Next, Thread

\* The queue never exceeds its length, the pool its size, and the thread holds a
\* message exactly while it is about to send it.
THEOREM TypeCorrect == Spec => []TypeOK
<1>1. Init => TypeOK
  BY InitType
<1>2. TypeOK /\ [Next]_vars => TypeOK'
  BY NextType
<1> QED
  BY <1>1, <1>2, PTL DEF Spec

-----------------------------------------------------------------------------
(* Order.                                                                  *)

\* Nothing is on its way at the start.
LEMMA InitOrder == Init => InOrderByParts
  BY DEF Init, InOrderByParts, Ascending, Between, None

\* A message that is posted is newer than all others.
LEMMA PostOrder ==
  ASSUME TypeOK, InOrderByParts, Post PROVE InOrderByParts'
<1>1. /\ posted \in Nat /\ posted' = posted + 1
      /\ UNCHANGED <<wire, rmsg, got>>
      /\ posted + 1 \in Messages
  BY CommsAssumption DEF Post, thread, TypeOK, Messages
<1>2. CASE UNCHANGED queue
  <2>1. \A i \in 1 .. Len(wire) : wire[i] \in Nat
    BY ElementsAreNat DEF TypeOK
  <2>2. \A i \in 1 .. Len(queue) : queue[i] \in Nat
    BY ElementsAreNat DEF TypeOK
  <2>3. rmsg \in Nat /\ got \in Nat
    BY DEF TypeOK, Messages, None
  <2> QED
    BY <1>1, <1>2, <2>1, <2>2, <2>3 DEF InOrderByParts, Ascending, Between
<1>3. CASE queue' = Append(queue, posted + 1)
  <2>1. /\ Len(queue') = Len(queue) + 1 /\ Len(queue) \in Nat
        /\ queue'[Len(queue) + 1] = posted + 1
        /\ \A i \in 1 .. Len(queue) : queue'[i] = queue[i]
    BY <1>1, <1>3, AppendToSeq DEF TypeOK
  <2>2. \A i \in 1 .. Len(wire) : wire[i] \in Nat
    BY ElementsAreNat DEF TypeOK
  <2>3. \A i \in 1 .. Len(queue) : queue[i] \in Nat
    BY ElementsAreNat DEF TypeOK
  <2>4. rmsg \in Nat /\ got \in Nat
    BY DEF TypeOK, Messages, None
  <2>5. Ascending(queue)'
    <3> SUFFICES ASSUME NEW i \in 1 .. Len(queue'), NEW j \in 1 .. Len(queue'), i < j
                 PROVE  queue'[i] < queue'[j]
      BY DEF Ascending
    <3>1. i \in 1 .. Len(queue) /\ (j \in 1 .. Len(queue) \/ j = Len(queue) + 1)
      BY <2>1
    <3> QED
      BY <1>1, <2>1, <2>3, <3>1 DEF InOrderByParts, Ascending, Between
  <2>6. Between(got, queue, posted)'
    BY <1>1, <2>1, <2>3, <2>4 DEF InOrderByParts, Between
  <2>7. Between(got, wire, posted)' /\ Ascending(wire)'
    BY <1>1, <2>2, <2>4 DEF InOrderByParts, Between, Ascending
  <2>8. \A i \in 1 .. Len(wire'), j \in 1 .. Len(queue') : wire'[i] < queue'[j]
    BY <1>1, <2>1, <2>2 DEF InOrderByParts, Between
  <2>9. rmsg' # None => /\ got' < rmsg' /\ rmsg' <= posted'
                        /\ \A i \in 1 .. Len(wire') : wire'[i] < rmsg'
                        /\ \A j \in 1 .. Len(queue') : rmsg' < queue'[j]
    BY <1>1, <2>1, <2>4 DEF InOrderByParts
  <2> QED
    BY <1>1, <2>4, <2>5, <2>6, <2>7, <2>8, <2>9 DEF InOrderByParts
<1> QED
  BY <1>2, <1>3 DEF Post, Enqueue

\* The thread takes the oldest message of the queue.
LEMMA TakeOrder ==
  ASSUME TypeOK, InOrderByParts, Take PROVE InOrderByParts'
<1>1. /\ UNCHANGED <<wire, got, posted>>
      /\ rmsg' = queue[1] /\ Len(queue) > 0
      /\ Len(queue') = Len(queue) - 1 /\ Len(queue) \in Nat
      /\ \A i \in 1 .. Len(queue') : queue'[i] = queue[i + 1]
  BY TailOfSeq DEF Take, Dequeue, TypeOK, ghosts
<1>2. 1 \in 1 .. Len(queue)
  BY <1>1
<1>3. \A i \in 1 .. Len(queue') : i + 1 \in 1 .. Len(queue) /\ 1 < i + 1
  BY <1>1
<1>4. Ascending(queue)'
  BY <1>1, <1>3 DEF InOrderByParts, Ascending
<1>5. Between(got, queue, posted)'
  BY <1>1, <1>3 DEF InOrderByParts, Between
<1>6. \A i \in 1 .. Len(wire'), j \in 1 .. Len(queue') : wire'[i] < queue'[j]
  BY <1>1, <1>3 DEF InOrderByParts
<1>7. /\ got' < rmsg' /\ rmsg' <= posted'
      /\ \A i \in 1 .. Len(wire') : wire'[i] < rmsg'
      /\ \A j \in 1 .. Len(queue') : rmsg' < queue'[j]
  BY <1>1, <1>2, <1>3 DEF InOrderByParts, Between, Ascending
<1> QED
  BY <1>1, <1>4, <1>5, <1>6, <1>7 DEF InOrderByParts, Ascending, Between

\* A send moves the message to the end of the wire, or loses it.
LEMMA SendOrder ==
  ASSUME TypeOK, InOrderByParts, Send PROVE InOrderByParts'
<1>1. /\ UNCHANGED <<queue, got, posted>>
      /\ rmsg' = None /\ rmsg # None /\ rmsg \in Messages
  BY DEF Send, SendWorks, SendFails, TypeOK, ghosts
<1>2. CASE UNCHANGED wire
  BY <1>1, <1>2 DEF InOrderByParts, Ascending, Between
<1>3. CASE wire' = Append(wire, rmsg)
  <2>1. /\ Len(wire') = Len(wire) + 1 /\ Len(wire) \in Nat
        /\ wire'[Len(wire) + 1] = rmsg
        /\ \A i \in 1 .. Len(wire) : wire'[i] = wire[i]
    BY <1>1, <1>3, AppendToSeq DEF TypeOK
  <2>2. Ascending(wire)'
    BY <1>1, <2>1 DEF InOrderByParts, Ascending
  <2>3. Between(got, wire, posted)'
    BY <1>1, <2>1 DEF InOrderByParts, Between
  <2>4. \A i \in 1 .. Len(wire'), j \in 1 .. Len(queue') : wire'[i] < queue'[j]
    BY <1>1, <2>1 DEF InOrderByParts
  <2> QED
    BY <1>1, <2>2, <2>3, <2>4 DEF InOrderByParts, Ascending, Between
<1> QED
  BY <1>2, <1>3 DEF Send, SendWorks, SendFails

\* A break leaves a prefix of the wire.
LEMMA BreakOrder ==
  ASSUME TypeOK, InOrderByParts, Break PROVE InOrderByParts'
<1>1. UNCHANGED <<queue, rmsg, got, posted>>
  BY DEF Break, thread, ghosts
<1>2. PICK k \in 0 .. Len(wire) : wire' = SubSeq(wire, 1, k)
  BY DEF Break
<1>3. /\ Len(wire') = k /\ 1 .. k \subseteq 1 .. Len(wire)
      /\ \A i \in 1 .. k : wire'[i] = wire[i]
  BY <1>2, PrefixOfSeq DEF TypeOK
<1> QED
  BY <1>1, <1>3 DEF InOrderByParts, Ascending, Between

\* The reader gets the oldest message of all.
LEMMA DeliverOrder ==
  ASSUME TypeOK, InOrderByParts, Deliver PROVE InOrderByParts'
<1>1. /\ UNCHANGED <<queue, rmsg, posted>>
      /\ got' = wire[1] /\ Len(wire) > 0
      /\ Len(wire') = Len(wire) - 1 /\ Len(wire) \in Nat
      /\ \A i \in 1 .. Len(wire') : wire'[i] = wire[i + 1]
  BY TailOfSeq DEF Deliver, TypeOK, thread
<1>2. 1 \in 1 .. Len(wire)
  BY <1>1
<1>3. \A i \in 1 .. Len(wire') : i + 1 \in 1 .. Len(wire) /\ 1 < i + 1
  BY <1>1
<1>4. Ascending(wire)' /\ Ascending(queue)'
  BY <1>1, <1>3 DEF InOrderByParts, Ascending
<1>5. Between(got, wire, posted)' /\ got' <= posted'
  BY <1>1, <1>2, <1>3 DEF InOrderByParts, Between, Ascending
<1>6. Between(got, queue, posted)'
  BY <1>1, <1>2 DEF InOrderByParts, Between
<1>7. \A i \in 1 .. Len(wire'), j \in 1 .. Len(queue') : wire'[i] < queue'[j]
  BY <1>1, <1>3 DEF InOrderByParts
<1>8. rmsg' # None => /\ got' < rmsg' /\ rmsg' <= posted'
                      /\ \A i \in 1 .. Len(wire') : wire'[i] < rmsg'
                      /\ \A j \in 1 .. Len(queue') : rmsg' < queue'[j]
  BY <1>1, <1>2, <1>3 DEF InOrderByParts
<1> QED
  BY <1>4, <1>5, <1>6, <1>7, <1>8 DEF InOrderByParts

\* Every step keeps the order.
LEMMA NextOrder == TypeOK /\ InOrderByParts /\ [Next]_vars => InOrderByParts'
<1> SUFFICES ASSUME TypeOK, InOrderByParts, [Next]_vars PROVE InOrderByParts'
  OBVIOUS
<1>1. CASE Start \/ QueryMdns \/ OpenSocket \/ Connect \/ ComeOrGo
  <2>1. UNCHANGED <<queue, wire, rmsg, got, posted>>
    BY <1>1 DEF Start, QueryMdns, OpenSocket, Connect, ComeOrGo, thread, ghosts
  <2> QED
    BY <2>1 DEF InOrderByParts, Ascending, Between
<1>2. CASE UNCHANGED vars
  BY <1>2 DEF vars, thread, ghosts, InOrderByParts, Ascending, Between
<1> QED
  BY <1>1, <1>2, PostOrder, TakeOrder, SendOrder, BreakOrder, DeliverOrder
  DEF Next, Thread

\* The parts put together: wire, the thread's message and queue in one sequence.
LEMMA PartsInOrder == TypeOK /\ InOrderByParts => InOrder
<1> SUFFICES ASSUME TypeOK, InOrderByParts PROVE InOrder
  OBVIOUS
<1> DEFINE w == Len(wire)
           h == Len(Held)
           q == Len(queue)
<1>1. /\ Held \in Seq(Messages) /\ h \in {0, 1}
      /\ rmsg = None => h = 0
      /\ rmsg # None => h = 1 /\ Held[1] = rmsg
  BY DEF Held, TypeOK
<1>2. /\ w \in Nat /\ q \in Nat
      /\ Len(Transit) = w + h + q
      /\ \A i \in 1 .. w : Transit[i] = wire[i]
      /\ \A i \in w + 1 .. w + h : Transit[i] = rmsg /\ rmsg # None
      /\ \A i \in w + h + 1 .. w + h + q :
            Transit[i] = queue[i - w - h] /\ i - w - h \in 1 .. q
  BY <1>1 DEF Transit, TypeOK
<1> HIDE DEF w, h, q
<1>3. \A i \in 1 .. w : wire[i] \in Nat
  BY ElementsAreNat DEF TypeOK, w
<1>4. ASSUME NEW i \in 1 .. Len(Transit), NEW j \in 1 .. Len(Transit), i < j
      PROVE  Transit[i] < Transit[j]
  <2>1. CASE j \in 1 .. w
    BY <1>2, <1>4, <2>1 DEF InOrderByParts, Ascending, w
  <2>2. CASE j \in w + 1 .. w + h
    BY <1>1, <1>2, <1>4, <2>2 DEF InOrderByParts, w
  <2>3. CASE j \in w + h + 1 .. w + h + q
    <3>1. CASE i \in 1 .. w
      BY <1>2, <2>3, <3>1 DEF InOrderByParts, w, q
    <3>2. CASE i \in w + 1 .. w + h
      BY <1>2, <2>3, <3>2 DEF InOrderByParts, q
    <3>3. CASE i \in w + h + 1 .. w + h + q
      <4>1. i - w - h < j - w - h
        BY <1>1, <1>2, <1>4
      <4> QED
        BY <1>2, <2>3, <3>3, <4>1 DEF InOrderByParts, Ascending, q
    <3> QED
      BY <1>1, <1>2, <3>1, <3>2, <3>3
  <2> QED
    BY <1>1, <1>2, <2>1, <2>2, <2>3
<1>5. ASSUME NEW i \in 1 .. Len(Transit)
      PROVE  got < Transit[i] /\ Transit[i] <= posted
  <2>1. CASE i \in 1 .. w
    BY <1>2, <2>1 DEF InOrderByParts, Between, w
  <2>2. CASE i \in w + 1 .. w + h
    BY <1>2, <2>2 DEF InOrderByParts
  <2>3. CASE i \in w + h + 1 .. w + h + q
    BY <1>2, <2>3 DEF InOrderByParts, Between, q
  <2> QED
    BY <1>1, <1>2, <2>1, <2>2, <2>3
<1> QED
  BY <1>4, <1>5 DEF InOrder

\* Through every break and reconnection the messages reach the reader in the
\* order they were posted, none of them twice.
THEOREM MessagesInOrder == Spec => []InOrder
<1>1. Init => TypeOK /\ InOrderByParts
  BY InitType, InitOrder
<1>2. TypeOK /\ InOrderByParts /\ [Next]_vars => (TypeOK /\ InOrderByParts)'
  BY NextType, NextOrder
<1>3. TypeOK /\ InOrderByParts => InOrder
  BY PartsInOrder
<1> QED
  BY <1>1, <1>2, <1>3, PTL DEF Spec

-----------------------------------------------------------------------------
(* Nothing lost while the connection lives.                                *)

\* The thread sends over a connection only, and a connection dies of a break only.
Connected ==
  /\ pc \in {"receive", "send"} => link # "none"
  /\ breaks = 0 => link # "dead"

\* NoLossWhileUp by its parts: what is on the wire, in the thread and in the queue.
HeldCount == IF rmsg = None THEN 0 ELSE 1

CountByParts ==
  breaks = 0 => accepted = received + Len(wire) + HeldCount + Len(queue)

LEMMA NextConnected == TypeOK /\ Connected /\ [Next]_vars => Connected'
<1> SUFFICES ASSUME TypeOK, Connected, [Next]_vars PROVE Connected'
  OBVIOUS
<1> USE DEF Connected
<1>1. CASE Post \/ Deliver \/ ComeOrGo
  BY <1>1 DEF Post, Deliver, ComeOrGo, thread, outside
<1>2. CASE Start \/ QueryMdns \/ OpenSocket \/ Take
  BY <1>2 DEF Start, QueryMdns, OpenSocket, Take, outside
<1>3. CASE Connect
  <2>1. breaks' = breaks
    BY <1>3 DEF Connect, ConnectWorks, ConnectFails, outside
  <2> QED
    BY <1>3, <2>1 DEF Connect, ConnectWorks, ConnectFails
<1>4. CASE Send
  BY <1>4 DEF Send, SendWorks, SendFails, outside
<1>5. CASE Break
  BY <1>5, CommsAssumption DEF Break, thread, TypeOK
<1>6. CASE UNCHANGED vars
  BY <1>6 DEF vars, thread, outside
<1> QED
  BY <1>1, <1>2, <1>3, <1>4, <1>5, <1>6 DEF Next, Thread

LEMMA NextCount == TypeOK /\ Connected /\ CountByParts /\ [Next]_vars => CountByParts'
<1> SUFFICES ASSUME TypeOK, Connected, CountByParts, [Next]_vars, breaks' = 0
             PROVE  accepted' = received' + Len(wire') + HeldCount' + Len(queue')
  BY DEF CountByParts
<1>1. /\ Len(wire) \in Nat /\ Len(queue) \in Nat /\ HeldCount \in {0, 1}
      /\ accepted \in Nat /\ received \in Nat
  BY CommsAssumption DEF TypeOK, HeldCount
<1>2. CASE Post
  <2>1. posted + 1 \in Messages
    BY <1>2, CommsAssumption DEF Post, TypeOK, Messages
  <2>2. \/ accepted' = accepted + 1 /\ Len(queue') = Len(queue) + 1
        \/ accepted' = accepted /\ queue' = queue
    BY <1>2, <2>1, AppendToSeq DEF Post, Enqueue, TypeOK
  <2> QED
    BY <1>1, <1>2, <2>2 DEF Post, thread, outside, CountByParts, HeldCount
<1>3. CASE Start \/ QueryMdns \/ OpenSocket
  BY <1>3 DEF Start, QueryMdns, OpenSocket, ghosts, outside, CountByParts, HeldCount
<1>4. CASE Connect
  <2>1. breaks' = breaks
    BY <1>4 DEF Connect, ConnectWorks, ConnectFails, outside
  <2> QED
    BY <1>4, <2>1 DEF Connect, ghosts, CountByParts, HeldCount
<1>5. CASE Take
  <2>1. /\ Len(queue') = Len(queue) - 1 /\ rmsg = None /\ rmsg' # None
    BY <1>5, TailOfSeq, CommsAssumption DEF Take, Dequeue, TypeOK, Messages, None
  <2> QED
    BY <1>1, <1>5, <2>1 DEF Take, ghosts, outside, CountByParts, HeldCount
<1>6. CASE Send
  <2>1. rmsg # None /\ rmsg \in Messages /\ rmsg' = None /\ link = "up" /\ breaks = 0
    BY <1>6 DEF Send, TypeOK, Connected, outside
  <2>2. Len(wire') = Len(wire) + 1 /\ queue' = queue
    BY <1>6, <2>1, AppendToSeq DEF Send, SendWorks, SendFails, TypeOK
  <2> QED
    BY <1>1, <1>6, <2>1, <2>2 DEF Send, ghosts, CountByParts, HeldCount
<1>7. CASE Break
  BY <1>7 DEF Break, TypeOK
<1>8. CASE Deliver
  <2>1. Len(wire') = Len(wire) - 1
    BY <1>8, TailOfSeq DEF Deliver, TypeOK
  <2> QED
    BY <1>1, <1>8, <2>1 DEF Deliver, thread, outside, CountByParts, HeldCount
<1>9. CASE ComeOrGo \/ UNCHANGED vars
  BY <1>9 DEF ComeOrGo, vars, thread, ghosts, outside, CountByParts, HeldCount
<1> QED
  BY <1>2, <1>3, <1>4, <1>5, <1>6, <1>7, <1>8, <1>9 DEF Next, Thread

LEMMA PartsCounted == TypeOK /\ CountByParts => NoLossWhileUp
<1> SUFFICES ASSUME TypeOK, CountByParts, breaks = 0
             PROVE  accepted = received + Len(Transit)
  BY DEF NoLossWhileUp
<1>1. Held \in Seq(Messages) /\ Len(Held) = HeldCount
  BY DEF Held, HeldCount, TypeOK
<1>2. Len(Transit) = Len(wire) + HeldCount + Len(queue)
  <2>1. wire \in Seq(Messages) /\ queue \in Seq(Messages)
    BY DEF TypeOK
  <2>2. Len(Transit) = Len(wire) + Len(Held) + Len(queue)
    BY <1>1, <2>1 DEF Transit
  <2> QED
    BY <1>1, <2>2
<1>3. Len(wire) \in Nat /\ Len(queue) \in Nat /\ HeldCount \in {0, 1}
  BY DEF TypeOK, HeldCount
<1> QED
  BY <1>2, <1>3, CommsAssumption DEF CountByParts, TypeOK

\* However many connects are refused and however full the queue gets, every message
\* the queue accepted has been received or is on its way until a connection breaks.
THEOREM NothingLostWhileUp == Spec => []NoLossWhileUp
<1>1. Init => TypeOK /\ Connected /\ CountByParts
  <2>1. Init => Connected
    BY DEF Init, Connected
  <2>2. Init => CountByParts
    BY DEF Init, CountByParts, HeldCount
  <2> QED
    BY <2>1, <2>2, InitType
<1>2. /\ TypeOK /\ Connected /\ CountByParts /\ [Next]_vars
      => (TypeOK /\ Connected /\ CountByParts)'
  BY NextType, NextConnected, NextCount
<1>3. TypeOK /\ CountByParts => NoLossWhileUp
  BY PartsCounted
<1> QED
  BY <1>1, <1>2, <1>3, PTL DEF Spec

-----------------------------------------------------------------------------
(* CommsLink implements TelemetryChannel, whatever breaks: every step of the   *)
(* threads, the network and the reader is a step of the channel or leaves it    *)
(* unchanged.                                                                   *)

\* What the steps rest on: types and order.
Inv == TypeOK /\ InOrderByParts

\* The messages on their way are those of the wire, the thread and the queue.
LEMMA ElementsOfTransit ==
  TypeOK => Elements(Transit) =
              Elements(wire) \cup ({rmsg} \ {None}) \cup Elements(queue)
<1> SUFFICES ASSUME TypeOK
             PROVE  Elements(Transit) =
                      Elements(wire) \cup ({rmsg} \ {None}) \cup Elements(queue)
  OBVIOUS
<1> DEFINE w == Len(wire)
           h == Len(Held)
           q == Len(queue)
<1>1. /\ Held \in Seq(Messages) /\ h \in {0, 1}
      /\ rmsg = None => h = 0
      /\ rmsg # None => h = 1 /\ Held[1] = rmsg
  BY DEF Held, TypeOK
<1>2. /\ w \in Nat /\ q \in Nat
      /\ Len(Transit) = w + h + q
      /\ \A i \in 1 .. w : Transit[i] = wire[i]
      /\ \A i \in w + 1 .. w + h : Transit[i] = rmsg /\ rmsg # None
      /\ \A i \in 1 .. q : Transit[i + w + h] = queue[i]
  BY <1>1 DEF Transit, TypeOK
<1> HIDE DEF w, h, q
<1>3. ASSUME NEW i \in 1 .. Len(Transit)
      PROVE  Transit[i] \in Elements(wire) \cup ({rmsg} \ {None}) \cup Elements(queue)
  <2>1. CASE i \in 1 .. w
    BY <1>2, <2>1 DEF Elements, w
  <2>2. CASE i \in w + 1 .. w + h
    BY <1>2, <2>2
  <2>3. CASE i \in w + h + 1 .. w + h + q
    <3>1. i - w - h \in 1 .. q /\ i = (i - w - h) + w + h
      BY <1>1, <1>2, <2>3
    <3>2. Transit[i] = queue[i - w - h]
      BY <1>2, <3>1
    <3> QED
      BY <3>1, <3>2 DEF Elements, q
  <2> QED
    BY <1>1, <1>2, <2>1, <2>2, <2>3
<1>4. ASSUME NEW i \in 1 .. w PROVE wire[i] \in Elements(Transit)
  <2>1. i \in 1 .. Len(Transit)
    BY <1>1, <1>2
  <2> QED
    BY <1>2, <2>1 DEF Elements
<1>5. ASSUME rmsg # None PROVE rmsg \in Elements(Transit)
  <2>1. w + 1 \in 1 .. Len(Transit) /\ w + 1 \in w + 1 .. w + h
    BY <1>1, <1>2, <1>5
  <2> QED
    BY <1>2, <2>1 DEF Elements
<1>6. ASSUME NEW i \in 1 .. q PROVE queue[i] \in Elements(Transit)
  <2>1. i + w + h \in 1 .. Len(Transit)
    BY <1>1, <1>2
  <2> QED
    BY <1>2, <2>1 DEF Elements
<1> QED
  BY <1>3, <1>4, <1>5, <1>6 DEF Elements, w, q

\* The same after a step.
LEMMA ElementsOfTransitNext ==
  TypeOK' => (Elements(Transit))' =
               Elements(wire') \cup ({rmsg'} \ {None}) \cup Elements(queue')
<1>1. (TypeOK => Elements(Transit) =
              Elements(wire) \cup ({rmsg} \ {None}) \cup Elements(queue))'
  BY ElementsOfTransit, PTL
<1> QED
  BY <1>1 DEF Elements

\* How the elements of a sequence change with it.
LEMMA ElementsOfAppend ==
  ASSUME NEW S, NEW s \in Seq(S), NEW e \in S
  PROVE  Elements(Append(s, e)) = Elements(s) \cup {e}
<1>1. /\ Len(Append(s, e)) = Len(s) + 1 /\ Len(s) \in Nat
      /\ Append(s, e)[Len(s) + 1] = e
      /\ \A i \in 1 .. Len(s) : Append(s, e)[i] = s[i]
  BY AppendToSeq
<1>2. \A i \in 1 .. Len(s) + 1 : i \in 1 .. Len(s) \/ i = Len(s) + 1
  BY <1>1
<1>3. \A i \in 1 .. Len(s) : i \in 1 .. Len(s) + 1
  BY <1>1
<1>4. Len(s) + 1 \in 1 .. Len(s) + 1
  BY <1>1
<1> QED
  BY <1>1, <1>2, <1>3, <1>4 DEF Elements

LEMMA ElementsOfTail ==
  ASSUME NEW S, NEW s \in Seq(S), s # <<>>
  PROVE  Elements(s) = {Head(s)} \cup Elements(Tail(s))
<1>1. /\ Head(s) = s[1] /\ Len(s) > 0 /\ Len(s) \in Nat
      /\ Len(Tail(s)) = Len(s) - 1
      /\ \A i \in 1 .. Len(Tail(s)) : Tail(s)[i] = s[i + 1]
  BY TailOfSeq
<1>2. \A i \in 1 .. Len(s) : i = 1 \/ (i - 1 \in 1 .. Len(Tail(s)) /\ (i - 1) + 1 = i)
  BY <1>1
<1>3. \A i \in 1 .. Len(Tail(s)) : i + 1 \in 1 .. Len(s)
  BY <1>1
<1>4. 1 \in 1 .. Len(s)
  BY <1>1
<1>5. \A i \in 1 .. Len(s) : i = 1 \/ s[i] = Tail(s)[i - 1]
  BY <1>1, <1>2
<1> QED
  BY <1>1, <1>2, <1>3, <1>4, <1>5 DEF Elements

-----------------------------------------------------------------------------
(* The steps.                                                              *)

\* Nothing is on its way at the start.
LEMMA InitRefines == Init => Channel!ChanInit
  BY DEF Init, Channel!ChanInit, Transit, Held, Elements, None

\* A full queue is QueueLen messages on their way.
LEMMA FullQueue ==
  ASSUME Inv, ~(Len(queue) < QueueLen)
  PROVE  \E f \in [1 .. QueueLen -> Elements(Transit)] :
            \A i, j \in 1 .. QueueLen : i < j => f[i] < f[j]
<1> DEFINE f == [i \in 1 .. QueueLen |-> queue[i]]
<1>1. Len(queue) = QueueLen
  BY CommsAssumption DEF Inv, TypeOK
<1>2. \A i \in 1 .. QueueLen : queue[i] \in Elements(Transit)
  BY <1>1, ElementsOfTransit DEF Inv, Elements
<1>3. f \in [1 .. QueueLen -> Elements(Transit)]
  BY <1>2
<1>4. \A i, j \in 1 .. QueueLen : i < j => f[i] < f[j]
  BY <1>1 DEF Inv, InOrderByParts, Ascending
<1> QED
  BY <1>3, <1>4

\* commsPost is Accept or, when the queue is full, Refuse.
LEMMA PostRefines == ASSUME Inv, Inv', Post PROVE Channel!Accept \/ Channel!Refuse
<1> USE DEF Inv
<1>1. /\ posted < MaxPosts /\ posted' = posted + 1
      /\ UNCHANGED <<wire, rmsg, got>> /\ posted + 1 \in Messages
  BY CommsAssumption DEF Post, thread, TypeOK, Messages
<1>2. /\ Elements(Transit) = Elements(wire) \cup ({rmsg} \ {None}) \cup Elements(queue)
      /\ Elements(Transit)' = Elements(wire) \cup ({rmsg} \ {None}) \cup Elements(queue')
  BY <1>1, ElementsOfTransit, ElementsOfTransitNext
<1>3. CASE Len(queue) < QueueLen
  <2>1. Elements(queue') = Elements(queue) \cup {posted + 1}
    <3>1. queue' = Append(queue, posted + 1) /\ queue \in Seq(Messages)
      BY <1>3 DEF Post, Enqueue, TypeOK
    <3> QED
      BY <1>1, <3>1, ElementsOfAppend
  <2>2. Elements(Transit)' = Elements(Transit) \cup {posted + 1}
    BY <1>2, <2>1
  <2> QED
    BY <1>1, <2>2 DEF Channel!Accept
<1>4. CASE ~(Len(queue) < QueueLen)
  <2>1. \E f \in [1 .. QueueLen -> Elements(Transit)] :
           \A i, j \in 1 .. QueueLen : i < j => f[i] < f[j]
    BY <1>4, FullQueue
  <2>2. Elements(Transit)' = Elements(Transit)
    BY <1>2, <1>4 DEF Post, Enqueue
  <2> QED
    BY <1>1, <2>1, <2>2 DEF Channel!Refuse
<1> QED
  BY <1>3, <1>4

\* Taking a message off the queue leaves it on its way.
LEMMA TakeRefines == ASSUME Inv, Inv', Take PROVE UNCHANGED Channel!chanVars
<1> USE DEF Inv
<1>1. /\ UNCHANGED <<wire, got, posted>> /\ rmsg = None
      /\ rmsg' = Head(queue) /\ queue' = Tail(queue) /\ rmsg' # None
  BY DEF Take, Dequeue, TypeOK, ghosts
<1>2. Elements(queue) = {rmsg'} \cup Elements(queue')
  BY <1>1, ElementsOfTail DEF Take, TypeOK
<1>3. /\ Elements(Transit) = Elements(wire) \cup Elements(queue)
      /\ Elements(Transit)' = Elements(wire) \cup {rmsg'} \cup Elements(queue')
  BY <1>1, ElementsOfTransit, ElementsOfTransitNext
<1> QED
  BY <1>1, <1>2, <1>3 DEF Channel!chanVars

\* A send leaves the message on its way or loses it.
LEMMA SendRefines == ASSUME Inv, Inv', Send PROVE Channel!Lose
<1> USE DEF Inv
<1>1. /\ UNCHANGED <<queue, got, posted>>
      /\ rmsg' = None /\ rmsg # None /\ rmsg \in Messages
  BY DEF Send, SendWorks, SendFails, TypeOK, ghosts
<1>2. Elements(wire') \in SUBSET (Elements(wire) \cup {rmsg})
  <2>1. CASE wire' = Append(wire, rmsg)
    BY <1>1, <2>1, ElementsOfAppend DEF TypeOK
  <2>2. CASE wire' = wire
    BY <2>2
  <2> QED
    BY <2>1, <2>2 DEF Send, SendWorks, SendFails
<1>3. /\ Elements(Transit) = Elements(wire) \cup {rmsg} \cup Elements(queue)
      /\ Elements(Transit)' = Elements(wire') \cup Elements(queue)
  BY <1>1, ElementsOfTransit, ElementsOfTransitNext
<1> QED
  BY <1>1, <1>2, <1>3 DEF Channel!Lose

\* A break loses what is not in the prefix.
LEMMA BreakRefines == ASSUME Inv, Inv', Break PROVE Channel!Lose
<1> USE DEF Inv
<1>1. UNCHANGED <<queue, rmsg, got, posted>>
  BY DEF Break, thread, ghosts
<1>2. PICK k \in 0 .. Len(wire) : wire' = SubSeq(wire, 1, k)
  BY DEF Break
<1>3. Elements(wire') \in SUBSET Elements(wire)
  <2>1. /\ Len(wire') = k /\ 1 .. k \subseteq 1 .. Len(wire)
        /\ \A i \in 1 .. k : wire'[i] = wire[i]
    <3>1. wire \in Seq(Messages)
      BY DEF TypeOK
    <3>2. Len(wire) \in Nat
      BY <3>1
    <3> QED
      BY <1>2, <3>1, <3>2, PrefixOfSeq
  <2> QED
    BY <2>1 DEF Elements
<1>4. /\ Elements(Transit) = Elements(wire) \cup ({rmsg} \ {None}) \cup Elements(queue)
      /\ Elements(Transit)' = Elements(wire') \cup ({rmsg} \ {None}) \cup Elements(queue)
  BY <1>1, ElementsOfTransit, ElementsOfTransitNext
<1> QED
  BY <1>1, <1>3, <1>4 DEF Channel!Lose

\* What the reader gets is the oldest message on its way.
LEMMA DeliverRefines == ASSUME Inv, Inv', Deliver PROVE Channel!Receive
<1> USE DEF Inv
<1> DEFINE m == Head(wire)
<1>1. /\ UNCHANGED <<queue, rmsg, posted>>
      /\ got' = m /\ wire # <<>> /\ wire' = Tail(wire)
  BY DEF Deliver, thread
<1>2. Elements(wire) = {m} \cup Elements(wire')
  BY <1>1, ElementsOfTail DEF TypeOK
<1>3. /\ Elements(Transit) = Elements(wire) \cup ({rmsg} \ {None}) \cup Elements(queue)
      /\ Elements(Transit)' = Elements(wire') \cup ({rmsg} \ {None}) \cup Elements(queue)
  BY <1>1, ElementsOfTransit, ElementsOfTransitNext
<1>4. \A k \in Elements(wire') \cup ({rmsg} \ {None}) \cup Elements(queue) : m < k
  BY <1>1 DEF InOrderByParts, Between, Elements
<1>5. m \in Nat /\ m \notin Elements(Transit)'
  <2>1. m \in Nat
    BY <1>1, TailOfSeq, CommsAssumption DEF TypeOK, Messages
  <2> QED
    BY <2>1, <1>3, <1>4
<1>6. Elements(Transit)' = Elements(Transit) \ {m} /\ m \in Elements(Transit)
  BY <1>2, <1>3, <1>5
<1>7. \A k \in Elements(Transit) : m <= k
  <2> SUFFICES ASSUME NEW k \in Elements(Transit), k # m PROVE m <= k
    BY <1>5
  <2>1. m < k
    BY <1>2, <1>3, <1>4
  <2>2. k \in Nat
    <3>1. \A e \in Elements(wire) \cup Elements(queue) : e \in Nat
      BY ElementsAreNat DEF Elements, TypeOK
    <3>2. rmsg \in Nat
      BY CommsAssumption DEF TypeOK, Messages, None
    <3> QED
      BY <1>3, <3>1, <3>2
  <2> QED
    BY <1>5, <2>1, <2>2
<1> QED
  BY <1>1, <1>6, <1>7 DEF Channel!Receive

\* Every step is one of the channel's or stutters.
LEMMA NextRefines == Inv /\ Inv' /\ [Next]_vars => [Channel!ChanNext]_Channel!chanVars
<1> SUFFICES ASSUME Inv, Inv', [Next]_vars
             PROVE  Channel!ChanNext \/ UNCHANGED Channel!chanVars
  OBVIOUS
<1>1. CASE Start \/ QueryMdns \/ OpenSocket \/ Connect \/ ComeOrGo \/ UNCHANGED vars
  <2>1. UNCHANGED <<queue, wire, rmsg, got, posted>>
    BY <1>1 DEF Start, QueryMdns, OpenSocket, Connect, ComeOrGo, ghosts, vars, thread
  <2> QED
    BY <2>1 DEF Channel!chanVars, Transit, Held, Elements
<1>2. CASE Post
  BY <1>2, PostRefines DEF Channel!ChanNext
<1>3. CASE Take
  BY <1>3, TakeRefines
<1>4. CASE Send
  BY <1>4, SendRefines DEF Channel!ChanNext
<1>5. CASE Break
  BY <1>5, BreakRefines DEF Channel!ChanNext
<1>6. CASE Deliver
  BY <1>6, DeliverRefines DEF Channel!ChanNext
<1> QED
  BY <1>1, <1>2, <1>3, <1>4, <1>5, <1>6 DEF Next, Thread

\* The board's telemetry path keeps what TelemetryChannel promises: a post never
\* waits and is refused by a full queue only, and what arrives arrives once and
\* in the order of posting, through every break and reconnection.
THEOREM ImplementsTheChannel == Spec => ImplementsChannel
<1>1. Init => Inv /\ Channel!ChanInit
  BY InitType, InitOrder, InitRefines DEF Inv
<1>2. Inv /\ [Next]_vars => Inv'
  BY NextType, NextOrder DEF Inv
<1>3. Inv /\ Inv' /\ [Next]_vars => [Channel!ChanNext]_Channel!chanVars
  BY NextRefines
<1> QED
  BY <1>1, <1>2, <1>3, PTL DEF Spec, ImplementsChannel, Channel!ChanSpec

-----------------------------------------------------------------------------
(* The same against the server of TelemetryPath: its steps are steps of        *)
(* CommsLink but for a connect it does not answer and for its stopping, which  *)
(* takes everything with it that is on the wire.                               *)

\* The stop of a server: the wire is empty, the board may not know yet, and the
\* name is gone if the process is.
Stopped ==
  /\ wire' = <<>> /\ link' \in {link, "dead"}
  /\ named' \in {named, FALSE}
  /\ UNCHANGED <<queue, thread, ghosts, refusals, breaks>>

\* A connect that nobody answers.
Unanswered ==
  /\ pc = "connect" /\ pc' = "mdns"
  /\ UNCHANGED <<queue, rmsg, sock, sockets, link, wire, ghosts, outside>>

\* What the path does, told in the steps of CommsLink.
LEMMA PathSteps == [PathNext]_path => [Next]_vars \/ Stopped \/ Unanswered
<1> SUFFICES ASSUME [PathNext]_path PROVE [Next]_vars \/ Stopped \/ Unanswered
  OBVIOUS
<1>1. CASE Board
  <2>1. CASE BoardAlone
    BY <2>1 DEF BoardAlone, Next, Thread
  <2>2. CASE NewSocket
    BY <2>2 DEF NewSocket, Next, Thread
  <2>3. CASE ConnectToServer
    <3>1. CASE Reached
      BY <2>3, <3>1 DEF ConnectToServer, Reached, Connect, Next, Thread
    <3>2. CASE Refused
      BY <2>3, <3>2 DEF ConnectToServer, Refused, Unanswered
    <3> QED
      BY <2>3, <3>1, <3>2 DEF ConnectToServer
  <2> QED
    BY <1>1, <2>1, <2>2, <2>3 DEF Board
<1>2. CASE Server
  <2>1. CASE Bind \/ AcceptClient \/ AcceptFails
    BY <2>1 DEF Bind, AcceptClient, AcceptFails
  <2>2. CASE ReadMessage
    BY <2>2 DEF ReadMessage, Next
  <2>3. CASE ReadEnd
    BY <2>3 DEF ReadEnd, ResetConnection, Stopped, outside
  <2> QED
    BY <1>2, <2>1, <2>2, <2>3 DEF Server
<1>3. CASE Quit
  BY <1>3 DEF Quit, ResetConnection, Stopped
<1>4. CASE Launch
  <2>1. CASE named = TRUE
    BY <1>4, <2>1 DEF Launch, vars, outside
  <2>2. CASE named # TRUE
    BY <1>4, <2>2 DEF Launch, ComeOrGo, Next
  <2> QED
    BY <2>1, <2>2
<1>5. CASE Lose
  BY <1>5 DEF Lose, Next
<1>6. CASE UNCHANGED path
  BY <1>6 DEF path
<1> QED
  BY <1>1, <1>2, <1>3, <1>4, <1>5, <1>6 DEF PathNext

\* The stop of a server and a connect it does not answer keep types and order.
LEMMA StoppedKeeps == Inv /\ Stopped => Inv'
<1> SUFFICES ASSUME Inv, Stopped PROVE Inv'
  OBVIOUS
<1>1. /\ wire' = <<>> /\ link' \in {"none", "up", "dead"}
      /\ UNCHANGED <<queue, pc, rmsg, sock, sockets>>
      /\ UNCHANGED <<posted, accepted, received, got, refusals, breaks>>
      /\ named' \in BOOLEAN
  BY DEF Inv, TypeOK, Stopped, thread, ghosts
<1>2. TypeOK'
  BY <1>1 DEF Inv, TypeOK
<1>3. InOrderByParts'
  BY <1>1 DEF Inv, InOrderByParts, Ascending, Between
<1> QED
  BY <1>2, <1>3 DEF Inv

LEMMA UnansweredKeeps == Inv /\ Unanswered => Inv'
  BY DEF Inv, TypeOK, InOrderByParts, Ascending, Between, Unanswered, ghosts, outside

\* Every step of the path keeps them.
LEMMA PathKeeps == Inv /\ [PathNext]_path => Inv'
<1>1. Inv /\ [Next]_vars => Inv'
  BY NextType, NextOrder DEF Inv
<1> QED
  BY <1>1, PathSteps, StoppedKeeps, UnansweredKeeps

\* A server that stops loses what was on the wire ...
LEMMA StoppedRefines == ASSUME Inv, Inv', Stopped PROVE Channel!Lose
<1> USE DEF Inv
<1>1. wire' = <<>> /\ UNCHANGED <<queue, rmsg, got, posted>>
  BY DEF Stopped, thread, ghosts
<1>2. /\ Elements(Transit) = Elements(wire) \cup ({rmsg} \ {None}) \cup Elements(queue)
      /\ Elements(Transit)' = Elements(wire') \cup ({rmsg} \ {None}) \cup Elements(queue)
  BY <1>1, ElementsOfTransit, ElementsOfTransitNext
<1>3. Elements(wire') = {}
  BY <1>1 DEF Elements
<1> QED
  BY <1>1, <1>2, <1>3 DEF Channel!Lose

\* ... and a connect it does not answer loses nothing.
LEMMA UnansweredRefines == Unanswered => UNCHANGED Channel!chanVars
  BY DEF Unanswered, Channel!chanVars, Transit, Held, Elements, ghosts

LEMMA PathRefines == Inv /\ Inv' /\ [PathNext]_path => [Channel!ChanNext]_Channel!chanVars
  BY PathSteps, NextRefines, StoppedRefines, UnansweredRefines DEF Channel!ChanNext

LEMMA PathInitIs == PathInit => Inv /\ Channel!ChanInit
  BY InitType, InitOrder, InitRefines DEF PathInit, Inv

\* comms.c and renderer.py's _read_loop together keep what TelemetryChannel promises
\* however often the operator stops the server and starts it again: what a stop takes
\* with it is lost, and nothing arrives twice or after a newer message.
THEOREM PathImplementsTheChannel == PathSpec => ImplementsChannel
<1>1. PathInit => Inv /\ Channel!ChanInit
  BY PathInitIs
<1>2. Inv /\ [PathNext]_path => Inv'
  BY PathKeeps
<1>3. Inv /\ Inv' /\ [PathNext]_path => [Channel!ChanNext]_Channel!chanVars
  BY PathRefines
<1> QED
  BY <1>1, <1>2, <1>3, PTL DEF PathSpec, ImplementsChannel, Channel!ChanSpec

\* Through every stop of the server, too, the messages reach the reader in the order
\* they were posted, none of them twice.
THEOREM MessagesInOrderOnThePath == PathSpec => []InOrder
<1>1. PathInit => Inv
  BY PathInitIs
<1>2. Inv /\ [PathNext]_path => Inv'
  BY PathKeeps
<1>3. Inv => InOrder
  BY PartsInOrder DEF Inv
<1> QED
  BY <1>1, <1>2, <1>3, PTL DEF PathSpec

=============================================================================
