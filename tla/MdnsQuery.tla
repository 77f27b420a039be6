----------------------------- MODULE MdnsQuery -----------------------------
(***************************************************************************)
(* mdns_querier.c as comms.c uses it (mdns_query_a): tasks that wait for   *)
(* the answer to a query, the mDNS service task with its queue of actions, *)
(* the timer that sends, resends and ends the searches, and the packets    *)
(* that lwIP's thread queues.  All queries ask for the same name and are   *)
(* content with one result.  A search is the address of its structure,     *)
(* which malloc may hand out again once it is freed; what freed memory     *)
(* holds is not described.                                                 *)
(*                                                                         *)
(* The unit of time is the timer's period, 100 ms.                         *)
(***************************************************************************)
EXTENDS Naturals, Sequences

CONSTANTS
  Callers,      \* tasks that query
  Slots,        \* addresses of mdns_search_once_t structures
  None,         \* no search
  QueueLen,     \* MDNS_ACTION_QUEUE_LEN, 16
  Timeout,      \* the 2000 ms of comms.c:32
  Resend,       \* the 1000 ms of mdns_querier.c:150
  W,            \* the clock runs 0..W-1: 32 bits of milliseconds
  MaxPackets    \* bound: packets of a behaviour

ASSUME MdnsQueryAssumption ==
  /\ None \notin Slots
  /\ QueueLen \in Nat \ {0}
  /\ Timeout \in Nat \ {0}
  /\ Resend \in Nat \ {0}
  /\ W \in Nat /\ W > Timeout + 2 /\ W > Resend + 1
  /\ MaxPackets \in Nat

Times == 0 .. W - 1

\* A response that answers and is taken to the end of the parser; one that answers
\* but is not authoritative, or is malformed behind the answer.
Packets == {"answer", "undone"}
Actions == [type : {"add", "send", "end"}, search : Slots]
             \cup [type : {"rx"}, packet : Packets]

VARIABLES
  cur,            \* what a caller waits for, None when it does not
  search,         \* the structures
  s_search_once,  \* the chain of running searches
  queue,          \* s_action_queue
  now,            \* the clock
  due,            \* the timer's callback has yet to run for this tick
  walk,           \* searches the callback has yet to visit, under the service lock
  packets,        \* packets so far
  undone,         \* ghost: an answer has not been taken to the end of the parser
  corrupt         \* a structure has been used after it was freed

memory == <<cur, search>>
timer  == <<now, due, walk>>
vars   == <<memory, s_search_once, queue, timer, packets, undone, corrupt>>

\* done is the semaphore; age, a ghost, counts the periods since the start.
Searches == [state : {"init", "running", "off"}, started_at : Times, sent_at : Times,
             found : BOOLEAN, done : BOOLEAN, age : 0 .. Timeout + 1]

Freed == [state |-> "off", started_at |-> 0, sent_at |-> 0, found |-> FALSE,
          done |-> FALSE, age |-> 0]

Live(s) == \E c \in Callers : cur[c] = s

\* Mutant: room for one more than the queue's length.
RoomOffByOne == Len(queue) <= QueueLen

Room == Len(queue) < QueueLen

locked == walk # {}

Init ==
  /\ cur = [c \in Callers |-> None]
  /\ search = [s \in Slots |-> Freed]
  /\ s_search_once = {} /\ queue = <<>>
  /\ now = 0 /\ due = FALSE /\ walk = {}
  /\ packets = 0 /\ undone = FALSE /\ corrupt = FALSE

-----------------------------------------------------------------------------
(* The callers.                                                            *)

\* search_init.
NewSearch == [Freed EXCEPT !.state = "init", !.started_at = now]

\* mdns_query_generic up to its wait; without room in the queue the structure is
\* freed again and the query fails with ESP_ERR_NO_MEM.
Query(c) ==
  /\ cur[c] = None
  /\ Room
  /\ \E s \in Slots :
       /\ ~Live(s)
       /\ search' = [search EXCEPT ![s] = NewSearch]
       /\ cur' = [cur EXCEPT ![c] = s]
       /\ queue' = Append(queue, [type |-> "add", search |-> s])
  /\ UNCHANGED <<s_search_once, timer, packets, undone, corrupt>>

\* The rest of it: done_semaphore has been given; search_free.
Return(c) ==
  /\ cur[c] # None
  /\ search[cur[c]].done
  /\ cur' = [cur EXCEPT ![c] = None]
  /\ search' = [search EXCEPT ![cur[c]] = Freed]
  /\ UNCHANGED <<s_search_once, queue, timer, packets, undone, corrupt>>

-----------------------------------------------------------------------------
(* The service task.                                                       *)

\* search_finish on each of S: off, out of the chain, semaphore given.
Finish(S, f) ==
  /\ search' = [s \in Slots |-> IF s \in S THEN [f[s] EXCEPT !.state = "off", !.done = TRUE]
                                ELSE f[s]]
  /\ s_search_once' = s_search_once \ S
  /\ UNCHANGED <<undone, corrupt>>

UseAfterFree == corrupt' = TRUE /\ UNCHANGED <<search, s_search_once, undone>>

Add(s) ==
  IF Live(s)
    THEN s_search_once' = s_search_once \cup {s} /\ UNCHANGED <<search, undone, corrupt>>
    ELSE UseAfterFree

\* Mutant: search_send does not look for the search in the chain (line 100).
SendUnchecked(s) ==
  IF Live(s) THEN UNCHANGED <<search, s_search_once, undone, corrupt>> ELSE UseAfterFree

\* search_send: transmits for a search of the chain.  It compares addresses, so a
\* freed search is not looked at.
SendQuery(s) ==
  IF s \in s_search_once /\ ~Live(s) THEN UseAfterFree
  ELSE UNCHANGED <<search, s_search_once, undone, corrupt>>

End(s) == IF Live(s) THEN Finish({s}, search) ELSE UseAfterFree

\* Mutant: find does not pass over the searches that are off.
MatchesAll == s_search_once

\* The searches that mdns_priv_query_find_from takes an answer for.
Matches == {s \in s_search_once : search[s].state # "off"}

\* The packet parser, of what concerns searches: results are added, and for an
\* authoritative packet every search with enough results is finished.
Parse(p) ==
  LET added == [s \in Slots |-> IF s \in Matches THEN [search[s] EXCEPT !.found = TRUE]
                                ELSE search[s]]
  IN  IF p = "undone"
        THEN search' = added /\ undone' = TRUE /\ UNCHANGED <<s_search_once, corrupt>>
        ELSE Finish({s \in s_search_once : added[s].found}, added)

Execute(a) ==
  \/ a.type = "add" /\ Add(a.search)
  \/ a.type = "send" /\ SendQuery(a.search)
  \/ a.type = "end" /\ End(a.search)
  \/ a.type = "rx" /\ Parse(a.packet)

\* One turn of service_task, under the lock.
Service ==
  /\ queue # <<>> /\ ~locked
  /\ Execute(Head(queue))
  /\ queue' = Tail(queue)
  /\ UNCHANGED <<cur, timer, packets>>

-----------------------------------------------------------------------------
(* The timer.                                                              *)

\* A period passes; the last callback is over.
Tick ==
  /\ ~due /\ ~locked
  /\ now' = (now + 1) % W
  /\ due' = TRUE
  /\ search' = [s \in Slots |->
       IF Live(s) /\ search[s].age < Timeout + 1 THEN [search[s] EXCEPT !.age = @ + 1]
       ELSE search[s]]
  /\ UNCHANGED <<cur, s_search_once, queue, walk, packets, undone, corrupt>>

\* mdns_priv_query_start_stop takes the lock and reads the clock.
TimerLock ==
  /\ due /\ ~locked
  /\ due' = FALSE
  /\ walk' = s_search_once
  /\ UNCHANGED <<memory, s_search_once, queue, now, packets, undone, corrupt>>

Expired(s)  == now > (search[s].started_at + Timeout) % W
SendDue(s)  == search[s].state = "init" \/ (now + W - search[s].sent_at) % W > Resend

\* Mutant: a search whose end could not be queued stays off (line 147 missing).
EndSearchForgets(s) ==
  /\ search' = [search EXCEPT ![s].state = "off"]
  /\ queue' = IF Room THEN Append(queue, [type |-> "end", search |-> s]) ELSE queue

\* Mutant: the search is not marked off when its end is queued (line 145 missing).
EndSearchAgain(s) ==
  /\ search' = [search EXCEPT ![s].state = "running"]
  /\ queue' = IF Room THEN Append(queue, [type |-> "end", search |-> s]) ELSE queue

\* Its time is up: off, if the end can be queued.
EndSearch(s) ==
  /\ search' = [search EXCEPT ![s].state = IF Room THEN "off" ELSE "running"]
  /\ queue' = IF Room THEN Append(queue, [type |-> "end", search |-> s]) ELSE queue

\* The first query or the next one; if it can't be queued, soon again.
SendSearch(s) ==
  /\ search' = [search EXCEPT ![s].state = "running",
                              ![s].sent_at = IF Room THEN now ELSE (now + W - Resend) % W]
  /\ queue' = IF Room THEN Append(queue, [type |-> "send", search |-> s]) ELSE queue

VisitSearch(s) ==
  \/ search[s].state # "off" /\ Expired(s) /\ EndSearch(s)
  \/ search[s].state # "off" /\ ~Expired(s) /\ SendDue(s) /\ SendSearch(s)
  \/ /\ search[s].state = "off" \/ (~Expired(s) /\ ~SendDue(s))
     /\ UNCHANGED <<search, queue>>

\* The lock is released after the last visit.
TimerVisit(s) ==
  /\ s \in walk
  /\ VisitSearch(s)
  /\ walk' = walk \ {s}
  /\ UNCHANGED <<cur, s_search_once, now, due, packets, undone, corrupt>>

Timer == TimerLock \/ \E s \in Slots : TimerVisit(s)

-----------------------------------------------------------------------------

\* lwIP's receive callback queues a packet; without room it is dropped.
Receive ==
  /\ packets < MaxPackets
  /\ packets' = packets + 1
  /\ Room
  /\ \E p \in Packets : queue' = Append(queue, [type |-> "rx", packet |-> p])
  /\ UNCHANGED <<memory, s_search_once, timer, undone, corrupt>>

Step == \/ \E c \in Callers : Query(c) \/ Return(c)
        \/ Service \/ Tick \/ Timer \/ Receive

\* What happens after a use of freed memory is not described.
Next == ~corrupt /\ Step

Spec == Init /\ [][Next]_vars

\* The queue is not full at every one of the timer's visits after the deadline.
RoomAtTimes(s) ==
  []<>(s \in walk /\ Expired(s)) => []<><<TimerVisit(s) /\ Expired(s) /\ Room>>_vars

\* The timer and a task whose semaphore is given are scheduled, and so is the service
\* task, which the timer's lock keeps out at times.
FairSpec ==
  /\ Spec /\ SF_vars(~corrupt /\ Service) /\ WF_vars(~corrupt /\ Tick)
  /\ WF_vars(~corrupt /\ Timer)
  /\ \A c \in Callers : WF_vars(~corrupt /\ Return(c))
  /\ \A s \in Slots : RoomAtTimes(s)

-----------------------------------------------------------------------------
(* Properties.                                                             *)

Targets(types) == {queue[i].search : i \in {k \in DOMAIN queue : queue[k].type \in types}}

\* The type invariant.
TypeOK ==
  /\ cur \in [Callers -> Slots \cup {None}]
  /\ search \in [Slots -> Searches]
  /\ s_search_once \subseteq Slots
  /\ queue \in Seq(Actions) /\ Len(queue) <= QueueLen
  /\ now \in Times
  /\ due \in BOOLEAN
  /\ walk \subseteq Slots
  /\ packets \in 0 .. MaxPackets
  /\ undone \in BOOLEAN /\ corrupt \in BOOLEAN

\* While every answer is taken to the end of the parser, the service task and the
\* timer touch no search that its caller has freed, whoever ends it first
\* (mdns_querier.c:59-67, 133-160, 181-192, 805-809).
NoUseAfterFree ==
  ~undone =>
    /\ ~corrupt
    /\ \A s \in s_search_once \cup Targets({"add", "end"}) : Live(s) /\ ~search[s].done

\* started_at + timeout is past the end of the clock.
Wraps(s) == search[s].started_at + Timeout >= W

\* A query comes back without a result only when its time is up, even if an
\* older search had the same address, but for a deadline that wraps.
GivesUpLate ==
  ~undone => \A s \in Slots :
    Live(s) /\ search[s].done /\ ~search[s].found => search[s].age > Timeout \/ Wraps(s)

\* No clock reading comes after the deadline before the clock wraps.
Unreached(s) == (search[s].started_at + Timeout) % W = W - 1

\* Every query returns, answered or not, however full the queue is at times.
QueryReturns ==
  \A c \in Callers :
    (cur[c] # None /\ ~Unreached(cur[c]) /\ ~undone) ~> (cur[c] = None \/ undone)

=============================================================================
