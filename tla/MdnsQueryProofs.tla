-------------------------- MODULE MdnsQueryProofs --------------------------
(***************************************************************************)
(* For any number of callers, searches and packets, any length of the      *)
(* action queue and any timeouts: the types of MdnsQuery, that no search   *)
(* is used after its caller has freed it, and that no query gives up       *)
(* before its time.                                                        *)
(***************************************************************************)
EXTENDS MdnsQuery, Integers, TLAPS

\* Whoever holds an address, that caller still waits for it.
Waited(s) == Live(s) /\ ~search[s].done /\ ~search[s].found

\* The searches of the chain, of a queued "add" and of a queued "end" are waited for.
\* An "add" is of a search that is not yet in the chain, an "end" of one that is and is
\* off, so that an answer passes over it; and neither is queued twice.
ChainWaited == \A s \in s_search_once : Waited(s)

Places == 1 .. Len(queue)

AddsFirst ==
  \A i \in Places : queue[i].type = "add" =>
    Waited(queue[i].search) /\ queue[i].search \notin s_search_once

AddsOnce ==
  \A i, j \in Places :
    queue[i].type = "add" /\ queue[j].type = "add" /\ queue[i].search = queue[j].search
      => i = j

EndsOff ==
  \A i \in Places : queue[i].type = "end" =>
    queue[i].search \in s_search_once /\ search[queue[i].search].state = "off"

EndsOnce ==
  \A i, j \in Places :
    queue[i].type = "end" /\ queue[j].type = "end" /\ queue[i].search = queue[j].search
      => i = j

Held ==
  /\ ChainWaited /\ AddsFirst /\ AddsOnce /\ EndsOff /\ EndsOnce
  /\ walk \subseteq s_search_once
  /\ ~corrupt

HeldWhileDone == ~undone => Held

-----------------------------------------------------------------------------
(* Sequences and structures.                                               *)

\* The service task takes the first action.
LEMMA Taken ==
  ASSUME queue \in Seq(Actions), queue # <<>>, queue' = Tail(queue)
  PROVE  /\ queue' \in Seq(Actions) /\ Len(queue) \in Nat /\ Len(queue') = Len(queue) - 1
         /\ 1 \in Places /\ Head(queue) = queue[1] /\ Head(queue) \in Actions
         /\ \A i \in Places' : i \in Nat /\ i + 1 \in Places /\ i + 1 # 1
                               /\ queue'[i] = queue[i + 1]
<1>1. /\ Len(queue) \in Nat /\ Len(queue) >= 1 /\ Tail(queue) \in Seq(Actions)
      /\ Head(queue) = queue[1] /\ Head(queue) \in Actions
      /\ Len(Tail(queue)) = Len(queue) - 1
      /\ \A k \in 1 .. Len(queue) - 1 : Tail(queue)[k] = queue[k + 1]
  OBVIOUS
<1> QED
  BY <1>1 DEF Places

\* Everybody else puts one at the end.
LEMMA Queued ==
  ASSUME queue \in Seq(Actions), NEW a \in Actions, queue' = Append(queue, a)
  PROVE  /\ queue' \in Seq(Actions) /\ Len(queue) \in Nat /\ Len(queue') = Len(queue) + 1
         /\ Places' = Places \cup {Len(queue) + 1}
         /\ queue'[Len(queue) + 1] = a
         /\ \A i \in Places : i # Len(queue) + 1 /\ queue'[i] = queue[i]
<1>1. /\ Len(queue) \in Nat /\ queue' \in Seq(Actions) /\ Len(queue') = Len(queue) + 1
      /\ queue'[Len(queue) + 1] = a
      /\ \A i \in 1 .. Len(queue) : queue'[i] = queue[i]
  OBVIOUS
<1> QED
  BY <1>1 DEF Places

LEMMA TimesType ==
  0 \in Times /\ 0 \in 0 .. Timeout + 1 /\ \A n \in Nat : n % W \in Times
  BY MdnsQueryAssumption DEF Times

\* Every assignment to a structure's fields.
LEMMA FieldsType ==
  ASSUME NEW r \in Searches
  PROVE  /\ [r EXCEPT !.state = "off", !.done = TRUE] \in Searches
         /\ [r EXCEPT !.found = TRUE] \in Searches
         /\ [r EXCEPT !.state = "off"] \in Searches
         /\ [r EXCEPT !.state = "running"] \in Searches
         /\ \A t \in Times : [r EXCEPT !.state = "init", !.started_at = t] \in Searches
         /\ \A t \in Times : [r EXCEPT !.state = "running", !.sent_at = t] \in Searches
         /\ \A n \in 0 .. Timeout + 1 : [r EXCEPT !.age = n] \in Searches
  BY Zenon DEF Searches

\* What the assignments do to the fields that Held speaks of.
LEMMA FieldsKept ==
  ASSUME NEW r \in Searches
  PROVE  /\ [r EXCEPT !.found = TRUE].found
         /\ [r EXCEPT !.found = TRUE].state = r.state
         /\ \A v : [r EXCEPT !.state = v].state = v
                   /\ [r EXCEPT !.state = v].done = r.done
                   /\ [r EXCEPT !.state = v].found = r.found
         /\ \A v, t : [r EXCEPT !.state = v, !.sent_at = t].state = v
                      /\ [r EXCEPT !.state = v, !.sent_at = t].done = r.done
                      /\ [r EXCEPT !.state = v, !.sent_at = t].found = r.found
         /\ \A v, t : [r EXCEPT !.state = v, !.started_at = t].done = r.done
                      /\ [r EXCEPT !.state = v, !.started_at = t].found = r.found
         /\ \A n : [r EXCEPT !.age = n].state = r.state
                   /\ [r EXCEPT !.age = n].done = r.done
                   /\ [r EXCEPT !.age = n].found = r.found
  BY Zenon DEF Searches

\* The structures that search_init and search_free leave.
LEMMA NewType ==
  now \in Times => /\ NewSearch \in Searches /\ Freed \in Searches
                  /\ ~NewSearch.done /\ ~NewSearch.found
<1> SUFFICES ASSUME now \in Times
             PROVE  /\ NewSearch \in Searches /\ Freed \in Searches
                    /\ ~NewSearch.done /\ ~NewSearch.found
  OBVIOUS
<1>1. Freed \in Searches /\ Freed.done = FALSE /\ Freed.found = FALSE
  BY TimesType, Zenon DEF Freed, Searches
<1>2. \A t \in Times : [Freed EXCEPT !.state = "init", !.started_at = t] \in Searches
  BY <1>1, FieldsType
<1>3. NewSearch \in Searches
  BY <1>2, Zenon DEF NewSearch
<1>4. \A v, t : /\ [Freed EXCEPT !.state = v, !.started_at = t].done = Freed.done
               /\ [Freed EXCEPT !.state = v, !.started_at = t].found = Freed.found
  BY <1>1, FieldsKept
<1>5. NewSearch.done = Freed.done /\ NewSearch.found = Freed.found
  BY <1>4, Zenon DEF NewSearch
<1> QED
  BY <1>1, <1>3, <1>5, Zenon


-----------------------------------------------------------------------------
(* Types.                                                                  *)

LEMMA InitType == Init => TypeOK
<1> SUFFICES ASSUME Init PROVE TypeOK
  OBVIOUS
<1>1. now \in Times /\ packets \in 0 .. MaxPackets
  BY TimesType, MdnsQueryAssumption DEF Init
<1>2. search \in [Slots -> Searches]
  BY <1>1, NewType DEF Init
<1>3. /\ cur \in [Callers -> Slots \cup {None}]
      /\ s_search_once \subseteq Slots /\ walk \subseteq Slots
  BY DEF Init
<1>4. queue \in Seq(Actions) /\ Len(queue) <= QueueLen
  BY MdnsQueryAssumption DEF Init
<1>5. due \in BOOLEAN /\ undone \in BOOLEAN /\ corrupt \in BOOLEAN
  BY Zenon DEF Init
<1> QED
  BY <1>1, <1>2, <1>3, <1>4, <1>5, Zenon DEF TypeOK

\* Ending searches keeps the structures.
LEMMA FinishType ==
  ASSUME TypeOK, NEW S, NEW f \in [Slots -> Searches], Finish(S, f)
  PROVE  search' \in [Slots -> Searches] /\ s_search_once' \subseteq Slots
         /\ UNCHANGED <<undone, corrupt>>
<1>1. \A s \in Slots : [f[s] EXCEPT !.state = "off", !.done = TRUE] \in Searches
  BY FieldsType
<1> QED
  BY <1>1 DEF Finish, TypeOK

\* What the service task does keeps the structures, the chain and the ghosts.
LEMMA ExecuteType ==
  ASSUME TypeOK, NEW a \in Actions, Execute(a)
  PROVE  search' \in [Slots -> Searches] /\ s_search_once' \subseteq Slots
         /\ undone' \in BOOLEAN /\ corrupt' \in BOOLEAN
<1>1. search \in [Slots -> Searches] /\ s_search_once \subseteq Slots
  BY DEF TypeOK
<1>2. undone \in BOOLEAN /\ corrupt \in BOOLEAN
  BY Zenon DEF TypeOK
<1>3. ASSUME UseAfterFree
      PROVE  UNCHANGED <<search, s_search_once, undone>> /\ corrupt' = TRUE
  BY <1>3 DEF UseAfterFree
<1>4. CASE a.type = "add" /\ Add(a.search)
  <2>1. a.search \in Slots
    BY <1>4 DEF Actions
  <2>2. CASE Live(a.search)
    BY <1>1, <1>2, <1>4, <2>1, <2>2, Zenon DEF Add
  <2>3. CASE ~Live(a.search)
    BY <1>1, <1>2, <1>3, <1>4, <2>3, Zenon DEF Add
  <2> QED
    BY <2>2, <2>3
<1>5. CASE a.type = "send" /\ SendQuery(a.search)
  BY <1>1, <1>2, <1>3, <1>5, Zenon DEF SendQuery
<1>6. CASE a.type = "end" /\ End(a.search)
  <2>1. CASE Finish({a.search}, search)
    BY <1>1, <1>2, <2>1, FinishType, Zenon
  <2>2. CASE UseAfterFree
    BY <1>1, <1>2, <1>3, <2>2, Zenon
  <2> QED
    BY <1>6, <2>1, <2>2, Zenon DEF End
<1>7. CASE a.type = "rx" /\ Parse(a.packet)
  <2> DEFINE added == [s \in Slots |-> IF s \in Matches THEN [search[s] EXCEPT !.found = TRUE]
                                       ELSE search[s]]
  <2>1. added \in [Slots -> Searches]
    BY <1>1, FieldsType
  <2>2. CASE search' = added /\ undone' = TRUE /\ UNCHANGED <<s_search_once, corrupt>>
    BY <1>1, <1>2, <2>1, <2>2, Zenon
  <2>3. CASE Finish({s \in s_search_once : added[s].found}, added)
    <3> HIDE DEF added
    <3> QED
      BY <1>2, <2>1, <2>3, FinishType, Zenon
  <2> QED
    BY <1>7, <2>2, <2>3, Zenon DEF Parse
<1> QED
  BY <1>4, <1>5, <1>6, <1>7 DEF Execute

\* A visit of the timer: what it may do to the structure and to the queue.
LEMMA VisitType ==
  ASSUME TypeOK, NEW s \in Slots, VisitSearch(s)
  PROVE  /\ search' \in [Slots -> Searches]
         /\ \/ queue' = queue
            \/ Room /\ \E a \in Actions : queue' = Append(queue, a)
<1>1. search \in [Slots -> Searches] /\ search[s] \in Searches /\ now \in Times
  BY DEF TypeOK
<1>2. \A t \in {"send", "end"} : [type |-> t, search |-> s] \in Actions
  BY DEF Actions
<1>3. CASE EndSearch(s)
  <2>1. search' = [search EXCEPT ![s] = [search[s] EXCEPT !.state = "off"]]
        \/ search' = [search EXCEPT ![s] = [search[s] EXCEPT !.state = "running"]]
    BY <1>3 DEF EndSearch
  <2>2. search' \in [Slots -> Searches]
    BY <1>1, <2>1, FieldsType
  <2> QED
    BY <1>2, <1>3, <2>2 DEF EndSearch
<1>4. CASE SendSearch(s)
  <2> DEFINE t == IF Room THEN now ELSE (now + W - Resend) % W
  <2>1. now + W - Resend \in Nat
    BY <1>1, MdnsQueryAssumption DEF Times
  <2>2. t \in Times
    BY <1>1, <2>1, TimesType
  <2>3. search' = [search EXCEPT ![s] = [search[s] EXCEPT !.state = "running", !.sent_at = t]]
    BY <1>4 DEF SendSearch
  <2>4. search' \in [Slots -> Searches]
    BY <1>1, <2>2, <2>3, FieldsType
  <2> QED
    BY <1>2, <1>4, <2>4 DEF SendSearch
<1>5. CASE UNCHANGED <<search, queue>>
  BY <1>1, <1>5
<1> QED
  BY <1>3, <1>4, <1>5 DEF VisitSearch

LEMMA QueuedType ==
  ASSUME TypeOK, Room, NEW a \in Actions, queue' = Append(queue, a)
  PROVE  queue' \in Seq(Actions) /\ Len(queue') <= QueueLen
  BY Queued, MdnsQueryAssumption DEF TypeOK, Room

LEMMA NextType == TypeOK /\ [Next]_vars => TypeOK'
<1> SUFFICES ASSUME TypeOK, [Next]_vars PROVE TypeOK'
  OBVIOUS
<1> DEFINE Structures == /\ cur' \in [Callers -> Slots \cup {None}]
                         /\ search' \in [Slots -> Searches]
                         /\ s_search_once' \subseteq Slots
           Queues == queue' \in Seq(Actions) /\ Len(queue') <= QueueLen
           Timed == now' \in Times /\ walk' \subseteq Slots /\ packets' \in 0 .. MaxPackets
           Flags == due' \in BOOLEAN /\ undone' \in BOOLEAN /\ corrupt' \in BOOLEAN
<1>1. SUFFICES Structures /\ Queues /\ Timed /\ Flags
  BY Zenon DEF TypeOK
<1>2. /\ cur \in [Callers -> Slots \cup {None}] /\ search \in [Slots -> Searches]
      /\ s_search_once \subseteq Slots /\ walk \subseteq Slots
      /\ queue \in Seq(Actions) /\ Len(queue) <= QueueLen
      /\ now \in Times /\ packets \in 0 .. MaxPackets
  BY DEF TypeOK
<1>3. due \in BOOLEAN /\ undone \in BOOLEAN /\ corrupt \in BOOLEAN
  BY Zenon DEF TypeOK
<1>4. ASSUME NEW c \in Callers, Query(c) PROVE Structures /\ Queues /\ Timed /\ Flags
  <2>1. PICK s \in Slots : /\ search' = [search EXCEPT ![s] = NewSearch]
                           /\ cur' = [cur EXCEPT ![c] = s]
                           /\ queue' = Append(queue, [type |-> "add", search |-> s])
    BY <1>4 DEF Query
  <2>2. [type |-> "add", search |-> s] \in Actions
    BY DEF Actions
  <2>3. Queues
    BY <1>4, <2>1, <2>2, QueuedType DEF Query
  <2>4. Structures
    BY <1>2, <1>4, <2>1, NewType DEF Query
  <2>5. Timed /\ UNCHANGED <<due, undone, corrupt>>
    BY <1>2, <1>4 DEF Query, timer
  <2> QED
    BY <1>3, <2>3, <2>4, <2>5, Zenon
<1>5. ASSUME NEW c \in Callers, Return(c) PROVE Structures /\ Queues /\ Timed /\ Flags
  <2>1. Structures /\ Queues
    BY <1>2, <1>5, NewType DEF Return
  <2>2. Timed /\ UNCHANGED <<due, undone, corrupt>>
    BY <1>2, <1>5 DEF Return, timer
  <2> QED
    BY <1>3, <2>1, <2>2, Zenon
<1>6. CASE Service
  <2>1. Queues /\ Head(queue) \in Actions
    BY <1>2, <1>6, Taken, MdnsQueryAssumption DEF Service
  <2>2. /\ search' \in [Slots -> Searches] /\ s_search_once' \subseteq Slots
        /\ undone' \in BOOLEAN /\ corrupt' \in BOOLEAN
    BY <1>6, <2>1, ExecuteType, Zenon DEF Service
  <2>3. Timed /\ UNCHANGED <<cur, due>>
    BY <1>2, <1>6 DEF Service, timer
  <2> QED
    BY <1>2, <1>3, <2>1, <2>2, <2>3, Zenon
<1>7. CASE Tick
  <2>1. \A s \in Slots : search[s].age < Timeout + 1 =>
          [search[s] EXCEPT !.age = @ + 1] \in Searches
    <3>1. \A s \in Slots : search[s] \in Searches /\ search[s].age \in 0 .. Timeout + 1
      BY <1>2 DEF Searches
    <3>2. \A s \in Slots : search[s].age < Timeout + 1 =>
            search[s].age + 1 \in 0 .. Timeout + 1
      BY <3>1, MdnsQueryAssumption
    <3> QED
      BY <3>1, <3>2, FieldsType
  <2>2. search' \in [Slots -> Searches]
    BY <1>2, <1>7, <2>1 DEF Tick
  <2>3. now' \in Times
    BY <1>2, <1>7, TimesType, MdnsQueryAssumption DEF Tick, Times
  <2>4. Structures /\ Queues /\ Timed
    BY <1>2, <1>7, <2>2, <2>3 DEF Tick
  <2>5. due' = TRUE /\ UNCHANGED <<undone, corrupt>>
    BY <1>7, Zenon DEF Tick
  <2> QED
    BY <1>3, <2>4, <2>5, Zenon
<1>8. CASE TimerLock
  <2>1. Structures /\ Queues /\ Timed
    BY <1>2, <1>8 DEF TimerLock, memory
  <2>2. due' = FALSE /\ UNCHANGED <<undone, corrupt>>
    BY <1>8, Zenon DEF TimerLock
  <2> QED
    BY <1>3, <2>1, <2>2, Zenon
<1>9. ASSUME NEW s \in Slots, TimerVisit(s) PROVE Structures /\ Queues /\ Timed /\ Flags
  <2>1. search' \in [Slots -> Searches] /\ Queues
    BY <1>2, <1>9, VisitType, QueuedType DEF TimerVisit
  <2>2. Structures /\ Timed /\ UNCHANGED <<due, undone, corrupt>>
    BY <1>2, <1>9, <2>1 DEF TimerVisit
  <2> QED
    BY <1>3, <2>1, <2>2, Zenon
<1>10. CASE Receive
  <2>1. \A p \in Packets : [type |-> "rx", packet |-> p] \in Actions
    BY DEF Actions
  <2>2. Queues
    BY <1>10, <2>1, QueuedType DEF Receive
  <2>3. packets' \in 0 .. MaxPackets
    BY <1>2, <1>10, MdnsQueryAssumption DEF Receive
  <2>4. Structures /\ Timed /\ UNCHANGED <<due, undone, corrupt>>
    BY <1>2, <1>10, <2>3 DEF Receive, memory, timer
  <2> QED
    BY <1>3, <2>2, <2>4, Zenon
<1>11. CASE UNCHANGED vars
  <2>1. Structures /\ Queues /\ Timed /\ UNCHANGED <<due, undone, corrupt>>
    BY <1>2, <1>11 DEF vars, memory, timer
  <2> QED
    BY <1>3, <2>1, Zenon
<1> QED
  BY <1>4, <1>5, <1>6, <1>7, <1>8, <1>9, <1>10, <1>11 DEF Next, Step, Timer

\* The searches, the chain and the queue of actions keep their types, and the queue its
\* length, whoever puts what into it.
THEOREM TypeCorrect == Spec => []TypeOK
<1>1. TypeOK /\ [Next]_vars => TypeOK'
  BY NextType
<1> QED
  BY InitType, <1>1, PTL DEF Spec

-----------------------------------------------------------------------------
(* Nothing that is freed is used.                                          *)

\* An action of the queue that names a search names a structure.
LEMMA SearchOf ==
  ASSUME TypeOK
  PROVE  \A i \in Places : queue[i].type \in {"add", "send", "end"} => queue[i].search \in Slots
<1>1. \A i \in Places : queue[i] \in Actions
  BY DEF TypeOK, Places
<1> QED
  BY <1>1 DEF Actions

\* A step that keeps the searches waited for and the ends' searches off, and queues
\* nothing, or something that names no search of the chain's ends and adds.
LEMMA QuietHeld ==
  ASSUME TypeOK, Held,
         UNCHANGED <<s_search_once, corrupt>>, walk' \subseteq s_search_once,
         \A t \in Slots : Waited(t) => Waited(t)',
         \A t \in Slots : search[t].state = "off" => search'[t].state = "off",
         \/ queue' = queue
         \/ \E a \in Actions : a.type \in {"send", "rx"} /\ queue' = Append(queue, a)
  PROVE  Held'
<1>1. /\ Places \subseteq Places'
      /\ \A i \in Places' : i \in Places \/ queue'[i].type \in {"send", "rx"}
      /\ \A i \in Places : queue'[i] = queue[i]
  <2>1. queue \in Seq(Actions)
    BY DEF TypeOK
  <2>2. CASE queue' = queue
    BY <2>2 DEF Places
  <2>3. CASE \E a \in Actions : a.type \in {"send", "rx"} /\ queue' = Append(queue, a)
    BY <2>1, <2>3, Queued
  <2> QED
    BY <2>2, <2>3
<1>2. \A i \in Places' : queue'[i].type \in {"add", "end"} =>
        i \in Places /\ queue'[i] = queue[i] /\ queue[i].search \in Slots
  BY <1>1, SearchOf
<1>3. s_search_once \subseteq Slots
  BY DEF TypeOK
<1>4. ChainWaited'
  BY <1>3 DEF Held, ChainWaited
<1>5. AddsFirst'
  BY <1>2 DEF Held, AddsFirst
<1>6. AddsOnce' /\ EndsOnce'
  BY <1>2 DEF Held, AddsOnce, EndsOnce
<1>7. EndsOff'
  BY <1>2 DEF Held, EndsOff
<1> QED
  BY <1>4, <1>5, <1>6, <1>7 DEF Held

\* The address of a new search is in no chain and no queue.
LEMMA QueryHeld == ASSUME TypeOK, Held, NEW c \in Callers, Query(c) PROVE Held'
<1>1. PICK s \in Slots : /\ ~Live(s)
                         /\ search' = [search EXCEPT ![s] = NewSearch]
                         /\ cur' = [cur EXCEPT ![c] = s]
                         /\ queue' = Append(queue, [type |-> "add", search |-> s])
  BY DEF Query
<1>2. /\ cur[c] = None /\ UNCHANGED <<s_search_once, walk, corrupt>>
  BY DEF Query, timer
<1>3. /\ cur \in [Callers -> Slots \cup {None}] /\ search \in [Slots -> Searches]
      /\ s_search_once \subseteq Slots /\ queue \in Seq(Actions) /\ now \in Times
  BY DEF TypeOK
<1>4. /\ s \notin s_search_once
      /\ \A i \in Places : queue[i].type \in {"add", "end"} => queue[i].search # s
  BY <1>1 DEF Held, ChainWaited, AddsFirst, EndsOff, Waited
<1>5. /\ Places' = Places \cup {Len(queue) + 1}
      /\ queue'[Len(queue) + 1] = [type |-> "add", search |-> s]
      /\ \A i \in Places : i # Len(queue) + 1 /\ queue'[i] = queue[i]
  <2>1. [type |-> "add", search |-> s] \in Actions
    BY DEF Actions
  <2> QED
    BY <1>1, <1>3, <2>1, Queued
<1>6. \A t \in Slots \ {s} : Waited(t) => Waited(t)'
  <2>1. \A t \in Slots \ {s} : search'[t] = search[t]
    BY <1>1, <1>3
  <2>2. \A t \in Slots \ {s} : Live(t) => Live(t)'
    BY <1>1, <1>2, <1>3, MdnsQueryAssumption DEF Live
  <2> QED
    BY <2>1, <2>2 DEF Waited
<1>7. Waited(s)'
  <2>1. cur'[c] = s /\ search'[s] = NewSearch
    BY <1>1, <1>3
  <2>2. ~NewSearch.done /\ ~NewSearch.found
    BY <1>3, NewType
  <2> QED
    BY <2>1, <2>2, Zenon DEF Waited, Live
<1>8. \A i \in Places : queue[i].type \in {"add", "end"} => queue[i].search \in Slots
  BY SearchOf
<1>9. ChainWaited'
  BY <1>2, <1>3, <1>4, <1>6 DEF Held, ChainWaited
<1>10. AddsFirst'
  BY <1>2, <1>4, <1>5, <1>6, <1>7, <1>8 DEF Held, AddsFirst
<1>11. AddsOnce' /\ EndsOnce'
  BY <1>4, <1>5 DEF Held, AddsOnce, EndsOnce
<1>12. EndsOff'
  <2>1. \A t \in Slots \ {s} : search'[t] = search[t]
    BY <1>1, <1>3
  <2> QED
    BY <1>2, <1>4, <1>5, <1>8, <2>1 DEF Held, EndsOff
<1> QED
  BY <1>2, <1>9, <1>10, <1>11, <1>12 DEF Held

\* What a caller frees is done, so nobody has it any more.
LEMMA ReturnHeld == ASSUME TypeOK, Held, NEW c \in Callers, Return(c) PROVE Held'
<1> DEFINE s == cur[c]
<1>1. /\ s # None /\ search[s].done
      /\ cur' = [cur EXCEPT ![c] = None] /\ search' = [search EXCEPT ![s] = Freed]
      /\ UNCHANGED <<s_search_once, queue, walk, corrupt>>
  BY DEF Return, timer
<1>2. /\ cur \in [Callers -> Slots \cup {None}] /\ search \in [Slots -> Searches]
      /\ s_search_once \subseteq Slots /\ s \in Slots
  BY <1>1 DEF TypeOK
<1>3. \A t \in Slots : Waited(t) => t # s
  BY <1>1 DEF Waited
<1>4. \A t \in Slots : t # s => search'[t] = search[t] /\ (Live(t) => Live(t)')
  BY <1>1, <1>2 DEF Live
<1>5. \A t \in Slots : Waited(t) => Waited(t)'
  BY <1>3, <1>4 DEF Waited
<1>6. Freed.state = "off"
  BY DEF Freed
<1>7. \A t \in Slots : search[t].state = "off" => search'[t].state = "off"
  BY <1>1, <1>2, <1>6
<1> QED
  BY <1>1, <1>5, <1>7, QuietHeld DEF Held

\* The first action is done with, the others stay, and what they say of their searches
\* still holds.
LEMMA ServedHeld ==
  ASSUME TypeOK, Held, queue # <<>>, queue' = Tail(queue), walk' = {}, ~corrupt',
         \A i \in Places, t \in Slots :
           i # 1 /\ queue[i].type = "add" /\ queue[i].search = t =>
             Waited(t)' /\ t \notin s_search_once',
         \A i \in Places, t \in Slots :
           i # 1 /\ queue[i].type = "end" /\ queue[i].search = t =>
             t \in s_search_once' /\ search'[t].state = "off",
         \A t \in s_search_once' : Waited(t)'
  PROVE  Held'
<1>1. \A i \in Places' : i \in Nat /\ i + 1 \in Places /\ i + 1 # 1 /\ queue'[i] = queue[i + 1]
  BY Taken DEF TypeOK
<1>2. \A i \in Places : queue[i].type \in {"add", "send", "end"} => queue[i].search \in Slots
  BY SearchOf
<1>3. ChainWaited'
  BY DEF ChainWaited
<1>4. \A i \in Places', t \in Slots :
        queue'[i].type = "add" /\ queue'[i].search = t => Waited(t)' /\ t \notin s_search_once'
  BY <1>1
<1>5. \A i \in Places' : queue'[i].type \in {"add", "end"} => queue'[i].search \in Slots
  BY <1>1, <1>2
<1>6. AddsFirst'
  BY <1>4, <1>5 DEF AddsFirst
<1>7. EndsOff'
  BY <1>1, <1>5 DEF EndsOff
<1>8. ASSUME NEW i \in Places', NEW j \in Places', queue'[i].search = queue'[j].search,
             queue'[i].type = queue'[j].type, queue'[i].type \in {"add", "end"}
      PROVE  i = j
  <2>1. i + 1 = j + 1
    BY <1>1, <1>8 DEF Held, AddsOnce, EndsOnce
  <2> QED
    BY <1>1, <2>1
<1>9. AddsOnce' /\ EndsOnce'
  BY <1>8 DEF AddsOnce, EndsOnce
<1> QED
  BY <1>3, <1>6, <1>7, <1>9 DEF Held

LEMMA ServiceHeld == ASSUME TypeOK, Held, Service, ~undone' PROVE Held'
<1> DEFINE a == Head(queue)
<1>1. /\ queue # <<>> /\ queue' = Tail(queue) /\ walk' = {} /\ walk = {}
      /\ Execute(a) /\ cur' = cur
  BY DEF Service, locked, timer
<1>2. /\ a = queue[1] /\ 1 \in Places /\ a \in Actions
  BY <1>1, Taken DEF TypeOK
<1>3. /\ search \in [Slots -> Searches] /\ s_search_once \subseteq Slots /\ ~corrupt
      /\ \A i \in Places : queue[i].type \in {"add", "send", "end"} => queue[i].search \in Slots
  BY SearchOf DEF TypeOK, Held
<1>4. \A s : Live(s)' = Live(s)
  BY <1>1, Zenon DEF Live
<1> HIDE DEF a
<1>5. CASE a.type = "add" /\ Add(a.search)
  <2> DEFINE s == a.search
  <2>1. Waited(s) /\ s \notin s_search_once /\ s \in Slots
    BY <1>2, <1>3, <1>5 DEF Held, AddsFirst
  <2>2. /\ s_search_once' = s_search_once \cup {s} /\ UNCHANGED <<search, corrupt>>
    BY <1>5, <2>1 DEF Add, Waited
  <2>3. \A t : Waited(t)' = Waited(t)
    BY <1>4, <2>2, Zenon DEF Waited
  <2>4. \A i \in Places : i # 1 /\ queue[i].type = "add" =>
          Waited(queue[i].search) /\ queue[i].search \notin s_search_once /\ queue[i].search # s
    BY <1>2, <1>5 DEF Held, AddsFirst, AddsOnce
  <2> HIDE DEF s
  <2>5. \A i \in Places : queue[i].type = "end" =>
          queue[i].search \in s_search_once /\ search[queue[i].search].state = "off"
    BY DEF Held, EndsOff
  <2>6. \A t \in s_search_once' : Waited(t)'
    BY <2>1, <2>2, <2>3 DEF Held, ChainWaited
  <2> QED
    BY <1>1, <1>3, <2>2, <2>3, <2>4, <2>5, <2>6, ServedHeld
<1>6. CASE a.type = "send" /\ SendQuery(a.search)
  <2>1. UNCHANGED <<search, s_search_once, corrupt>>
    BY <1>6 DEF SendQuery, Held, ChainWaited, Waited
  <2>2. \A t : Waited(t)' = Waited(t)
    BY <1>4, <2>1, Zenon DEF Waited
  <2> QED
    BY <1>1, <1>3, <2>1, <2>2, ServedHeld DEF Held, ChainWaited, AddsFirst, EndsOff
<1>7. CASE a.type = "end" /\ End(a.search)
  <2> DEFINE s == a.search
  <2>1. s \in s_search_once /\ Live(s) /\ s \in Slots
    BY <1>2, <1>3, <1>7 DEF Held, EndsOff, ChainWaited, Waited
  <2>2. Finish({s}, search)
    BY <1>7, <2>1 DEF End
  <2>3. /\ s_search_once' = s_search_once \ {s} /\ corrupt' = corrupt
        /\ \A t \in Slots : t # s => search'[t] = search[t]
    BY <1>3, <2>2 DEF Finish
  <2>4. \A t \in Slots : t # s => (Waited(t) => Waited(t)')
    BY <1>4, <2>3 DEF Waited
  <2>5. \A i \in Places : queue[i].type = "add" =>
          Waited(queue[i].search) /\ queue[i].search \notin s_search_once /\ queue[i].search # s
    BY <2>1 DEF Held, AddsFirst
  <2>6. \A i \in Places : i # 1 /\ queue[i].type = "end" =>
          /\ queue[i].search \in s_search_once /\ search[queue[i].search].state = "off"
          /\ queue[i].search # s
    BY <1>2, <1>7 DEF Held, EndsOff, EndsOnce
  <2>7. \A t \in s_search_once' : Waited(t)'
    BY <1>3, <2>3, <2>4 DEF Held, ChainWaited
  <2> QED
    BY <1>1, <1>3, <2>3, <2>4, <2>5, <2>6, <2>7, ServedHeld
<1>8. CASE a.type = "rx" /\ Parse(a.packet)
  <2> DEFINE added == [s \in Slots |-> IF s \in Matches THEN [search[s] EXCEPT !.found = TRUE]
                                       ELSE search[s]]
             S == {s \in s_search_once : added[s].found}
  <2>1. Finish(S, added)
    BY <1>8, Zenon DEF Parse
  <2>2. \A t \in Slots : t \in Matches => added[t].found
    BY <1>3, FieldsKept
  <2>3. \A t \in Slots : t \notin Matches => added[t] = search[t]
    OBVIOUS
  <2>4. \A t \in s_search_once : ~search[t].found
    BY DEF Held, ChainWaited, Waited
  <2> HIDE DEF added
  <2>5. S = Matches
    BY <1>3, <2>2, <2>3, <2>4 DEF Matches
  <2>6. /\ s_search_once' = s_search_once \ Matches /\ corrupt' = corrupt
        /\ \A t \in Slots : t \notin Matches => search'[t] = search[t]
    BY <2>1, <2>3, <2>5 DEF Finish
  <2>7. \A t \in Slots : t \notin Matches => (Waited(t) => Waited(t)')
    BY <1>4, <2>6 DEF Waited
  <2>8. \A i \in Places : queue[i].type = "add" =>
          /\ Waited(queue[i].search) /\ queue[i].search \notin s_search_once
          /\ queue[i].search \notin Matches
    BY DEF Held, AddsFirst, Matches
  <2>9. \A i \in Places : queue[i].type = "end" =>
          /\ queue[i].search \in s_search_once /\ search[queue[i].search].state = "off"
          /\ queue[i].search \notin Matches
    BY DEF Held, EndsOff, Matches
  <2>10. \A t \in s_search_once' : Waited(t)'
    BY <1>3, <2>6, <2>7 DEF Held, ChainWaited
  <2> QED
    BY <1>1, <1>3, <2>6, <2>7, <2>8, <2>9, <2>10, ServedHeld
<1> QED
  BY <1>1, <1>5, <1>6, <1>7, <1>8 DEF Execute

LEMMA TickHeld == ASSUME TypeOK, Held, Tick PROVE Held'
<1>1. /\ UNCHANGED <<cur, s_search_once, queue, walk, corrupt>>
      /\ search \in [Slots -> Searches]
  BY DEF Tick, TypeOK
<1>2. \A t \in Slots : /\ search'[t].state = search[t].state
                       /\ search'[t].done = search[t].done
                       /\ search'[t].found = search[t].found
  BY <1>1, FieldsKept DEF Tick
<1>3. \A t \in Slots : Waited(t) => Waited(t)'
  BY <1>1, <1>2 DEF Waited, Live
<1> QED
  BY <1>1, <1>2, <1>3, QuietHeld DEF Held

\* The timer queues an "end" for a search that is not off, so for one that has none.
LEMMA EndSearchHeld ==
  ASSUME TypeOK, Held, NEW s \in s_search_once, search[s].state # "off", EndSearch(s), Room,
         UNCHANGED <<cur, s_search_once, corrupt>>, walk' \subseteq s_search_once
  PROVE  Held'
<1>1. /\ search \in [Slots -> Searches] /\ queue \in Seq(Actions) /\ s \in Slots
      /\ s_search_once \subseteq Slots
  BY DEF TypeOK
<1>2. /\ search' = [search EXCEPT ![s] = [search[s] EXCEPT !.state = "off"]]
      /\ queue' = Append(queue, [type |-> "end", search |-> s])
  BY DEF EndSearch
<1>3. /\ search'[s].state = "off"
      /\ \A t \in Slots : /\ search'[t].done = search[t].done
                          /\ search'[t].found = search[t].found
                          /\ t # s => search'[t].state = search[t].state
  BY <1>1, <1>2, FieldsKept
<1>4. \A t \in Slots : Waited(t) => Waited(t)'
  BY <1>3 DEF Waited, Live
<1>5. /\ Places' = Places \cup {Len(queue) + 1}
      /\ queue'[Len(queue) + 1] = [type |-> "end", search |-> s]
      /\ \A i \in Places : i # Len(queue) + 1 /\ queue'[i] = queue[i]
  <2>1. [type |-> "end", search |-> s] \in Actions
    BY <1>1 DEF Actions
  <2> QED
    BY <1>1, <1>2, <2>1, Queued
<1>6. \A i \in Places : queue[i].type \in {"add", "end"} => queue[i].search \in Slots
  BY SearchOf
<1>7. \A i \in Places : queue[i].type = "end" => queue[i].search # s
  BY DEF Held, EndsOff
<1>8. ChainWaited'
  BY <1>1, <1>4 DEF Held, ChainWaited
<1>9. AddsFirst'
  <2>1. \A i \in Places' : queue'[i].type = "add" =>
          i \in Places /\ queue'[i] = queue[i] /\ queue[i].type = "add"
    BY <1>5
  <2> QED
    BY <1>4, <1>6, <2>1 DEF Held, AddsFirst
<1>10. AddsOnce' /\ EndsOnce'
  BY <1>5, <1>7 DEF Held, AddsOnce, EndsOnce
<1>11. EndsOff'
  BY <1>3, <1>5, <1>6 DEF Held, EndsOff
<1> QED
  BY <1>8, <1>9, <1>10, <1>11 DEF Held

LEMMA TimerVisitHeld == ASSUME TypeOK, Held, NEW s \in Slots, TimerVisit(s) PROVE Held'
<1>1. /\ s \in s_search_once /\ walk' \subseteq s_search_once
      /\ UNCHANGED <<cur, s_search_once, corrupt>>
  BY DEF TimerVisit, Held
<1>2. search \in [Slots -> Searches] /\ VisitSearch(s)
  BY DEF TimerVisit, TypeOK
<1>3. CASE search[s].state # "off" /\ EndSearch(s) /\ Room
  BY <1>1, <1>3, EndSearchHeld
<1>4. CASE search[s].state # "off" /\ (SendSearch(s) \/ (EndSearch(s) /\ ~Room))
  <2>1. PICK r : /\ search' = [search EXCEPT ![s] = r]
                 /\ r.done = search[s].done /\ r.found = search[s].found
    <3>1. search[s] \in Searches
      BY <1>2
    <3>2. CASE SendSearch(s)
      <4>1. PICK t : search' = [search EXCEPT ![s] =
                                  [search[s] EXCEPT !.state = "running", !.sent_at = t]]
        BY <3>2 DEF SendSearch
      <4> DEFINE r == [search[s] EXCEPT !.state = "running", !.sent_at = t]
      <4>2. r.done = search[s].done /\ r.found = search[s].found
        BY <3>1, FieldsKept
      <4>3. search' = [search EXCEPT ![s] = r]
        BY <4>1
      <4> HIDE DEF r
      <4> QED
        BY <4>2, <4>3
    <3>3. CASE EndSearch(s) /\ ~Room
      <4>1. search' = [search EXCEPT ![s] = [search[s] EXCEPT !.state = "running"]]
        BY <3>3 DEF EndSearch
      <4> DEFINE r == [search[s] EXCEPT !.state = "running"]
      <4>2. r.done = search[s].done /\ r.found = search[s].found
        BY <3>1, FieldsKept
      <4>3. search' = [search EXCEPT ![s] = r]
        BY <4>1
      <4> HIDE DEF r
      <4> QED
        BY <4>2, <4>3
    <3> QED
      BY <1>4, <3>2, <3>3
  <2>2. \A t \in Slots : /\ search'[t].done = search[t].done
                         /\ search'[t].found = search[t].found
                         /\ t # s => search'[t].state = search[t].state
    BY <1>2, <2>1
  <2>3. \A t \in Slots : Waited(t) => Waited(t)'
    BY <1>1, <2>2 DEF Waited, Live
  <2>4. [type |-> "send", search |-> s] \in Actions
    BY DEF Actions
  <2>5. \/ queue' = queue
        \/ queue' = Append(queue, [type |-> "send", search |-> s])
    BY <1>4 DEF SendSearch, EndSearch
  <2> QED
    BY <1>1, <1>4, <2>2, <2>3, <2>4, <2>5, QuietHeld
<1>5. CASE UNCHANGED <<search, queue>>
  <2>1. \A t \in Slots : Waited(t) => Waited(t)'
    BY <1>1, <1>5 DEF Waited, Live
  <2> QED
    BY <1>1, <1>5, <2>1, QuietHeld
<1> QED
  BY <1>2, <1>3, <1>4, <1>5 DEF VisitSearch

LEMMA OthersHeld ==
  ASSUME TypeOK, Held, TimerLock \/ Receive \/ UNCHANGED vars
  PROVE  Held'
<1>1. /\ UNCHANGED <<cur, search, s_search_once, corrupt>> /\ walk' \subseteq s_search_once
  BY DEF TimerLock, Receive, vars, memory, timer, Held
<1>2. \A t \in Slots : Waited(t) => Waited(t)'
  BY <1>1 DEF Waited, Live
<1>3. \A p \in Packets : [type |-> "rx", packet |-> p] \in Actions
  BY DEF Actions
<1>4. \/ queue' = queue
      \/ \E p \in Packets : queue' = Append(queue, [type |-> "rx", packet |-> p])
  BY DEF TimerLock, Receive, vars
<1>5. \/ queue' = queue
      \/ \E a \in Actions : a.type \in {"send", "rx"} /\ queue' = Append(queue, a)
  BY <1>3, <1>4
<1> QED
  BY <1>1, <1>2, <1>5, QuietHeld

\* An answer that the parser gives up half way stays so.
LEMMA UndoneStays == TypeOK /\ [Next]_vars /\ undone => undone'
<1> SUFFICES ASSUME TypeOK, [Next]_vars, undone PROVE undone'
  OBVIOUS
<1>1. CASE Service
  <2>1. Execute(Head(queue))
    BY <1>1 DEF Service
  <2>2. UNCHANGED undone \/ undone' = TRUE
    BY <2>1, Zenon
    DEF Execute, Add, SendQuery, End, Parse, Finish, UseAfterFree
  <2> QED
    BY <2>2, Zenon
<1>2. CASE ~Service
  <2>1. undone' = undone
    BY <1>2 DEF Next, Step, Query, Return, Tick, Timer, TimerLock, TimerVisit, Receive, vars
  <2> QED
    BY <2>1, Zenon
<1> QED
  BY <1>1, <1>2

LEMMA InitHeld == Init => HeldWhileDone
<1> SUFFICES ASSUME Init PROVE Held
  BY DEF HeldWhileDone
<1>1. Places = {}
  BY DEF Init, Places
<1> QED
  BY <1>1 DEF Init, Held, ChainWaited, AddsFirst, AddsOnce, EndsOff, EndsOnce

LEMMA NextHeld == TypeOK /\ HeldWhileDone /\ [Next]_vars => HeldWhileDone'
<1> SUFFICES ASSUME TypeOK, HeldWhileDone, [Next]_vars, ~undone' PROVE Held'
  BY DEF HeldWhileDone
<1>1. Held
  BY UndoneStays, Zenon DEF HeldWhileDone
<1> QED
  BY <1>1, QueryHeld, ReturnHeld, ServiceHeld, TickHeld, TimerVisitHeld, OthersHeld, Zenon
  DEF Next, Step, Timer

\* While every answer is taken to the end of the parser, nobody touches a search that its
\* caller has freed, for any number of callers and searches, however short the queue and
\* however the timer, the answers and the callers interleave.
THEOREM NothingFreedIsUsed == Spec => []NoUseAfterFree
<1>1. ASSUME TypeOK, HeldWhileDone PROVE NoUseAfterFree
  <2> SUFFICES ASSUME Held
               PROVE  ~corrupt /\ \A s \in s_search_once \cup Targets({"add", "end"}) :
                                    Live(s) /\ ~search[s].done
    BY <1>1, Zenon DEF HeldWhileDone, NoUseAfterFree
  <2>1. Places = DOMAIN queue
    BY <1>1 DEF TypeOK, Places
  <2>2. \A i \in Places : queue[i].type \in {"add", "end"} => Waited(queue[i].search)
    BY DEF Held, AddsFirst, EndsOff, ChainWaited
  <2>3. \A s \in Targets({"add", "end"}) : Waited(s)
    BY <2>1, <2>2, Zenon DEF Targets
  <2> QED
    BY <2>3 DEF Held, ChainWaited, Waited
<1>2. TypeOK /\ HeldWhileDone /\ [Next]_vars => (TypeOK /\ HeldWhileDone)'
  BY NextType, NextHeld
<1>3. TypeOK /\ HeldWhileDone => NoUseAfterFree
  BY <1>1
<1> QED
  BY InitType, InitHeld, <1>2, <1>3, PTL DEF Spec

-----------------------------------------------------------------------------
(* No query gives up early.                                                *)

\* No two callers wait for the same structure.
Alone == \A c, d \in Callers : cur[c] # None /\ cur[c] = cur[d] => c = d

\* Until it is late, the age of a search is what the clock has gone since its start; it
\* is off only if it is late, or its deadline wraps, or it has what it asked for; and
\* it is done only when it is off.
Late(s) == search[s].age > Timeout \/ Wraps(s)

Aged(s) == search[s].age <= Timeout => now = (search[s].started_at + search[s].age) % W

OffLate(s) == search[s].state = "off" => Late(s) \/ (search[s].done /\ search[s].found)

DoneOff(s) == search[s].done => search[s].state = "off"

OnTime(s) == Aged(s) /\ OffLate(s) /\ DoneOff(s)

\* The inductive invariant behind GivesUpLate, next to HeldWhileDone.
LateInv == ~undone => Alone /\ \A s \in Slots : Live(s) => OnTime(s)

\* Division with remainder is unique.
LEMMA Residue ==
  ASSUME NEW M \in Nat \ {0}, NEW n \in Int, NEW k \in Int, NEW r \in 0 .. M - 1,
         n = (M * k) + r
  PROVE  n % M = r
<1> DEFINE q == n \div M
           m == n % M
<1>1. m \in 0 .. M - 1 /\ q \in Int
  OBVIOUS
<1>2. m = n - (M * q)
  BY Z3
<1> HIDE DEF q, m
<1>3. M * (k - q) = m - r
  BY <1>1, <1>2
<1>4. k - q >= 1 => M * (k - q) >= M
  BY <1>1
<1>5. k - q <= 0 - 1 => M * (k - q) <= 0 - M
  BY <1>1
<1>6. k = q
  BY <1>1, <1>3, <1>4, <1>5
<1>7. m = r
  BY <1>1, <1>3, <1>6
<1> QED
  BY <1>7 DEF m

\* The clock's next reading.
LEMMA NextReading ==
  ASSUME NEW a \in Nat
  PROVE  ((a % W) + 1) % W = (a + 1) % W
<1> DEFINE p == a \div W
           r == a % W
<1>1. W \in Nat \ {0} /\ W > 2
  BY MdnsQueryAssumption
<1>2. r \in 0 .. W - 1 /\ p \in Int
  BY <1>1
<1>3. r = a - (W * p)
  BY <1>1, Z3
<1> HIDE DEF p, r
<1>4. CASE r + 1 < W
  <2>1. a + 1 = (W * p) + (r + 1) /\ r + 1 \in 0 .. W - 1 /\ r + 1 = (W * 0) + (r + 1)
    BY <1>1, <1>2, <1>3, <1>4
  <2>2. a + 1 \in Int /\ r + 1 \in Int
    BY <1>1, <1>2
  <2>3. (a + 1) % W = r + 1
    BY <1>1, <1>2, <2>1, <2>2, Residue
  <2>4. (r + 1) % W = r + 1
    BY <1>1, <2>1, <2>2, Residue
  <2> QED
    BY <2>3, <2>4 DEF r
<1>5. CASE r + 1 = W
  <2>1. W * (p + 1) = (W * p) + W
    BY <1>1, <1>2
  <2>2. a + 1 = (W * (p + 1)) + 0 /\ 0 \in 0 .. W - 1 /\ r + 1 = (W * 1) + 0 /\ p + 1 \in Int
    BY <1>1, <1>2, <1>3, <1>5, <2>1
  <2>3. (a + 1) % W = 0
    BY <1>1, <2>2, Residue
  <2>4. (r + 1) % W = 0
    BY <1>1, <1>2, <2>2, Residue
  <2> QED
    BY <2>3, <2>4 DEF r
<1> QED
  BY <1>1, <1>2, <1>4, <1>5

\* A reading within the clock's range is itself.
LEMMA Reading == \A t \in Times : t % W = t
<1> SUFFICES ASSUME NEW t \in Times PROVE t % W = t
  OBVIOUS
<1>1. W \in Nat \ {0} /\ t \in 0 .. W - 1 /\ t = (W * 0) + t
  BY MdnsQueryAssumption DEF Times
<1> QED
  BY <1>1, Residue

\* The fields of a structure that is in memory.
LEMMA SearchFields ==
  ASSUME TypeOK, NEW s \in Slots
  PROVE  /\ search[s] \in Searches
         /\ search[s].started_at \in Times /\ search[s].age \in 0 .. Timeout + 1
<1>1. search[s] \in Searches
  BY DEF TypeOK
<1> QED
  BY <1>1 DEF Searches

\* What the assignments do to the fields that OnTime speaks of.
LEMMA FieldsTimed ==
  ASSUME NEW r \in Searches
  PROVE  /\ \A v : [r EXCEPT !.state = v].started_at = r.started_at
                   /\ [r EXCEPT !.state = v].age = r.age
         /\ \A v, t : [r EXCEPT !.state = v, !.sent_at = t].started_at = r.started_at
                      /\ [r EXCEPT !.state = v, !.sent_at = t].age = r.age
         /\ \A n : [r EXCEPT !.age = n].started_at = r.started_at
                   /\ [r EXCEPT !.age = n].age = n
         /\ [r EXCEPT !.state = "off", !.done = TRUE].started_at = r.started_at
         /\ [r EXCEPT !.state = "off", !.done = TRUE].age = r.age
         /\ [r EXCEPT !.state = "off", !.done = TRUE].found = r.found
         /\ [r EXCEPT !.state = "off", !.done = TRUE].state = "off"
         /\ [r EXCEPT !.state = "off", !.done = TRUE].done
         /\ [r EXCEPT !.found = TRUE].started_at = r.started_at
         /\ [r EXCEPT !.found = TRUE].age = r.age
         /\ [r EXCEPT !.found = TRUE] \in Searches
  BY Zenon DEF Searches

\* A search that has its answer and is finished.
LEMMA FieldsFinished ==
  ASSUME NEW r \in Searches
  PROVE  LET e == [[r EXCEPT !.found = TRUE] EXCEPT !.state = "off", !.done = TRUE]
         IN  e.started_at = r.started_at /\ e.age = r.age /\ e.state = "off" /\ e.done /\ e.found
  BY Zenon DEF Searches

\* A search whose time has not come has not expired, unless its deadline wraps.
LEMMA ExpiredLate ==
  ASSUME TypeOK, NEW s \in Slots, Aged(s), Expired(s)
  PROVE  Late(s)
<1> DEFINE st == search[s].started_at
           ag == search[s].age
<1>1. st \in Nat /\ ag \in Nat /\ W \in Nat /\ Timeout \in Nat
  BY SearchFields, MdnsQueryAssumption DEF Times
<1>2. SUFFICES ASSUME ag <= Timeout, st + Timeout < W PROVE FALSE
  BY <1>1 DEF Late, Wraps
<1>3. st + Timeout \in Times /\ st + ag \in Times
  BY <1>1, <1>2 DEF Times
<1>4. (st + Timeout) % W = st + Timeout /\ (st + ag) % W = st + ag
  BY <1>3, Reading
<1>5. now = st + ag /\ now > st + Timeout
  BY <1>2, <1>4 DEF Aged, Expired
<1> QED
  BY <1>1, <1>2, <1>5

\* A step that keeps the fields of a search but perhaps lets it run on.
LEMMA QuietOnTime ==
  ASSUME NEW s \in Slots, OnTime(s), UNCHANGED now,
         search'[s].started_at = search[s].started_at, search'[s].age = search[s].age,
         search'[s].done = search[s].done, search'[s].found = search[s].found,
         \/ search'[s].state = search[s].state
         \/ search'[s].state # "off" /\ ~search[s].done
         \/ Late(s)
            /\ search'[s].state = "off"
  PROVE  OnTime(s)'
<1>1. Late(s)' = Late(s) /\ Aged(s)'
  BY DEF OnTime, Late, Wraps, Aged
<1>2. OffLate(s)' /\ DoneOff(s)'
  BY <1>1 DEF OnTime, OffLate, DoneOff
<1> QED
  BY <1>1, <1>2 DEF OnTime

\* The searches nobody writes, of callers that wait on as before.
LEMMA OthersOnTime ==
  ASSUME NEW s \in Slots, Live(s) => OnTime(s), Live(s)' => Live(s),
         UNCHANGED now, search'[s] = search[s]
  PROVE  Live(s)' => OnTime(s)'
  BY DEF OnTime, Aged, OffLate, DoneOff, Late, Wraps

LEMMA QueryLate ==
  ASSUME TypeOK, Alone, \A s \in Slots : Live(s) => OnTime(s), NEW c \in Callers, Query(c)
  PROVE  Alone' /\ \A s \in Slots : Live(s)' => OnTime(s)'
<1>1. PICK s \in Slots : /\ ~Live(s)
                         /\ search' = [search EXCEPT ![s] = NewSearch]
                         /\ cur' = [cur EXCEPT ![c] = s]
  BY DEF Query
<1>2. /\ cur \in [Callers -> Slots \cup {None}] /\ search \in [Slots -> Searches]
      /\ now \in Times /\ UNCHANGED now
  BY DEF TypeOK, Query, timer
<1>3. Alone'
  BY <1>1, <1>2 DEF Alone, Live
<1>4. ASSUME NEW t \in Slots, t # s, Live(t)' PROVE OnTime(t)'
  <2>1. Live(t) /\ search'[t] = search[t]
    BY <1>1, <1>2, <1>4 DEF Live
  <2> QED
    BY <1>2, <1>4, <2>1, OthersOnTime
<1>5. OnTime(s)'
  <2>1. /\ Freed \in Searches /\ Freed.age = 0 /\ Freed.done = FALSE
    BY TimesType, Zenon DEF Freed, Searches
  <2>2. /\ NewSearch.state = "init" /\ NewSearch.started_at = now
        /\ NewSearch.age = 0 /\ NewSearch.done = FALSE
    BY <2>1, Zenon DEF NewSearch, Searches
  <2>3. search'[s] = NewSearch
    BY <1>1, <1>2
  <2>4. now + 0 = now /\ now % W = now
    BY <1>2, Reading DEF Times
  <2>5. Aged(s)'
    BY <1>2, <2>2, <2>3, <2>4 DEF Aged
  <2> QED
    BY <2>2, <2>3, <2>5 DEF OnTime, OffLate, DoneOff
<1> QED
  BY <1>3, <1>4, <1>5

LEMMA ReturnLate ==
  ASSUME TypeOK, Alone, \A s \in Slots : Live(s) => OnTime(s), NEW c \in Callers, Return(c)
  PROVE  Alone' /\ \A s \in Slots : Live(s)' => OnTime(s)'
<1>1. /\ cur[c] # None /\ cur' = [cur EXCEPT ![c] = None]
      /\ search' = [search EXCEPT ![cur[c]] = Freed] /\ UNCHANGED now
  BY DEF Return, timer
<1>2. cur \in [Callers -> Slots \cup {None}] /\ search \in [Slots -> Searches]
  BY DEF TypeOK
<1>3. Alone'
  BY <1>1, <1>2 DEF Alone
<1>4. ASSUME NEW t \in Slots, Live(t)' PROVE OnTime(t)'
  <2>1. PICK d \in Callers : cur'[d] = t
    BY <1>4, Zenon DEF Live
  <2>2. d # c /\ cur[d] = t
    BY <1>1, <1>2, <2>1, MdnsQueryAssumption
  <2>3. t # cur[c] /\ Live(t)
    BY <2>2, MdnsQueryAssumption DEF Alone, Live
  <2>4. search'[t] = search[t]
    BY <1>1, <1>2, <2>3
  <2> QED
    BY <1>1, <1>4, <2>3, <2>4, OthersOnTime
<1> QED
  BY <1>3, <1>4

LEMMA ServiceLate ==
  ASSUME TypeOK, Held, \A s \in Slots : Live(s) => OnTime(s), Service, ~undone'
  PROVE  \A s \in Slots : Live(s)' => OnTime(s)'
<1> DEFINE a == Head(queue)
<1>1. queue # <<>> /\ queue' = Tail(queue) /\ Execute(a) /\ UNCHANGED <<cur, now>>
  BY DEF Service, timer
<1>2. /\ a = queue[1] /\ 1 \in Places /\ a \in Actions
  BY <1>1, Taken DEF TypeOK
<1>3. /\ search \in [Slots -> Searches] /\ s_search_once \subseteq Slots
      /\ \A i \in Places : queue[i].type \in {"add", "send", "end"} => queue[i].search \in Slots
  BY SearchOf DEF TypeOK
<1>4. \A s : Live(s)' = Live(s)
  BY <1>1, Zenon DEF Live
<1> HIDE DEF a
<1>5. CASE UNCHANGED search
  BY <1>1, <1>4, <1>5, OthersOnTime
<1>6. CASE a.type = "add" \/ a.type = "send"
  <2>1. UNCHANGED search
    BY <1>1, <1>6 DEF Execute, Add, SendQuery, UseAfterFree
  <2> QED
    BY <1>5, <2>1
<1>7. CASE a.type = "end"
  <2>1. PICK s \in Slots : s = a.search
    BY <1>2, <1>3, <1>7
  <2>2. s \in s_search_once /\ Live(s) /\ search[s].state = "off" /\ ~search[s].done
    BY <1>2, <1>7, <2>1 DEF Held, EndsOff, ChainWaited, Waited
  <2>3. Finish({s}, search)
    BY <1>1, <1>7, <2>1, <2>2 DEF Execute, End
  <2>4. /\ search'[s] = [search[s] EXCEPT !.state = "off", !.done = TRUE]
        /\ \A t \in Slots : t # s => search'[t] = search[t]
    BY <1>3, <2>3 DEF Finish
  <2>5. /\ search'[s].started_at = search[s].started_at /\ search'[s].age = search[s].age
        /\ search'[s].state = "off"
    BY <1>3, <2>4, FieldsTimed
  <2>6. OnTime(s) /\ Late(s)
    BY <2>2 DEF OnTime, OffLate
  <2>7. Late(s)' = Late(s)
    BY <2>5 DEF Late, Wraps
  <2>8. OnTime(s)'
    BY <1>1, <2>5, <2>6, <2>7 DEF OnTime, Aged, OffLate, DoneOff
  <2> QED
    BY <1>1, <1>4, <2>4, <2>8, OthersOnTime
<1>8. CASE a.type = "rx"
  <2> DEFINE added == [s \in Slots |-> IF s \in Matches THEN [search[s] EXCEPT !.found = TRUE]
                                       ELSE search[s]]
             S == {s \in s_search_once : added[s].found}
  <2>1. Finish(S, added)
    BY <1>1, <1>8, Zenon DEF Execute, Parse
  <2>2. \A t \in Slots : t \in Matches => added[t] = [search[t] EXCEPT !.found = TRUE]
    OBVIOUS
  <2>3. \A t \in Slots : t \notin Matches => added[t] = search[t]
    OBVIOUS
  <2>4. \A t \in Slots : t \in Matches => added[t] \in Searches /\ added[t].found
    BY <1>3, <2>2, FieldsKept, FieldsTimed
  <2>5. \A t \in s_search_once : ~search[t].found
    BY DEF Held, ChainWaited, Waited
  <2> HIDE DEF added
  <2>6. S = Matches
    BY <1>3, <2>3, <2>4, <2>5 DEF Matches
  <2>7. /\ \A t \in Slots : t \notin Matches => search'[t] = search[t]
        /\ \A t \in Slots : t \in Matches =>
             search'[t] = [added[t] EXCEPT !.state = "off", !.done = TRUE]
    BY <2>1, <2>3, <2>6 DEF Finish
  <2>8. ASSUME NEW t \in Slots, t \in Matches, Live(t) PROVE OnTime(t)'
    <3> DEFINE r == [[search[t] EXCEPT !.found = TRUE] EXCEPT !.state = "off", !.done = TRUE]
    <3>1. search'[t] = r
      BY <2>2, <2>7, <2>8
    <3>2. /\ r.started_at = search[t].started_at /\ r.age = search[t].age
          /\ r.state = "off" /\ r.done /\ r.found
      BY <1>3, <2>8, FieldsFinished
    <3> HIDE DEF r
    <3>3. OnTime(t)
      BY <2>8
    <3>4. /\ search'[t].started_at = search[t].started_at /\ search'[t].age = search[t].age
          /\ search'[t].state = "off" /\ search'[t].done /\ search'[t].found
      BY <3>1, <3>2, Zenon
    <3> QED
      BY <1>1, <3>3, <3>4 DEF OnTime, Aged, OffLate, DoneOff
  <2> QED
    BY <1>1, <1>4, <2>7, <2>8, OthersOnTime
<1> QED
  BY <1>1, <1>6, <1>7, <1>8 DEF Execute

\* A period makes every search that is not yet late a period older.
LEMMA TickLate ==
  ASSUME TypeOK, Alone, \A s \in Slots : Live(s) => OnTime(s), Tick
  PROVE  Alone' /\ \A s \in Slots : Live(s)' => OnTime(s)'
<1>1. /\ UNCHANGED cur /\ now' = (now + 1) % W /\ search \in [Slots -> Searches]
  BY DEF Tick, TypeOK
<1>2. Alone' /\ \A s : Live(s)' = Live(s)
  BY <1>1, Zenon DEF Alone, Live
<1>3. ASSUME NEW s \in Slots, Live(s) PROVE OnTime(s)'
  <2>1. /\ search[s].age \in Nat /\ search[s].started_at \in Nat /\ Timeout \in Nat
        /\ search[s].age <= Timeout + 1
    BY SearchFields, MdnsQueryAssumption DEF Times
  <2>2. CASE search[s].age < Timeout + 1
    <3>1. search'[s] = [search[s] EXCEPT !.age = search[s].age + 1]
      BY <1>1, <1>3, <2>2 DEF Tick
    <3>2. /\ search'[s].started_at = search[s].started_at
          /\ search'[s].age = search[s].age + 1
          /\ search'[s].state = search[s].state
          /\ search'[s].done = search[s].done /\ search'[s].found = search[s].found
      BY <1>1, <3>1, FieldsTimed, FieldsKept
    <3>3. now = (search[s].started_at + search[s].age) % W
      BY <1>3, <2>1, <2>2 DEF OnTime, Aged
    <3>4. now' = ((search[s].started_at + search[s].age) + 1) % W
      <4>1. search[s].started_at + search[s].age \in Nat
        BY <2>1
      <4> QED
        BY <1>1, <3>3, <4>1, NextReading
    <3>5. Aged(s)'
      <4>1. (search[s].started_at + search[s].age) + 1 = search[s].started_at + (search[s].age + 1)
        BY <2>1
      <4> QED
        BY <3>2, <3>4, <4>1 DEF Aged
    <3>6. Late(s) => Late(s)'
      BY <2>1, <3>2 DEF Late, Wraps
    <3> QED
      BY <1>3, <3>2, <3>5, <3>6, Zenon DEF OnTime, OffLate, DoneOff
  <2>3. CASE search[s].age = Timeout + 1
    <3>1. search'[s] = search[s]
      BY <1>1, <2>1, <2>3 DEF Tick
    <3>2. Aged(s)' /\ Late(s)' = Late(s)
      BY <2>1, <2>3, <3>1 DEF Aged, Late, Wraps
    <3> QED
      BY <1>3, <3>1, <3>2 DEF OnTime, OffLate, DoneOff
  <2> QED
    BY <2>1, <2>2, <2>3
<1> QED
  BY <1>2, <1>3

\* The timer puts off what is late and nothing else, and the rest runs on.
LEMMA TimerVisitLate ==
  ASSUME TypeOK, Held, Alone, \A s \in Slots : Live(s) => OnTime(s),
         NEW s \in Slots, TimerVisit(s)
  PROVE  Alone' /\ \A t \in Slots : Live(t)' => OnTime(t)'
<1>1. /\ s \in s_search_once /\ UNCHANGED <<cur, now>> /\ VisitSearch(s)
  BY DEF TimerVisit, Held
<1>2. Alone' /\ \A t : Live(t)' = Live(t)
  BY <1>1, Zenon DEF Alone, Live
<1>3. search \in [Slots -> Searches] /\ Live(s) /\ ~search[s].done /\ OnTime(s)
  BY <1>1 DEF TypeOK, Held, ChainWaited, Waited
<1>4. \A t \in Slots : t # s => search'[t] = search[t]
  BY <1>1, <1>3 DEF VisitSearch, EndSearch, SendSearch
<1>5. OnTime(s)'
  <2>1. CASE UNCHANGED <<search, queue>>
    BY <1>1, <1>3, <2>1, QuietOnTime
  <2>2. CASE Expired(s) /\ EndSearch(s) /\ Room
    <3>1. search'[s] = [search[s] EXCEPT !.state = "off"]
      BY <1>3, <2>2 DEF EndSearch
    <3>2. Late(s)
      BY <1>3, <2>2, ExpiredLate DEF OnTime
    <3>3. /\ search'[s].started_at = search[s].started_at /\ search'[s].age = search[s].age
          /\ search'[s].done = search[s].done /\ search'[s].found = search[s].found
          /\ search'[s].state = "off"
      BY <1>3, <3>1, FieldsKept, FieldsTimed
    <3> QED
      BY <1>1, <1>3, <3>2, <3>3, QuietOnTime
  <2>3. CASE EndSearch(s) /\ ~Room
    <3>1. search'[s] = [search[s] EXCEPT !.state = "running"]
      BY <1>3, <2>3 DEF EndSearch
    <3>2. /\ search'[s].started_at = search[s].started_at /\ search'[s].age = search[s].age
          /\ search'[s].done = search[s].done /\ search'[s].found = search[s].found
          /\ search'[s].state # "off"
      BY <1>3, <3>1, FieldsKept, FieldsTimed
    <3> QED
      BY <1>1, <1>3, <3>2, QuietOnTime
  <2>4. CASE SendSearch(s)
    <3>1. PICK t : search'[s] = [search[s] EXCEPT !.state = "running", !.sent_at = t]
      BY <1>3, <2>4 DEF SendSearch
    <3>2. /\ search'[s].started_at = search[s].started_at /\ search'[s].age = search[s].age
          /\ search'[s].done = search[s].done /\ search'[s].found = search[s].found
          /\ search'[s].state # "off"
      BY <1>3, <3>1, FieldsKept, FieldsTimed
    <3> QED
      BY <1>1, <1>3, <3>2, QuietOnTime
  <2> QED
    BY <1>1, <2>1, <2>2, <2>3, <2>4 DEF VisitSearch
<1> QED
  BY <1>1, <1>2, <1>3, <1>4, <1>5, OthersOnTime

LEMMA InitLate == Init => LateInv
<1> SUFFICES ASSUME Init PROVE Alone /\ \A s \in Slots : ~Live(s)
  BY DEF LateInv
<1>1. \A c \in Callers : cur[c] = None
  BY DEF Init
<1> QED
  BY <1>1, MdnsQueryAssumption, Zenon DEF Alone, Live

LEMMA NextLate == TypeOK /\ HeldWhileDone /\ LateInv /\ [Next]_vars => LateInv'
<1> SUFFICES ASSUME TypeOK, HeldWhileDone, LateInv, [Next]_vars, ~undone'
             PROVE  Alone' /\ \A s \in Slots : Live(s)' => OnTime(s)'
  BY DEF LateInv
<1>1. Held /\ Alone /\ \A s \in Slots : Live(s) => OnTime(s)
  BY UndoneStays, Zenon DEF HeldWhileDone, LateInv
<1>2. CASE Service
  <2>1. UNCHANGED cur
    BY <1>2 DEF Service
  <2>2. Alone'
    BY <1>1, <2>1 DEF Alone
  <2> QED
    BY <1>1, <1>2, <2>2, ServiceLate
<1>3. CASE TimerLock \/ Receive \/ UNCHANGED vars
  <2>1. UNCHANGED <<cur, search, now>>
    BY <1>3 DEF TimerLock, Receive, vars, memory, timer
  <2>2. Alone' /\ \A s : Live(s)' = Live(s)
    BY <1>1, <2>1, Zenon DEF Alone, Live
  <2> QED
    BY <1>1, <2>1, <2>2, OthersOnTime
<1> QED
  BY <1>1, <1>2, <1>3, QueryLate, ReturnLate, TickLate, TimerVisitLate, Zenon
  DEF Next, Step, Timer

\* While every answer is taken to the end of the parser, a query that comes back without
\* a result does so only when its time is up, for any number of callers that share the
\* addresses, any timeout and any width of the clock that the deadline does not wrap.
THEOREM NoQueryGivesUpEarly == Spec => []GivesUpLate
<1>1. TypeOK /\ LateInv => GivesUpLate
  BY DEF LateInv, GivesUpLate, OnTime, OffLate, DoneOff, Late
<1>2. TypeOK /\ HeldWhileDone /\ LateInv /\ [Next]_vars => (TypeOK /\ HeldWhileDone /\ LateInv)'
  BY NextType, NextHeld, NextLate
<1> QED
  BY InitType, InitHeld, InitLate, <1>1, <1>2, PTL DEF Spec
=============================================================================
