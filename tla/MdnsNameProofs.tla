--------------------------- MODULE MdnsNameProofs ---------------------------
(* Proofs about MdnsName: a host's name is bounded by its rank, for any      *)
(* number of hosts, lost packets, disconnections and restarts.               *)
EXTENDS MdnsName, Integers, FiniteSetTheorems, TLAPS

\* What makes the bound inductive: the packets on their way keep it too, and a host
\* without a name sends nothing.
GoodPackets == {p \in Packets : p.name <= Rank(p.src)}

GoodBoxes == [Hosts -> Seq(GoodPackets)]

NamesBounded ==
  \A h \in Hosts : hostname[h] \in {None} \cup {n \in Nat : n <= Rank(h)}

NamelessSilent == \A h \in Hosts : hostname[h] = None => state[h] \in {"off", "running"}

Counted == lost \in 0 .. MaxLost /\ faults \in 0 .. MaxFaults

IInv ==
  /\ state \in [Hosts -> States]
  /\ DOMAIN hostname = Hosts /\ hostname = [h \in Hosts |-> hostname[h]]
  /\ inbox \in GoodBoxes
  /\ NamesBounded
  /\ NamelessSilent
  /\ Counted

-----------------------------------------------------------------------------

\* A packet sent to any hosts leaves the boxes good.
LEMMA PostKeepsGood ==
  ASSUME NEW box \in GoodBoxes, NEW p \in GoodPackets, NEW to
  PROVE  Post(box, p, to) \in GoodBoxes
<1>1. \A g \in Hosts : Append(box[g], p) \in Seq(GoodPackets)
  BY DEF GoodBoxes
<1> QED
  BY <1>1 DEF Post, GoodBoxes

\* Taking or discarding what is first in a box leaves the boxes good.
LEMMA TailKeepsGood ==
  ASSUME NEW box \in GoodBoxes, NEW h \in Hosts, box[h] # <<>>
  PROVE  /\ [box EXCEPT ![h] = Tail(@)] \in GoodBoxes
         /\ Head(box[h]) \in GoodPackets
<1>1. box[h] \in Seq(GoodPackets)
  BY DEF GoodBoxes
<1>2. Tail(box[h]) \in Seq(GoodPackets) /\ Head(box[h]) \in GoodPackets
  BY <1>1
<1> QED
  BY <1>2 DEF GoodBoxes

\* Emptying a box leaves the boxes good.
LEMMA EmptyKeepsGood ==
  ASSUME NEW box \in GoodBoxes, NEW h \in Hosts
  PROVE  [box EXCEPT ![h] = <<>>] \in GoodBoxes
<1>1. <<>> \in Seq(GoodPackets)
  OBVIOUS
<1> QED
  BY <1>1 DEF GoodBoxes

\* What a host with a name sends keeps the bound.
LEMMA SentIsGood ==
  ASSUME NEW h \in Hosts, hostname[h] \in Nat, hostname[h] <= Rank(h)
  PROVE  ScheduledPacket(h) \in GoodPackets /\ Answer(h) \in GoodPackets
<1>1. (state[h] = "probe1") \in BOOLEAN
  BY Zenon
<1>2. (IF state[h] \in Probing THEN "probe" ELSE "announce") \in {"probe", "announce"}
  OBVIOUS
<1>3. ScheduledPacket(h) \in Packets
  BY <1>1, <1>2, Zenon DEF ScheduledPacket, Packets
<1>4. ScheduledPacket(h).name = hostname[h] /\ ScheduledPacket(h).src = h
  BY Zenon DEF ScheduledPacket
<1>5. Answer(h) \in Packets
  BY Zenon DEF Answer, Packets
<1>6. Answer(h).name = hostname[h] /\ Answer(h).src = h
  BY Zenon DEF Answer
<1> QED
  BY <1>3, <1>4, <1>5, <1>6, Zenon DEF GoodPackets

\* A host that loses to a packet has room for one more name below its rank.
LEMMA LoserHasRoom ==
  ASSUME NEW h \in Hosts, NEW p \in GoodPackets, IsOurs(h, p), TheyWin(h, p)
  PROVE  hostname[h] \in Nat /\ hostname[h] + 1 <= Rank(h)
<1>1. p.name \in Nat /\ p.src \in Hosts /\ p.name <= Rank(p.src)
  BY Zenon DEF GoodPackets, Packets
<1>2. hostname[h] = p.name /\ p.src > h
  BY DEF IsOurs, TheyWin
<1> QED
  BY <1>1, <1>2, MdnsNameAssumption DEF Hosts, Rank

-----------------------------------------------------------------------------

LEMMA InitIInv == Init => IInv
<1> SUFFICES ASSUME Init PROVE IInv
  OBVIOUS
<1>1. inbox \in GoodBoxes
  <2>1. <<>> \in Seq(GoodPackets)
    OBVIOUS
  <2> QED
    BY <2>1 DEF Init, GoodBoxes
<1>2. state \in [Hosts -> States] /\ Counted
  BY MdnsNameAssumption DEF Init, States, Counted
<1>3. /\ DOMAIN hostname = Hosts /\ hostname = [h \in Hosts |-> hostname[h]]
      /\ NamesBounded /\ NamelessSilent
  BY DEF Init, NamesBounded, NamelessSilent
<1> QED
  BY <1>1, <1>2, <1>3 DEF IInv

\* Every action keeps the invariant.
LEMMA NextIInv == IInv /\ [Next]_vars => IInv'
<1> SUFFICES ASSUME IInv, [Next]_vars PROVE IInv'
  OBVIOUS
<1> USE DEF IInv
<1>1. ASSUME NEW h \in Hosts, Enable(h) PROVE IInv'
  <2>1. ProbeState(hostname[h]) \in States
    BY DEF ProbeState, States
  <2>2. NamelessSilent'
    BY <1>1 DEF Enable, ProbeState, NamelessSilent
  <2> QED
    BY <1>1, <2>1, <2>2 DEF Enable, NamesBounded, Counted
<1>2. ASSUME NEW h \in Hosts, Disable(h) PROVE IInv'
  <2>1. inbox' \in GoodBoxes
    BY <1>2, EmptyKeepsGood DEF Disable
  <2>2. NamelessSilent'
    BY <1>2 DEF Disable, NamelessSilent
  <2>3. Counted'
    BY <1>2, MdnsNameAssumption DEF Disable, Counted
  <2> QED
    BY <1>2, <2>1, <2>2, <2>3 DEF Disable, NamesBounded, States
<1>3. ASSUME NEW h \in Hosts, Reboot(h) PROVE IInv'
  <2>1. inbox' \in GoodBoxes
    BY <1>3, EmptyKeepsGood DEF Reboot
  <2>2. NamelessSilent'
    BY <1>3 DEF Reboot, NamelessSilent
  <2>3. Counted'
    BY <1>3, MdnsNameAssumption DEF Reboot, Counted
  <2> QED
    BY <1>3, <2>1, <2>2, <2>3 DEF Reboot, NamesBounded, States
<1>4. ASSUME NEW h \in Hosts, HostnameSet(h) PROVE IInv'
  <2>1. ProbeState(0) \in States
    BY DEF ProbeState, States
  <2>2. 0 \in Nat /\ 0 <= Rank(h) /\ 0 # None
    BY MdnsNameAssumption DEF Rank, Hosts
  <2>3. NamelessSilent'
    BY <1>4, <2>2 DEF HostnameSet, NamelessSilent
  <2>4. NamesBounded'
    BY <1>4, <2>2 DEF HostnameSet, NamesBounded
  <2> QED
    BY <1>4, <2>1, <2>3, <2>4 DEF HostnameSet, Counted
<1>5. ASSUME NEW h \in Hosts, Transmit(h) PROVE IInv'
  <2>1. hostname[h] \in Nat /\ hostname[h] <= Rank(h)
    BY <1>5 DEF Transmit, NamesBounded, NamelessSilent
  <2>2. inbox' \in GoodBoxes
    BY <1>5, <2>1, SentIsGood, PostKeepsGood DEF Transmit
  <2>3. Scheduled(state[h]) \in States
    BY DEF Scheduled, States
  <2>4. NamelessSilent'
    BY <1>5, <2>1, MdnsNameAssumption DEF Transmit, NamelessSilent
  <2> QED
    BY <1>5, <2>2, <2>3, <2>4 DEF Transmit, NamesBounded, Counted
<1>6. ASSUME NEW h \in Hosts, Receive(h) PROVE IInv'
  <2> DEFINE p == Head(inbox[h])
             box == [inbox EXCEPT ![h] = Tail(@)]
  <2>1. inbox[h] # <<>> /\ Parse(h, p, box) /\ UNCHANGED <<lost, faults>>
    BY <1>6 DEF Receive
  <2>2. box \in GoodBoxes /\ p \in GoodPackets
    BY <2>1, TailKeepsGood
  <2> HIDE DEF p, box
  <2>3. CASE IsOurs(h, p) /\ TheyWin(h, p)
    <3>1. Lose(h) /\ inbox' = box
      BY <2>1, <2>3 DEF Parse
    <3>2. hostname[h] \in Nat /\ hostname[h] + 1 <= Rank(h)
      BY <2>2, <2>3, LoserHasRoom
    <3>3. state' = [state EXCEPT ![h] = "probe1"]
      BY <3>1 DEF Lose, Rename
    <3>4. hostname' = [hostname EXCEPT ![h] = @ + 1] \/ hostname' = hostname
      BY <3>1 DEF Lose, Rename
    <3>5. NamesBounded'
      BY <3>2, <3>4 DEF NamesBounded
    <3>6. NamelessSilent'
      BY <3>2, <3>3, <3>4, MdnsNameAssumption DEF NamelessSilent
    <3>7. DOMAIN hostname' = Hosts /\ hostname' = [g \in Hosts |-> hostname'[g]]
      BY <3>4
    <3> QED
      BY <2>1, <2>2, <3>1, <3>3, <3>5, <3>6, <3>7 DEF Counted, States
  <2>4. CASE ~(IsOurs(h, p) /\ TheyWin(h, p))
    <3>1. /\ inbox' = IF IsOurs(h, p) /\ Replies(h, p)
                        THEN Post(box, Answer(h), AnswerTo(h, p)) ELSE box
          /\ UNCHANGED <<state, hostname>>
      BY <2>1, <2>4 DEF Parse
    <3>2. inbox' \in GoodBoxes
      <4>1. CASE IsOurs(h, p)
        <5>1. p.name \in Nat
          BY <2>2, Zenon DEF GoodPackets, Packets
        <5>2. hostname[h] \in Nat /\ hostname[h] <= Rank(h)
          BY <4>1, <5>1, MdnsNameAssumption DEF IsOurs, NamesBounded
        <5> QED
          BY <2>2, <3>1, <5>2, SentIsGood, PostKeepsGood
      <4>2. CASE ~IsOurs(h, p)
        BY <2>2, <3>1, <4>2
      <4> QED
        BY <4>1, <4>2
    <3> QED
      BY <2>1, <3>1, <3>2 DEF NamesBounded, NamelessSilent, Counted
  <2> QED
    BY <2>3, <2>4
<1>7. ASSUME NEW h \in Hosts, Drop(h) PROVE IInv'
  <2>1. inbox' \in GoodBoxes
    BY <1>7, TailKeepsGood DEF Drop
  <2>2. Counted'
    BY <1>7, MdnsNameAssumption DEF Drop, Counted
  <2> QED
    BY <1>7, <2>1, <2>2 DEF Drop, NamesBounded, NamelessSilent
<1>8. CASE UNCHANGED vars
  BY <1>8 DEF vars, NamesBounded, NamelessSilent, Counted
<1> QED
  BY <1>1, <1>2, <1>3, <1>4, <1>5, <1>6, <1>7, <1>8 DEF Next

-----------------------------------------------------------------------------

LEMMA GoodIsTyped == IInv => TypeOK
<1> SUFFICES ASSUME IInv PROVE TypeOK
  OBVIOUS
<1>1. \A h \in Hosts : hostname[h] \in Names \cup {None}
  BY MdnsNameAssumption DEF IInv, NamesBounded, Rank, Hosts, Names
<1>2. hostname \in [Hosts -> Names \cup {None}]
  BY <1>1, Zenon DEF IInv
<1>3. GoodPackets \subseteq Packets
  BY Zenon DEF GoodPackets
<1>4. inbox \in [Hosts -> Seq(Packets)]
  BY <1>3 DEF IInv, GoodBoxes
<1> QED
  BY <1>2, <1>4 DEF IInv, TypeOK, Counted

LEMMA GoodIsBounded == IInv => RankBoundsName
<1> SUFFICES ASSUME IInv PROVE RankBoundsName
  OBVIOUS
<1>1. \A h \in Hosts : hostname[h] # None => hostname[h] <= Rank(h)
  BY DEF IInv, NamesBounded
<1>2. ASSUME NEW h \in Hosts, NEW i \in DOMAIN inbox[h]
      PROVE  inbox[h][i].name <= Rank(inbox[h][i].src)
  <2>1. inbox[h] \in Seq(GoodPackets)
    BY DEF IInv, GoodBoxes
  <2>2. inbox[h][i] \in GoodPackets
    BY <1>2, <2>1
  <2> QED
    BY <2>2, Zenon DEF GoodPackets
<1> QED
  BY <1>1, <1>2 DEF RankBoundsName

\* Every host, whatever packets are lost and whoever restarts, has a name of the list,
\* and the packets on their way are packets.
THEOREM TypeCorrect == Spec => []TypeOK
<1>1. IInv /\ [Next]_vars => IInv'
  BY NextIInv
<1> QED
  BY InitIInv, <1>1, GoodIsTyped, PTL DEF Spec

\* A host is renamed at most once for every host of a higher address, however many
\* hosts there are and however stale the packets are that rename it.
THEOREM NamesByRank == Spec => []RankBoundsName
<1>1. IInv /\ [Next]_vars => IInv'
  BY NextIInv
<1> QED
  BY InitIInv, <1>1, GoodIsBounded, PTL DEF Spec

-----------------------------------------------------------------------------
(* Different names.                                                        *)

\* What the host still sends before it is done: probes, and announcements.
ProbesLeft(h) ==
  CASE state[h] = "probe1" -> 3 [] state[h] = "probe2" -> 2 [] state[h] = "probe3" -> 1
    [] OTHER -> 0

AnnouncesLeft(h) ==
  CASE state[h] = "announce1" -> 3 [] state[h] = "announce2" -> 2
    [] state[h] = "announce3" -> 1 [] OTHER -> 0

\* The packets of a host with the name it has, and the probes among them.
From(h) == {p \in Packets : p.src = h /\ p.name = hostname[h]}
ProbesFrom(g) == {p \in From(g) : p.kind = "probe"}

\* How many packets of a sequence are of the set A.
Count(s, A) == Cardinality({i \in DOMAIN s : s[i] \in A})

\* The chances left for g to hear that h, of a higher address, has its name: h's
\* announcements, g's probes, which h answers, and the packets on their way.
Chances(g, h) ==
  ((AnnouncesLeft(h) + ProbesLeft(g)) + Count(inbox[g], From(h)))
    + Count(inbox[h], ProbesFrom(g))

SameName(g, h) == g < h /\ On(g) /\ On(h) /\ hostname[g] # None /\ hostname[g] = hostname[h]

\* Two hosts of one name have three chances, less the packets lost.
Warned(g, h) == SameName(g, h) => state[h] \in Probing \/ Chances(g, h) + lost >= 3

ChanceInv == \A g, h \in Hosts : Warned(g, h)

-----------------------------------------------------------------------------
(* Counting packets.                                                       *)

LEMMA CountIs ==
  ASSUME NEW S, NEW s \in Seq(S), NEW A
  PROVE  Count(s, A) \in Nat /\ IsFiniteSet({i \in DOMAIN s : s[i] \in A})
<1>1. DOMAIN s = 1 .. Len(s) /\ Len(s) \in Nat
  OBVIOUS
<1>2. IsFiniteSet(1 .. Len(s))
  BY <1>1, FS_Interval
<1>3. IsFiniteSet({i \in DOMAIN s : s[i] \in A})
  BY <1>1, <1>2, FS_Subset
<1> QED
  BY <1>3, FS_CardinalityType DEF Count

LEMMA CountAppend ==
  ASSUME NEW S, NEW s \in Seq(S), NEW e \in S, NEW A
  PROVE  /\ e \in A => Count(Append(s, e), A) = Count(s, A) + 1
         /\ e \notin A => Count(Append(s, e), A) = Count(s, A)
<1> DEFINE t == Append(s, e)
           M == {i \in DOMAIN s : s[i] \in A}
           n == Len(s) + 1
<1>1. /\ DOMAIN t = 1 .. n /\ DOMAIN s = 1 .. Len(s) /\ Len(s) \in Nat
      /\ t[n] = e /\ \A i \in 1 .. Len(s) : t[i] = s[i]
  OBVIOUS
<1> HIDE DEF t
<1>2. IsFiniteSet(M) /\ n \notin M
  <2>1. n \notin DOMAIN s
    BY <1>1
  <2> QED
    BY <2>1, CountIs
<1>3. \A i \in 1 .. n : i \in 1 .. Len(s) \/ i = n
  BY <1>1
<1>4. ASSUME e \in A PROVE {i \in DOMAIN t : t[i] \in A} = M \cup {n}
  BY <1>1, <1>3, <1>4
<1>5. ASSUME e \notin A PROVE {i \in DOMAIN t : t[i] \in A} = M
  BY <1>1, <1>3, <1>5
<1>6. Cardinality(M \cup {n}) = Cardinality(M) + 1
  BY <1>2, FS_AddElement
<1>7. Count(t, A) = Cardinality({i \in DOMAIN t : t[i] \in A}) /\ Count(s, A) = Cardinality(M)
  BY DEF Count
<1> QED
  BY <1>4, <1>5, <1>6, <1>7 DEF t

LEMMA CountTail ==
  ASSUME NEW S, NEW s \in Seq(S), s # <<>>, NEW A
  PROVE  /\ Head(s) \in A => Count(Tail(s), A) = Count(s, A) - 1
         /\ Head(s) \notin A => Count(Tail(s), A) = Count(s, A)
<1> DEFINE t == Tail(s)
           M == {i \in DOMAIN s : s[i] \in A}
           T == {i \in DOMAIN t : t[i] \in A}
           f == [i \in T |-> i + 1]
<1>1. /\ t \in Seq(S) /\ Len(s) \in Nat /\ Len(s) >= 1 /\ Len(t) = Len(s) - 1
      /\ DOMAIN t = 1 .. Len(t) /\ DOMAIN s = 1 .. Len(s)
      /\ \A i \in 1 .. Len(t) : t[i] = s[i + 1]
      /\ Head(s) = s[1]
  OBVIOUS
<1> HIDE DEF t
<1>2. IsFiniteSet(M) /\ IsFiniteSet(T)
  BY <1>1, CountIs
<1>3. f \in Bijection(T, M \ {1})
  <2>1. \A i \in T : i \in 1 .. Len(t) /\ i + 1 \in M \ {1}
    BY <1>1
  <2>2. f \in [T -> M \ {1}]
    BY <2>1
  <2>3. \A i, j \in T : f[i] = f[j] => i = j
    BY <2>1
  <2>4. ASSUME NEW k \in M \ {1} PROVE \E i \in T : f[i] = k
    <3>1. k - 1 \in 1 .. Len(t) /\ (k - 1) + 1 = k
      BY <1>1
    <3>2. k - 1 \in T
      BY <1>1, <3>1
    <3> QED
      BY <3>1, <3>2
  <2> HIDE DEF f, T, M
  <2> QED
    BY <2>2, <2>3, <2>4 DEF Bijection, Injection, Surjection, IsInjective
<1>4. Cardinality(M \ {1}) = Cardinality(T)
  <2>1. ExistsBijection(T, M \ {1})
    BY <1>3 DEF ExistsBijection
  <2> QED
    BY <1>2, <2>1, FS_Bijection
<1>5. 1 \in M <=> Head(s) \in A
  BY <1>1
<1>6. Cardinality(M \ {1}) = IF 1 \in M THEN Cardinality(M) - 1 ELSE Cardinality(M)
  BY <1>2, FS_RemoveElement
<1>7. Count(s, A) = Cardinality(M) /\ Count(t, A) = Cardinality(T)
  BY DEF Count
<1> HIDE DEF M, T
<1> QED
  BY <1>4, <1>5, <1>6, <1>7 DEF t


\* Sending adds to the boxes.
LEMMA PostAdds ==
  ASSUME NEW box \in GoodBoxes, NEW p \in GoodPackets, NEW to, NEW g \in Hosts, NEW A
  PROVE  /\ Count(Post(box, p, to)[g], A) >= Count(box[g], A) /\ Count(box[g], A) \in Nat
         /\ (g \in to /\ On(g) /\ p \in A) =>
              Count(Post(box, p, to)[g], A) = Count(box[g], A) + 1
<1>1. box[g] \in Seq(GoodPackets)
  BY DEF GoodBoxes
<1>2. Count(box[g], A) \in Nat
  BY <1>1, CountIs
<1>3. /\ p \in A => Count(Append(box[g], p), A) = Count(box[g], A) + 1
      /\ p \notin A => Count(Append(box[g], p), A) = Count(box[g], A)
  BY <1>1, CountAppend
<1>4. Post(box, p, to)[g] = IF g \in to /\ On(g) THEN Append(box[g], p) ELSE box[g]
  BY DEF Post
<1> QED
  BY <1>2, <1>3, <1>4

\* Reading takes away the one that is read.
Rest(box, k) == [box EXCEPT ![k] = Tail(@)]

LEMMA ReadTakes ==
  ASSUME NEW box \in GoodBoxes, NEW k \in Hosts, box[k] # <<>>, NEW g \in Hosts, NEW A
  PROVE  /\ Count(box[g], A) \in Nat /\ Count(Rest(box, k)[g], A) \in Nat
         /\ Count(Rest(box, k)[g], A) >= Count(box[g], A) - 1
         /\ (g # k \/ Head(box[k]) \notin A) => Count(Rest(box, k)[g], A) = Count(box[g], A)
<1>1. box[g] \in Seq(GoodPackets) /\ box[k] \in Seq(GoodPackets)
  BY DEF GoodBoxes
<1>2. Count(box[g], A) \in Nat /\ Count(box[k], A) \in Nat
  BY <1>1, CountIs
<1>3. /\ Head(box[k]) \in A => Count(Tail(box[k]), A) = Count(box[k], A) - 1
      /\ Head(box[k]) \notin A => Count(Tail(box[k]), A) = Count(box[k], A)
  BY <1>1, CountTail
<1>4. Rest(box, k)[g] = IF g = k THEN Tail(box[k]) ELSE box[g]
  BY DEF GoodBoxes, Rest
<1>5. Count(Tail(box[k]), A) \in Nat
  <2>1. Tail(box[k]) \in Seq(GoodPackets)
    BY <1>1
  <2> QED
    BY <2>1, CountIs
<1>6. CASE g = k
  BY <1>2, <1>3, <1>4, <1>5, <1>6
<1>7. CASE g # k
  BY <1>2, <1>4, <1>7
<1> QED
  BY <1>6, <1>7

\* The parts of Chances are numbers.
LEMMA ChancesAre ==
  IInv =>
    \A g, h \in Hosts :
      /\ ProbesLeft(g) \in 0 .. 3 /\ AnnouncesLeft(h) \in 0 .. 3
      /\ Count(inbox[g], From(h)) \in Nat /\ Count(inbox[h], ProbesFrom(g)) \in Nat
      /\ lost \in Nat
<1> SUFFICES ASSUME IInv, NEW g \in Hosts, NEW h \in Hosts
             PROVE  /\ ProbesLeft(g) \in 0 .. 3 /\ AnnouncesLeft(h) \in 0 .. 3
                    /\ Count(inbox[g], From(h)) \in Nat
                    /\ Count(inbox[h], ProbesFrom(g)) \in Nat
                    /\ lost \in Nat
  OBVIOUS
<1>1. ProbesLeft(g) \in 0 .. 3
  BY DEF ProbesLeft
<1>2. AnnouncesLeft(h) \in 0 .. 3
  BY DEF AnnouncesLeft
<1>3. inbox[g] \in Seq(GoodPackets) /\ inbox[h] \in Seq(GoodPackets)
  BY DEF IInv, GoodBoxes
<1>4. lost \in Nat
  BY MdnsNameAssumption DEF IInv, Counted
<1> QED
  BY <1>1, <1>2, <1>3, <1>4, CountIs

\* A host that starts probing leaves three chances at least.
StartWarned ==
  \A g, h \in Hosts :
    (state[g] = "probe1" \/ state[h] = "probe1") =>
      state[h] \in Probing \/ Chances(g, h) + lost >= 3

LEMMA ProbingChance == IInv => StartWarned
<1> SUFFICES ASSUME IInv, NEW g \in Hosts, NEW h \in Hosts,
                    state[g] = "probe1" \/ state[h] = "probe1", state[h] \notin Probing
             PROVE  Chances(g, h) + lost >= 3
  BY DEF StartWarned
<1>1. state[g] = "probe1"
  BY DEF Probing
<1>2. ProbesLeft(g) = 3
  BY <1>1 DEF ProbesLeft
<1>3. /\ AnnouncesLeft(h) \in Nat /\ lost \in Nat
      /\ Count(inbox[g], From(h)) \in Nat /\ Count(inbox[h], ProbesFrom(g)) \in Nat
  BY ChancesAre
<1> QED
  BY <1>2, <1>3 DEF Chances

\* What keeps the chances of a pair.
Kept(g, h) ==
  /\ state'[g] = state[g] /\ state'[h] = state[h]
  /\ hostname'[g] = hostname[g] /\ hostname'[h] = hostname[h]
  /\ Count(inbox'[g], From(h)) >= Count(inbox[g], From(h))
  /\ Count(inbox'[h], ProbesFrom(g)) >= Count(inbox[h], ProbesFrom(g))
  /\ Count(inbox'[g], From(h)) \in Nat /\ Count(inbox'[h], ProbesFrom(g)) \in Nat
  /\ lost' >= lost /\ lost' \in Nat

\* The chances of a pair whose names have stayed.
LEMMA ChancesNext ==
  ASSUME NEW g \in Hosts, NEW h \in Hosts,
         hostname'[g] = hostname[g], hostname'[h] = hostname[h]
  PROVE  Chances(g, h)' = ((AnnouncesLeft(h)' + ProbesLeft(g)')
                            + Count(inbox'[g], From(h))) + Count(inbox'[h], ProbesFrom(g))
<1>1. From(h)' = From(h) /\ From(g)' = From(g)
  BY DEF From, Packets
<1>2. ProbesFrom(g)' = ProbesFrom(g)
  BY <1>1 DEF ProbesFrom
<1> QED
  BY <1>1, <1>2 DEF Chances, Count

LEMMA KeptIsWarned ==
  ASSUME IInv, NEW g \in Hosts, NEW h \in Hosts, Warned(g, h), Kept(g, h)
  PROVE  Warned(g, h)'
<1> SUFFICES ASSUME SameName(g, h)', state'[h] \notin Probing
             PROVE  Chances(g, h)' + lost' >= 3
  BY DEF Warned, Probing
<1>1. SameName(g, h) /\ state[h] \notin Probing
  BY DEF Kept, SameName, On
<1>2. Chances(g, h) + lost >= 3
  BY <1>1 DEF Warned
<1>3. AnnouncesLeft(h)' = AnnouncesLeft(h) /\ ProbesLeft(g)' = ProbesLeft(g)
  BY DEF Kept, AnnouncesLeft, ProbesLeft
<1>4. /\ ProbesLeft(g) \in Nat /\ AnnouncesLeft(h) \in Nat /\ lost \in Nat
      /\ Count(inbox[g], From(h)) \in Nat /\ Count(inbox[h], ProbesFrom(g)) \in Nat
  BY ChancesAre
<1>5. Chances(g, h)' = ((AnnouncesLeft(h) + ProbesLeft(g))
                         + Count(inbox'[g], From(h))) + Count(inbox'[h], ProbesFrom(g))
  BY <1>3, ChancesNext DEF Kept
<1> QED
  BY <1>2, <1>4, <1>5 DEF Kept, Chances


LEMMA StartIsWarned ==
  ASSUME IInv', NEW g \in Hosts, NEW h \in Hosts,
         SameName(g, h)' => state'[g] = "probe1" \/ state'[h] = "probe1"
  PROVE  Warned(g, h)'
<1>1. StartWarned'
  BY ProbingChance, PTL
<1>2. (state'[g] = "probe1" \/ state'[h] = "probe1") =>
        state'[h] \in Probing \/ Chances(g, h)' + lost' >= 3
  BY <1>1 DEF StartWarned, Probing
<1> QED
  BY <1>2 DEF Warned, Probing

LEMMA InitChance == Init => ChanceInv
  BY DEF Init, ChanceInv, Warned, SameName, On

\* The boxes of a pair that no step has touched.
LEMMA Untouched ==
  ASSUME IInv, NEW g \in Hosts, NEW h \in Hosts,
         state'[g] = state[g], state'[h] = state[h],
         hostname'[g] = hostname[g], hostname'[h] = hostname[h],
         inbox'[g] = inbox[g], inbox'[h] = inbox[h], lost' = lost
  PROVE  Kept(g, h)
<1>1. /\ Count(inbox[g], From(h)) \in Nat /\ Count(inbox[h], ProbesFrom(g)) \in Nat
      /\ lost \in Nat
  BY ChancesAre
<1>2. lost >= lost
  BY <1>1
<1> QED
  BY <1>1, <1>2 DEF Kept

\* A host comes, goes or takes its name: it probes anew or it is off.
LEMMA HostChance ==
  ASSUME IInv, IInv', ChanceInv, NEW k \in Hosts,
         Enable(k) \/ Disable(k) \/ Reboot(k) \/ HostnameSet(k)
  PROVE  ChanceInv'
<1> SUFFICES ASSUME NEW g \in Hosts, NEW h \in Hosts PROVE Warned(g, h)'
  BY DEF ChanceInv
<1>1. /\ \A i \in Hosts \ {k} : /\ state'[i] = state[i] /\ hostname'[i] = hostname[i]
                                /\ inbox'[i] = inbox[i]
      /\ lost' = lost
  BY DEF Enable, Disable, Reboot, HostnameSet, IInv, GoodBoxes
<1>2. state'[k] = "probe1" \/ state'[k] = "off" \/ hostname'[k] = None
  BY MdnsNameAssumption DEF Enable, Disable, Reboot, HostnameSet, ProbeState, IInv
<1>3. CASE g = k \/ h = k
  <2>1. SameName(g, h)' => state'[k] = "probe1"
    BY <1>2, <1>3 DEF SameName, On
  <2> QED
    BY <1>3, <2>1, StartIsWarned
<1>4. CASE g # k /\ h # k
  <2>1. Kept(g, h)
    BY <1>1, <1>4, Untouched
  <2> QED
    BY <2>1, KeptIsWarned DEF ChanceInv
<1> QED
  BY <1>3, <1>4

\* A packet lost is a chance lost, and counted.
LEMMA DropChance ==
  ASSUME IInv, IInv', ChanceInv, NEW k \in Hosts, Drop(k)
  PROVE  ChanceInv'
<1> SUFFICES ASSUME NEW g \in Hosts, NEW h \in Hosts,
                    SameName(g, h)', state'[h] \notin Probing
             PROVE  Chances(g, h)' + lost' >= 3
  BY DEF ChanceInv, Warned, Probing
<1> DEFINE rest == Rest(inbox, k)
<1>1. /\ UNCHANGED <<state, hostname>> /\ inbox' = rest /\ lost' = lost + 1
      /\ inbox[k] # <<>> /\ inbox \in GoodBoxes
  BY DEF Drop, IInv, Rest
<1>2. SameName(g, h) /\ state[h] \notin Probing /\ g # h
  BY <1>1, MdnsNameAssumption DEF SameName, On, Hosts
<1>3. Chances(g, h) + lost >= 3
  BY <1>2 DEF ChanceInv, Warned
<1> DEFINE A == From(h)
           B == ProbesFrom(g)
<1> HIDE DEF rest, A, B
<1>4. /\ Count(inbox[g], A) \in Nat /\ Count(rest[g], A) \in Nat
      /\ Count(rest[g], A) >= Count(inbox[g], A) - 1
      /\ g # k => Count(rest[g], A) = Count(inbox[g], A)
  BY <1>1, ReadTakes DEF rest
<1>5. /\ Count(inbox[h], B) \in Nat /\ Count(rest[h], B) \in Nat
      /\ Count(rest[h], B) >= Count(inbox[h], B) - 1
      /\ h # k => Count(rest[h], B) = Count(inbox[h], B)
  BY <1>1, ReadTakes DEF rest
<1>6. AnnouncesLeft(h)' = AnnouncesLeft(h) /\ ProbesLeft(g)' = ProbesLeft(g)
  BY <1>1 DEF AnnouncesLeft, ProbesLeft
<1>7. Chances(g, h)' = ((AnnouncesLeft(h) + ProbesLeft(g))
                         + Count(rest[g], A)) + Count(rest[h], B)
  BY <1>1, <1>6, ChancesNext DEF A, B
<1>8. ProbesLeft(g) \in Nat /\ AnnouncesLeft(h) \in Nat /\ lost \in Nat
  BY ChancesAre
<1> QED
  BY <1>1, <1>2, <1>3, <1>4, <1>5, <1>7, <1>8 DEF Chances, A, B


\* What a host sends is counted among its packets, and a probe among its probes.
LEMMA SentIsFrom ==
  ASSUME IInv, NEW k \in Hosts, hostname[k] \in Nat, hostname[k] <= Rank(k)
  PROVE  /\ ScheduledPacket(k) \in From(k) /\ Answer(k) \in From(k)
         /\ state[k] \in Probing => ScheduledPacket(k) \in ProbesFrom(k)
<1>1. ScheduledPacket(k) \in Packets /\ Answer(k) \in Packets
  BY SentIsGood DEF GoodPackets
<1>2. /\ ScheduledPacket(k).src = k /\ ScheduledPacket(k).name = hostname[k]
      /\ Answer(k).src = k /\ Answer(k).name = hostname[k]
  BY Zenon DEF ScheduledPacket, Answer
<1>3. state[k] \in Probing => ScheduledPacket(k).kind = "probe"
  BY DEF ScheduledPacket
<1>4. ScheduledPacket(k) \in From(k) /\ Answer(k) \in From(k)
  BY <1>1, <1>2, Zenon DEF From
<1> QED
  BY <1>3, <1>4, Zenon DEF ProbesFrom

\* A packet sent is a chance on its way.
LEMMA TransmitChance ==
  ASSUME IInv, IInv', ChanceInv, NEW k \in Hosts, Transmit(k)
  PROVE  ChanceInv'
<1> SUFFICES ASSUME NEW g \in Hosts, NEW h \in Hosts,
                    SameName(g, h)', state'[h] \notin Probing
             PROVE  Chances(g, h)' + lost' >= 3
  BY DEF ChanceInv, Warned, Probing
<1> DEFINE p == ScheduledPacket(k)
           A == From(h)
           B == ProbesFrom(g)
<1>1. /\ UNCHANGED <<hostname, lost>> /\ inbox' = Post(inbox, p, Hosts \ {k})
      /\ state[k] \notin {"off", "running"}
      /\ state' = [state EXCEPT ![k] = Scheduled(state[k])]
      /\ inbox \in GoodBoxes /\ state \in [Hosts -> States]
  BY DEF Transmit, IInv
<1>2. hostname[k] \in Nat /\ hostname[k] <= Rank(k)
  BY <1>1 DEF IInv, NamesBounded, NamelessSilent
<1>3. /\ p \in GoodPackets /\ p \in From(k) /\ (state[k] \in Probing => p \in ProbesFrom(k))
  BY <1>2, SentIsGood, SentIsFrom
<1>4. g # h /\ g < h /\ On(g) /\ On(h) /\ SameName(g, h)
  BY <1>1, MdnsNameAssumption DEF SameName, On, Hosts
<1> HIDE DEF p, A, B
<1>5. /\ Count(inbox'[g], A) >= Count(inbox[g], A) /\ Count(inbox[g], A) \in Nat
      /\ (g # k /\ p \in A) => Count(inbox'[g], A) = Count(inbox[g], A) + 1
  BY <1>1, <1>3, <1>4, PostAdds
<1>6. /\ Count(inbox'[h], B) >= Count(inbox[h], B) /\ Count(inbox[h], B) \in Nat
      /\ (h # k /\ p \in B) => Count(inbox'[h], B) = Count(inbox[h], B) + 1
  BY <1>1, <1>3, <1>4, PostAdds
<1>7. Count(inbox'[g], A) \in Nat /\ Count(inbox'[h], B) \in Nat
  <2>1. inbox' \in GoodBoxes
    BY DEF IInv
  <2>2. inbox'[g] \in Seq(GoodPackets) /\ inbox'[h] \in Seq(GoodPackets)
    BY <2>1 DEF GoodBoxes
  <2> QED
    BY <2>2, CountIs
<1>8. /\ ProbesLeft(g) \in Nat /\ AnnouncesLeft(h) \in Nat /\ lost \in Nat
  BY ChancesAre
<1>9. /\ Chances(g, h) = ((AnnouncesLeft(h) + ProbesLeft(g)) + Count(inbox[g], A))
                           + Count(inbox[h], B)
      /\ Chances(g, h)' = ((AnnouncesLeft(h)' + ProbesLeft(g)') + Count(inbox'[g], A))
                            + Count(inbox'[h], B)
  BY <1>1, ChancesNext DEF Chances, A, B
\* The last probe of h: its three announcements are still to come.
<1>10. CASE state[h] \in Probing
  <2>1. k = h /\ state'[h] = "announce1"
    BY <1>1, <1>10 DEF Probing, Scheduled
  <2>2. AnnouncesLeft(h)' = 3 /\ ProbesLeft(g)' = ProbesLeft(g)
    BY <1>1, <1>4, <2>1 DEF AnnouncesLeft, ProbesLeft
  <2> QED
    BY <1>1, <1>7, <1>8, <1>9, <2>2
<1>11. CASE state[h] \notin Probing
  <2>0. Chances(g, h) + lost >= 3
    BY <1>4, <1>11 DEF ChanceInv, Warned
  <2>1. CASE k = h
    <3>1. p \in A
      BY <1>3, <2>1 DEF A
    <3>2. AnnouncesLeft(h)' = AnnouncesLeft(h) - 1 /\ ProbesLeft(g)' = ProbesLeft(g)
      BY <1>1, <1>4, <1>11, <2>1 DEF AnnouncesLeft, ProbesLeft, Probing, Scheduled, States
    <3> QED
      BY <1>1, <1>4, <1>5, <1>6, <1>7, <1>8, <1>9, <2>0, <2>1, <3>1, <3>2
  <2>2. CASE k = g /\ state[g] \in Probing
    <3>1. p \in B
      BY <1>3, <2>2 DEF B
    <3>2. AnnouncesLeft(h)' = AnnouncesLeft(h) /\ ProbesLeft(g)' = ProbesLeft(g) - 1
      BY <1>1, <1>4, <2>2 DEF AnnouncesLeft, ProbesLeft, Probing, Scheduled
    <3> QED
      BY <1>1, <1>4, <1>5, <1>6, <1>7, <1>8, <1>9, <2>0, <2>2, <3>1, <3>2
  <2>3. CASE k # h /\ ~(k = g /\ state[g] \in Probing)
    <3>1. AnnouncesLeft(h)' = AnnouncesLeft(h) /\ ProbesLeft(g)' = ProbesLeft(g)
      BY <1>1, <1>4, <2>3 DEF AnnouncesLeft, ProbesLeft, Probing, Scheduled
    <3> QED
      BY <1>1, <1>5, <1>6, <1>7, <1>8, <1>9, <2>0, <3>1
  <2> QED
    BY <2>1, <2>2, <2>3
<1> QED
  BY <1>10, <1>11

\* A packet received is the chance taken, answered by another, or none at all.
LEMMA ReceiveChance ==
  ASSUME IInv, IInv', ChanceInv, NEW k \in Hosts, Receive(k)
  PROVE  ChanceInv'
<1> SUFFICES ASSUME NEW g \in Hosts, NEW h \in Hosts PROVE Warned(g, h)'
  BY DEF ChanceInv
<1> DEFINE q == Head(inbox[k])
           box == Rest(inbox, k)
<1>1. /\ inbox[k] # <<>> /\ Parse(k, q, box) /\ UNCHANGED <<lost, faults>>
      /\ inbox \in GoodBoxes /\ state \in [Hosts -> States]
  BY DEF Receive, Rest, IInv
<1>2. box \in GoodBoxes /\ q \in GoodPackets
  BY <1>1, TailKeepsGood DEF Rest
<1>3. \A i \in Hosts \ {k} : box[i] = inbox[i]
  BY <1>1 DEF Rest, GoodBoxes
<1>4. q \in Packets /\ q.name \in Nat
  BY <1>2, Zenon DEF GoodPackets, Packets
<1> HIDE DEF q
<1>5. CASE IsOurs(k, q) /\ TheyWin(k, q)
  <2>1. Lose(k) /\ inbox' = box
    BY <1>1, <1>5 DEF Parse
  <2>2. /\ state' = [state EXCEPT ![k] = "probe1"]
        /\ \A i \in Hosts \ {k} : hostname'[i] = hostname[i]
    BY <2>1 DEF Lose, Rename, IInv
  <2>3. CASE g = k \/ h = k
    <3>1. state'[g] = "probe1" \/ state'[h] = "probe1"
      BY <1>1, <2>2, <2>3
    <3> QED
      BY <3>1, StartIsWarned
  <2>4. CASE g # k /\ h # k
    <3>1. inbox'[g] = inbox[g] /\ inbox'[h] = inbox[h]
      BY <1>3, <2>1, <2>4
    <3>2. Kept(g, h)
      BY <1>1, <2>2, <2>4, <3>1, Untouched
    <3> QED
      BY <3>2, KeptIsWarned DEF ChanceInv
  <2> QED
    BY <2>3, <2>4
<1>6. CASE ~(IsOurs(k, q) /\ TheyWin(k, q))
  <2> DEFINE A == From(h)
             B == ProbesFrom(g)
             answered == IsOurs(k, q) /\ Replies(k, q)
  <2>1. /\ inbox' = IF answered THEN Post(box, Answer(k), AnswerTo(k, q)) ELSE box
        /\ UNCHANGED <<state, hostname, lost>>
    BY <1>1, <1>6 DEF Parse
  <2> SUFFICES ASSUME SameName(g, h), state[h] \notin Probing
               PROVE  Kept(g, h) \/ Chances(g, h)' + lost' >= 3
    <3>1. SameName(g, h)' <=> SameName(g, h)
      BY <2>1 DEF SameName, On
    <3>2. state'[h] = state[h]
      BY <2>1
    <3> QED
      BY <3>1, <3>2, KeptIsWarned DEF Warned, ChanceInv, Probing
  <2>2. g # h /\ g < h /\ On(g) /\ On(h) /\ hostname[g] = hostname[h]
    BY MdnsNameAssumption DEF SameName, Hosts
  <2>3. answered => hostname[k] \in Nat /\ hostname[k] <= Rank(k)
    BY <1>4, MdnsNameAssumption DEF IsOurs, IInv, NamesBounded
  <2>4. answered => Answer(k) \in GoodPackets /\ Answer(k) \in From(k)
    BY <2>3, SentIsGood, SentIsFrom
  <2> HIDE DEF A, B, answered, box
  <2>5. /\ Count(inbox'[g], A) >= Count(box[g], A)
        /\ (answered /\ g \in AnswerTo(k, q) /\ Answer(k) \in A) =>
             Count(inbox'[g], A) = Count(box[g], A) + 1
        /\ Count(inbox'[h], B) >= Count(box[h], B)
        /\ Count(box[g], A) \in Nat /\ Count(box[h], B) \in Nat
    <3>1. box[g] \in Seq(GoodPackets) /\ box[h] \in Seq(GoodPackets)
      BY <1>2 DEF GoodBoxes
    <3>2. Count(box[g], A) \in Nat /\ Count(box[h], B) \in Nat
      BY <3>1, CountIs
    <3>3. CASE answered
      <4>1. inbox' = Post(box, Answer(k), AnswerTo(k, q)) /\ Answer(k) \in GoodPackets
        BY <2>1, <2>4, <3>3
      <4>2. /\ Count(inbox'[g], A) >= Count(box[g], A)
            /\ (g \in AnswerTo(k, q) /\ Answer(k) \in A) =>
                 Count(inbox'[g], A) = Count(box[g], A) + 1
        BY <1>2, <2>2, <4>1, PostAdds
      <4>3. Count(inbox'[h], B) >= Count(box[h], B)
        BY <1>2, <4>1, PostAdds
      <4> QED
        BY <3>2, <4>2, <4>3
    <3>4. CASE ~answered
      <4>1. inbox' = box
        BY <2>1, <3>4
      <4> QED
        BY <3>2, <3>4, <4>1
    <3> QED
      BY <3>3, <3>4
  <2>6. /\ Count(inbox[g], A) \in Nat
        /\ (g # k \/ q \notin A) => Count(box[g], A) = Count(inbox[g], A)
    BY <1>1, ReadTakes DEF box, q
  <2>7. /\ Count(inbox[h], B) \in Nat /\ Count(box[h], B) >= Count(inbox[h], B) - 1
        /\ (h # k \/ q \notin B) => Count(box[h], B) = Count(inbox[h], B)
    BY <1>1, ReadTakes DEF box, q
  <2>8. lost \in Nat /\ ProbesLeft(g) \in Nat /\ AnnouncesLeft(h) \in Nat
    BY ChancesAre
  <2>9. Count(inbox'[g], A) \in Nat /\ Count(inbox'[h], B) \in Nat
    <3>1. inbox' \in GoodBoxes
      BY DEF IInv
    <3>2. inbox'[g] \in Seq(GoodPackets) /\ inbox'[h] \in Seq(GoodPackets)
      BY <3>1 DEF GoodBoxes
    <3> QED
      BY <3>2, CountIs
\* g reads nothing of h's with its own name: it would have lost.
  <2>10. Count(box[g], A) = Count(inbox[g], A)
    <3>1. CASE g = k
      <4>1. q \in A => q.src = h /\ q.name = hostname[h]
        BY DEF A, From
      <4>2. q \notin A
        BY <1>6, <2>2, <3>1, <4>1 DEF IsOurs, TheyWin
      <4> QED
        BY <2>6, <4>2
    <3> QED
      BY <2>6, <3>1
  <2>11. CASE h # k \/ q \notin B
    <3>1. Kept(g, h)
      BY <2>1, <2>5, <2>6, <2>7, <2>8, <2>9, <2>10, <2>11 DEF Kept, A, B
    <3> QED
      BY <3>1
\* h answers a probe of g's.
  <2>12. CASE h = k /\ q \in B
    <3>1. q.kind = "probe" /\ q.src = g /\ q.name = hostname[g]
      BY <2>12 DEF B, ProbesFrom, From
    <3>2. state[h] \in AfterProbing
      BY <1>1, <2>2 DEF States, AfterProbing, Probing, On
    <3>3. answered
      BY <2>2, <2>12, <3>1, <3>2 DEF answered, IsOurs, Replies
    <3>4. g \in AnswerTo(k, q) /\ Answer(k) \in A
      BY <2>2, <2>4, <2>12, <3>1, <3>3 DEF AnswerTo, A
    <3>5. Count(inbox'[g], A) = Count(inbox[g], A) + 1
      BY <2>5, <2>10, <3>3, <3>4
    <3>6. AnnouncesLeft(h)' = AnnouncesLeft(h) /\ ProbesLeft(g)' = ProbesLeft(g)
      BY <2>1 DEF AnnouncesLeft, ProbesLeft
    <3>7. /\ Chances(g, h) = ((AnnouncesLeft(h) + ProbesLeft(g)) + Count(inbox[g], A))
                               + Count(inbox[h], B)
          /\ Chances(g, h)' = ((AnnouncesLeft(h) + ProbesLeft(g)) + Count(inbox'[g], A))
                                + Count(inbox'[h], B)
      BY <2>1, <3>6, ChancesNext DEF Chances, A, B
    <3>8. Chances(g, h) + lost >= 3
      BY DEF ChanceInv, Warned
    <3> QED
      BY <2>1, <2>5, <2>6, <2>7, <2>8, <2>9, <3>5, <3>7, <3>8
  <2> QED
    BY <2>11, <2>12
<1> QED
  BY <1>5, <1>6

LEMMA NextChance == IInv /\ ChanceInv /\ [Next]_vars => ChanceInv'
<1> SUFFICES ASSUME IInv, ChanceInv, [Next]_vars PROVE ChanceInv'
  OBVIOUS
<1>1. IInv'
  BY NextIInv
<1>2. CASE UNCHANGED vars
  <2> SUFFICES ASSUME NEW g \in Hosts, NEW h \in Hosts PROVE Warned(g, h)'
    BY DEF ChanceInv
  <2>1. Kept(g, h)
    BY <1>2, Untouched DEF vars
  <2> QED
    BY <2>1, KeptIsWarned DEF ChanceInv
<1>3. CASE Next
  <2>1. PICK k \in Hosts : \/ Enable(k) \/ Disable(k) \/ Reboot(k) \/ HostnameSet(k)
                           \/ Transmit(k) \/ Receive(k) \/ Drop(k)
    BY <1>3 DEF Next
  <2> QED
    BY <1>1, <2>1, HostChance, TransmitChance, ReceiveChance, DropChance
<1> QED
  BY <1>2, <1>3

\* Without a packet on its way and nothing left to send there is no chance left.
LEMMA SettledChances ==
  ASSUME IInv, NEW g \in Hosts, NEW h \in Hosts, Settled(g), Settled(h)
  PROVE  Chances(g, h) = 0
<1>1. \A A : Count(<<>>, A) = 0
  <2> TAKE A
  <2>1. {i \in DOMAIN <<>> : <<>>[i] \in A} = {}
    OBVIOUS
  <2> QED
    BY <2>1, FS_EmptySet DEF Count
<1>2. AnnouncesLeft(h) = 0 /\ ProbesLeft(g) = 0
  BY DEF Settled, AnnouncesLeft, ProbesLeft
<1> QED
  BY <1>1, <1>2 DEF Settled, Chances

LEMMA ChanceImplies == IInv /\ ChanceInv => NamesDiffer
<1> SUFFICES ASSUME IInv, ChanceInv, lost < 3, NEW g \in Hosts, NEW h \in Hosts,
                    g < h, Settled(g), Settled(h), hostname[g] = hostname[h]
             PROVE  FALSE
  BY MdnsNameAssumption DEF NamesDiffer, Hosts
<1>1. SameName(g, h) /\ state[h] \notin Probing
  BY DEF SameName, Settled, On, Probing
<1>2. Chances(g, h) + lost >= 3 /\ Chances(g, h) = 0 /\ lost \in Nat
  BY <1>1, SettledChances, ChancesAre DEF ChanceInv, Warned
<1> QED
  BY <1>2

\* Boards that are done have different names, however many there are and whoever restarts
\* or loses the network meanwhile, as long as fewer packets are lost than the three probes
\* and their answers (mdns_pcb.c:180, mdns_receive.c:1184).
THEOREM DifferentNames == Spec => []NamesDiffer
<1>1. Init => IInv /\ ChanceInv
  BY InitIInv, InitChance
<1>2. IInv /\ ChanceInv /\ [Next]_vars => (IInv /\ ChanceInv)'
  BY NextIInv, NextChance
<1> QED
  BY <1>1, <1>2, ChanceImplies, PTL DEF Spec
=============================================================================
