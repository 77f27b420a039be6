-------------------------- MODULE TelemetryChannel --------------------------
(***************************************************************************)
(* What the path from commsPost on the board to the reader on the network  *)
(* promises, with nothing of how it is kept: messages are numbered in the  *)
(* order they are posted; a post never waits, and is refused only when a   *)
(* full queue of older messages is still on its way; what was accepted may *)
(* get lost, but arrives at most once and never after a newer message.     *)
(***************************************************************************)
EXTENDS Naturals

CONSTANTS QueueLen,   \* the length given to xQueueCreate (comms.c:66)
          MaxPosts    \* bound: messages of a behaviour

VARIABLES posted,     \* messages posted so far
          transit,    \* the accepted ones that are neither received nor lost
          got         \* the message received last, 0 before the first

chanVars == <<posted, transit, got>>

ChanInit == posted = 0 /\ transit = {} /\ got = 0

\* commsPost takes the message ...
Accept ==
  /\ posted < MaxPosts
  /\ posted' = posted + 1
  /\ transit' = transit \cup {posted + 1}
  /\ UNCHANGED got

\* ... or drops it at once, which only QueueLen messages waiting excuse.
Refuse ==
  /\ posted < MaxPosts
  /\ \E q \in [1 .. QueueLen -> transit] :
       \A i, j \in 1 .. QueueLen : i < j => q[i] < q[j]
  /\ posted' = posted + 1
  /\ UNCHANGED <<transit, got>>

\* The reader gets the oldest message on its way.
Receive ==
  \E m \in transit :
    /\ \A k \in transit : m <= k
    /\ got' = m
    /\ transit' = transit \ {m}
    /\ UNCHANGED posted

\* A failing connection loses some of the messages on their way.
Lose ==
  /\ transit' \in SUBSET transit
  /\ UNCHANGED <<posted, got>>

ChanNext == Accept \/ Refuse \/ Receive \/ Lose
ChanSpec == ChanInit /\ [][ChanNext]_chanVars
=============================================================================
