------------------------------ MODULE Offload ------------------------------
(***************************************************************************)
(* renderer.py, networkParser: the thread that accepts the board's         *)
(* connection, cuts what recv returns into packets at the newlines and     *)
(* hands them to the parser.  The board and TCP, which may cut the stream  *)
(* of bytes into pieces anywhere, are external.                            *)
(*                                                                         *)
(* Byte k of message m is <<m, k>>, and <<m, 0>> is the newline that ends  *)
(* it.  The first byte is the "<>" without which a packet is ignored.      *)
(***************************************************************************)
EXTENDS Naturals, Sequences

CONSTANTS
  LongLen,     \* bytes of a distances message, over 150, its newline included
  ShortLen,    \* bytes of another message, 30 to 60
  ChunkMax,    \* the most recv returns, 128
  MaxPosts,    \* bound: messages the board sends
  MaxBreaks    \* bound: connections that end

ASSUME OffloadAssumption ==
  /\ LongLen \in Nat \ {0, 1}
  /\ ShortLen \in 2 .. LongLen
  /\ MaxPosts \in Nat
  /\ MaxBreaks \in Nat
  /\ ChunkMax \in Nat \ {0}

Newline(b) == b[2] = 0

VARIABLES
  pc,          \* the thread: "bind", "accept", "recv" or "ended" by an error
  listening,   \* the listening socket is open
  board,       \* its end of the connection: "down" or "up"
  stream,      \* bytes of the connection recv has not returned
  buffer,      \* self._buffer
  parsed,      \* the packets _handlePacket has taken for messages
  sizes,       \* the lengths of the messages the board has sent
  breaks       \* connections that have ended

vars == <<pc, listening, board, stream, buffer, parsed, sizes, breaks>>

Init ==
  /\ pc = "bind" /\ listening = FALSE
  /\ board = "down" /\ stream = <<>>
  /\ buffer = <<>> /\ parsed = <<>>
  /\ sizes = <<>> /\ breaks = 0

\* A message without its newline, and with it.
Body(m)  == [k \in 1 .. sizes[m] - 1 |-> <<m, k>>]
Bytes(m, n) == Append([k \in 1 .. n - 1 |-> <<m, k>>], <<m, 0>>)

-----------------------------------------------------------------------------
(* _read_loop.                                                             *)

\* bind and listen (a bind that fails waits, and is tried again).
Bind ==
  /\ pc = "bind"
  /\ listening' = TRUE
  /\ pc' = "accept"
  /\ UNCHANGED <<board, stream, buffer, parsed, sizes, breaks>>

\* accept, together with the board's connect.
Accept ==
  /\ pc = "accept" /\ listening
  /\ board' = "up"
  /\ pc' = "recv"
  /\ UNCHANGED <<listening, stream, buffer, parsed, sizes, breaks>>

\* accept on a closed socket raises an OSError nobody catches.
AcceptRaises ==
  /\ pc = "accept" /\ ~listening
  /\ pc' = "ended"
  /\ UNCHANGED <<listening, board, stream, buffer, parsed, sizes, breaks>>

\* _handlePacket.  A packet that begins like a message and is not one is
\* taken for a message, or an exception ends the thread.
HandlePacket(p) ==
  IF p = <<>> \/ p[1][2] # 1
    THEN UNCHANGED <<parsed, pc, listening>>
    ELSE \/ parsed' = Append(parsed, p) /\ UNCHANGED <<pc, listening>>
         \/ /\ \A m \in DOMAIN sizes : p # Body(m)
            /\ pc' = "ended" /\ listening' = FALSE /\ UNCHANGED parsed

\* The place of c's first newline after place i, or the place after its end.
Cut(c, i) ==
  LET places == {k \in i + 1 .. Len(c) : Newline(c[k])}
  IN  IF places = {} THEN Len(c) + 1 ELSE CHOOSE k \in places : \A l \in places : k <= l

\* Mutant: the rest of the piece is not kept.
UpdateBufferForgets(c) ==
  IF Cut(c, 0) > Len(c)
    THEN buffer' = buffer \o c /\ UNCHANGED <<parsed, pc, listening>>
    ELSE /\ HandlePacket(buffer \o SubSeq(c, 1, Cut(c, 0) - 1))
         /\ buffer' = <<>>

\* Mutant: line 159 appends to the buffer.
UpdateBufferPiles(c) ==
  IF Cut(c, 0) > Len(c)
    THEN buffer' = buffer \o c /\ UNCHANGED <<parsed, pc, listening>>
    ELSE /\ HandlePacket(buffer \o SubSeq(c, 1, Cut(c, 0) - 1))
         /\ buffer' = buffer \o SubSeq(c, Cut(c, 0) + 1, Cut(c, Cut(c, 0)) - 1)

\* Mutant: the rest of the piece keeps its newline.
UpdateBufferNewline(c) ==
  IF Cut(c, 0) > Len(c)
    THEN buffer' = buffer \o c /\ UNCHANGED <<parsed, pc, listening>>
    ELSE /\ HandlePacket(buffer \o SubSeq(c, 1, Cut(c, 0) - 1))
         /\ buffer' = SubSeq(c, Cut(c, 0), Cut(c, Cut(c, 0)) - 1)

\* _handleUpdateBuffer: what is before the first newline ends a packet, what is
\* between it and the next one begins another, the rest is dropped.
UpdateBuffer(c) ==
  IF Cut(c, 0) > Len(c)
    THEN buffer' = buffer \o c /\ UNCHANGED <<parsed, pc, listening>>
    ELSE /\ HandlePacket(buffer \o SubSeq(c, 1, Cut(c, 0) - 1))
         /\ buffer' = SubSeq(c, Cut(c, 0) + 1, Cut(c, Cut(c, 0)) - 1)

\* recv returns a piece of the stream.
Recv ==
  /\ pc = "recv"
  /\ \E n \in 1 .. Len(stream) :
       /\ n <= ChunkMax
       /\ UpdateBuffer(SubSeq(stream, 1, n))
       /\ stream' = SubSeq(stream, n + 1, Len(stream))
  /\ UNCHANGED <<board, sizes, breaks>>

\* The finally of line 210 closes self.sock.
CloseSocket == listening' = FALSE

\* recv returns nothing: the connection has ended, and the loop starts over.
RecvEnd ==
  /\ pc = "recv" /\ board = "down" /\ stream = <<>>
  /\ CloseSocket
  /\ pc' = "accept"
  /\ UNCHANGED <<board, stream, buffer, parsed, sizes, breaks>>

Thread == Bind \/ Accept \/ AcceptRaises \/ Recv \/ RecvEnd

-----------------------------------------------------------------------------
(* The board and its connection (external).                                *)

BoardSends ==
  /\ board = "up" /\ Len(sizes) < MaxPosts
  /\ \E n \in {LongLen, ShortLen} :
       /\ sizes' = Append(sizes, n)
       /\ stream' = stream \o Bytes(Len(sizes) + 1, n)
  /\ UNCHANGED <<pc, listening, board, buffer, parsed, breaks>>

\* The connection ends, and with it the newer part of what was on its way.
BoardLeaves ==
  /\ board = "up" /\ breaks < MaxBreaks
  /\ breaks' = breaks + 1
  /\ board' = "down"
  /\ \E n \in 0 .. Len(stream) : stream' = SubSeq(stream, 1, n)
  /\ UNCHANGED <<pc, listening, buffer, parsed, sizes>>

Next == Thread \/ BoardSends \/ BoardLeaves

Spec == Init /\ [][Next]_vars

-----------------------------------------------------------------------------
(* Properties.                                                             *)

\* The type invariant.
TypeOK ==
  /\ pc \in {"bind", "accept", "recv", "ended"}
  /\ listening \in BOOLEAN
  /\ board \in {"down", "up"}
  /\ sizes \in Seq({LongLen, ShortLen}) /\ Len(sizes) <= MaxPosts
  /\ stream \in Seq((DOMAIN sizes) \X (0 .. LongLen - 1))
  /\ buffer \in Seq((DOMAIN sizes) \X (1 .. LongLen - 1))
  /\ parsed \in Seq(Seq((DOMAIN sizes) \X (1 .. LongLen - 1)))
  /\ breaks \in 0 .. MaxBreaks

\* The place of a byte in its message: the newline is the last.
Place(b) == IF Newline(b) THEN sizes[b[1]] ELSE b[2]

\* While the board has sent no message shorter than what recv returns, so nothing but
\* distances, then however recv cuts the stream the parser is given the messages whole
\* and in order, the buffer is the beginning of the next one, and what is still to be
\* received goes on where the buffer ends (renderer.py:153-161).
ParsedWhole ==
  (\A m \in DOMAIN sizes : sizes[m] >= ChunkMax) =>
    /\ \A m \in DOMAIN parsed : parsed[m] = Body(m)
    /\ \A k \in DOMAIN buffer : buffer[k] = <<Len(parsed) + 1, k>>
    /\ IF stream # <<>>
         THEN stream[1][1] = Len(parsed) + 1 /\ Place(stream[1]) = Len(buffer) + 1
         ELSE board = "up" => Len(parsed) = Len(sizes) /\ buffer = <<>>

\* b comes before c in what the board has sent.
Before(b, c) == b[1] < c[1] \/ (b[1] = c[1] /\ 0 < b[2] /\ b[2] < c[2])

\* Whatever is dropped, no byte is parsed twice or before an earlier one, within
\* a packet and from one to the next and to the buffer (renderer.py:153-161).
ParsedInOrder ==
  LET pieces == Append(parsed, buffer)
  IN  \A q, r \in 1 .. Len(pieces) :
        \A k \in 1 .. Len(pieces[q]), l \in 1 .. Len(pieces[r]) :
          (q < r \/ (q = r /\ k < l)) => Before(pieces[q][k], pieces[r][l])

\* Software/README.md:2 says: "Then, received data is passed to Viser": a message
\* of which every byte has been received has been handed on, or is complete in
\* the buffer and will be.
ReceivedIsPassedOn ==
  (breaks = 0 /\ pc = "recv") =>
    \A m \in DOMAIN sizes :
      (\A k \in DOMAIN stream : stream[k][1] > m) =>
        buffer = Body(m) \/ \E q \in DOMAIN parsed : parsed[q] = Body(m)

=============================================================================
