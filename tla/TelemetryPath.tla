--------------------------- MODULE TelemetryPath ---------------------------
(***************************************************************************)
(* comms.c and renderer.py together: the board's connect loop of CommsLink *)
(* against the server that really answers it, _read_loop, which its        *)
(* operator may stop and start again.                                      *)
(*                                                                         *)
(* Every connection has a socket of its own on the board, so a connection  *)
(* is named by that socket.                                                *)
(***************************************************************************)
EXTENDS CommsLink

VARIABLES
  srv,       \* the server: "off", "bind", "accept", "recv", "closed" (its listening
             \* socket is), "ended" (its thread is, its process is not)
  client,    \* the connection it reads, None otherwise
  backlog,   \* a connection its system has taken and accept has not, None otherwise
  older      \* messages of the wire that belong to connections before sock's

server == <<srv, client, backlog>>
path   == <<vars, server, older>>

Listening == srv \in {"accept", "recv"}

PathInit ==
  /\ Init
  /\ srv = "off" /\ ~named /\ client = None /\ backlog = None
  /\ older = 0

-----------------------------------------------------------------------------
(* The board.                                                              *)

\* The steps in which it meets nobody.
BoardAlone ==
  /\ Post \/ Start \/ QueryMdns \/ Take \/ Send
  /\ UNCHANGED <<server, older>>

NewSocket ==
  /\ OpenSocket
  /\ older' = Len(wire)
  /\ UNCHANGED server

\* listen(0) leaves room for one connection that is not accepted yet.
Reached ==
  /\ sock # None /\ Listening /\ backlog = None
  /\ ConnectWorks
  /\ backlog' = sock

Refused ==
  /\ sock = None \/ ~Listening \/ backlog # None
  /\ pc' = "mdns"
  /\ UNCHANGED <<link, outside, backlog>>

ConnectToServer ==
  /\ pc = "connect"
  /\ Reached \/ Refused
  /\ UNCHANGED <<queue, rmsg, sock, sockets, wire, ghosts, srv, client, older>>

Board == BoardAlone \/ NewSocket \/ ConnectToServer

-----------------------------------------------------------------------------
(* The server's thread.                                                    *)

\* The socket is bound and listens; as long as the address is still in use the
\* thread waits and tries again.
Bind ==
  /\ srv = "bind"
  /\ srv' = "accept"
  /\ UNCHANGED <<vars, client, backlog, older>>

AcceptClient ==
  /\ srv = "accept" /\ backlog # None
  /\ srv' = "recv" /\ client' = backlog /\ backlog' = None
  /\ UNCHANGED <<vars, older>>

ReadMessage ==
  /\ srv = "recv"
  /\ client = sock \/ older > 0
  /\ Deliver
  /\ older' = IF older > 0 THEN older - 1 ELSE 0
  /\ UNCHANGED server

\* What the system does to the connections of a server that stops listening.
ResetConnection ==
  /\ backlog' = None
  /\ link' = IF link = "up" THEN "dead" ELSE link
  /\ wire' = <<>> /\ older' = 0
  /\ UNCHANGED <<queue, thread, ghosts, refusals, breaks>>

\* recv returns nothing: the connection has ended, and the finally closes the
\* listening socket, with the connection that may be waiting for accept.
ReadEnd ==
  /\ srv = "recv" /\ older = 0
  /\ client # sock \/ (link # "up" /\ wire = <<>>)
  /\ srv' = "closed" /\ client' = None
  /\ ResetConnection
  /\ UNCHANGED named

\* accept raises, and nobody catches it: the thread ends, the process goes on and
\* so does its mDNS service.
AcceptFails ==
  /\ srv = "closed"
  /\ srv' = "ended"
  /\ UNCHANGED <<vars, client, backlog, older>>

Server == Bind \/ AcceptClient \/ ReadMessage \/ ReadEnd \/ AcceptFails

-----------------------------------------------------------------------------
(* The operator and the network (external).                                *)

\* The process ends, with its name and its connections.
Quit ==
  /\ srv # "off"
  /\ srv' = "off" /\ client' = None /\ named' = FALSE
  /\ ResetConnection

\* A new one registers the name before it has a socket that listens.
Launch ==
  /\ srv = "off"
  /\ srv' = "bind" /\ named' = TRUE
  /\ UNCHANGED <<queue, thread, link, wire, ghosts, refusals, breaks>>
  /\ UNCHANGED <<client, backlog, older>>

Lose ==
  /\ Break /\ Len(wire') >= older
  /\ UNCHANGED <<server, older>>

PathNext == Board \/ Server \/ Quit \/ Launch \/ Lose

PathSpec == PathInit /\ [][PathNext]_path

\* Both threads are scheduled.  A connection that has ended is noticed by the
\* server's system; nothing else is asked of the network or of the operator.
PathFairSpec ==
  /\ PathSpec
  /\ WF_path(Board /\ pc' # pc)
  /\ WF_path(Server)

-----------------------------------------------------------------------------
(* Properties.                                                             *)

\* The comment at comms.c:158 says of connect: "in a loop so we can go back to
\* retrying socket connection if it fails".  A server that waits for a board that
\* is in that loop is connected to, or goes away.
Connecting     == pc \in {"mdns", "socket", "connect"}
WaitingIsFound == (srv = "accept" /\ Connecting) ~> srv # "accept"

=============================================================================
