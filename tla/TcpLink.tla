------------------------------- MODULE TcpLink -------------------------------
(***************************************************************************)
(* kits/communication/tcp_client/TcpClient.cpp and                          *)
(* kits/communication/tcp_server/TcpServer.cpp, joined by a network that    *)
(* delays, refuses and breaks connections.  Each client and the server run  *)
(* on an event loop, so a slot is one step.  The server keeps its clients   *)
(* in m_clients under the descriptor of their socket; the system gives a    *)
(* new socket any descriptor that no open socket has.                       *)
(***************************************************************************)
EXTENDS Integers, Sequences, FiniteSets

CONSTANTS Clients,         \* TcpClient objects
          Descriptors,     \* socket descriptors of the server process
          MaxConnections,  \* m_maxConnections
          Reconnects,      \* clients created with reconnectms_ > 0
          Backlog,         \* bound: connections the listening socket can hold
          NoClient

ASSUME LinkAssumption == /\ MaxConnections \in Nat /\ Backlog \in Nat
                         /\ Reconnects \subseteq Clients
                         /\ IsFiniteSet(Descriptors)
                         /\ NoClient \notin Clients

VARIABLES state,      \* tcp_->state() of each client
          bconnect,   \* bconnect_
          timer,      \* reconnectTimer_ is active
          lost,       \* clients whose connection is gone and who can see it
          backlog,    \* connections the listening socket has for the server
          peer,       \* the client at the other end of each open server socket
          gone,       \* open server sockets whose client is gone
          m_clients,  \* the descriptor of each entry, and whether its socket is open
          rejected    \* history: open connections in m_clients when one was refused

client   == <<state, bconnect, timer>>
server   == <<peer, gone, m_clients, rejected>>
linkVars == <<state, bconnect, timer, lost, backlog, peer, gone, m_clients, rejected>>

\* start() has been called: the socket is connecting.
LinkInit == /\ state = [c \in Clients |-> "connecting"]
            /\ bconnect = [c \in Clients |-> FALSE]
            /\ timer = [c \in Clients |-> FALSE]
            /\ lost = {}
            /\ backlog = <<>>
            /\ peer = [d \in Descriptors |-> NoClient]
            /\ gone = {}
            /\ m_clients = [d \in Descriptors |-> "absent"]
            /\ rejected = {}

Open    == {d \in Descriptors : peer[d] # NoClient}
Entries == {d \in Descriptors : m_clients[d] # "absent"}

\* The server's end of the current connection of c, if it has accepted it.
ServerEnd(c) == {d \in Open \ gone : peer[d] = c}

-----------------------------------------------------------------------------
(* TcpClient.                                                              *)

\* The reconnect timer fires: connectToServer skips a socket that is busy.
Reconnect(c) == /\ timer[c]
                /\ state[c] = "unconnected"
                /\ state' = [state EXCEPT ![c] = "connecting"]
                /\ UNCHANGED <<bconnect, timer, lost, backlog, server>>

OnConnected(c) == /\ state' = [state EXCEPT ![c] = "connected"]
                  /\ bconnect' = [bconnect EXCEPT ![c] = TRUE]
                  /\ timer' = [timer EXCEPT ![c] = FALSE]

\* Mutant of OnError: only a lost connection starts the timer.
OnErrorConnectedOnly(c) == /\ state' = [state EXCEPT ![c] = "unconnected"]
                           /\ bconnect' = [bconnect EXCEPT ![c] = FALSE]
                           /\ timer' = [timer EXCEPT ![c] = @ \/ (c \in Reconnects /\ bconnect[c])]

\* onError, and onDisconnected after it if the socket was connected: both
\* clear the flag and start the timer if there is one and it is stopped.
OnError(c) == /\ state' = [state EXCEPT ![c] = "unconnected"]
              /\ bconnect' = [bconnect EXCEPT ![c] = FALSE]
              /\ timer' = [timer EXCEPT ![c] = c \in Reconnects]

\* The network completes the connection, which waits for the server's loop ...
Connected(c) == /\ state[c] = "connecting" /\ Len(backlog) < Backlog
                /\ OnConnected(c)
                /\ backlog' = Append(backlog, c)
                /\ UNCHANGED <<lost, server>>

\* ... or refuses it or times out.
Refused(c) == /\ state[c] = "connecting"
              /\ OnError(c)
              /\ UNCHANGED <<lost, backlog, server>>

\* The connection breaks: the server's end, or the place in the backlog, stays.
Break(c) == /\ state[c] = "connected" /\ c \notin lost
            /\ lost' = lost \cup {c}
            /\ gone' = gone \cup ServerEnd(c)
            /\ UNCHANGED <<client, backlog, peer, m_clients, rejected>>

\* The client sees its connection closed.
Lost(c) == /\ c \in lost
           /\ lost' = lost \ {c}
           /\ OnError(c)
           /\ UNCHANGED <<backlog, server>>

-----------------------------------------------------------------------------
(* TcpServer, one connection of onNewConnection at a time.                 *)

\* A connection in the backlog whose client has left it since.
Stale(c, i) == c \in lost \/ state[c] # "connected" \/ \E j \in (i + 1)..Len(backlog) : backlog[j] = c

\* m_clients is full: the socket is closed.
Reject == /\ backlog # <<>>
          /\ Cardinality(Entries) >= MaxConnections
          /\ LET c == Head(backlog)
             IN lost' = IF Stale(c, 1) THEN lost ELSE lost \cup {c}
          /\ rejected' = rejected \cup {Cardinality(Open)}
          /\ backlog' = Tail(backlog)
          /\ UNCHANGED <<client, peer, gone, m_clients>>

\* Mutant of Accept: the client is announced and not kept.
AcceptUnkept == /\ backlog # <<>>
                /\ Cardinality(Entries) < MaxConnections
                /\ LET c == Head(backlog)
                   IN \E d \in Descriptors \ Open :
                         /\ peer' = [peer EXCEPT ![d] = c]
                         /\ gone' = IF Stale(c, 1) THEN gone \cup {d} ELSE gone
                /\ backlog' = Tail(backlog)
                /\ UNCHANGED <<client, lost, m_clients, rejected>>

\* A client under a new descriptor replaces a closed one under the same key.
Accept == /\ backlog # <<>>
          /\ Cardinality(Entries) < MaxConnections
          /\ LET c == Head(backlog)
             IN \E d \in Descriptors \ Open :
                   /\ peer' = [peer EXCEPT ![d] = c]
                   /\ gone' = IF Stale(c, 1) THEN gone \cup {d} ELSE gone
                   /\ m_clients' = [m_clients EXCEPT ![d] = "open"]
          /\ backlog' = Tail(backlog)
          /\ UNCHANGED <<client, lost, rejected>>

\* The server sees a socket closed.  socketDescriptor() is -1 by then, so the
\* erase finds no entry and the client object stays.
OnDisconnected(d) == /\ d \in gone
                     /\ peer' = [peer EXCEPT ![d] = NoClient]
                     /\ gone' = gone \ {d}
                     /\ m_clients' = [m_clients EXCEPT ![d] = "closed"]
                     /\ UNCHANGED <<client, lost, backlog, rejected>>

OnNewConnection == Reject \/ Accept

-----------------------------------------------------------------------------
LinkNext == \/ \E c \in Clients : Reconnect(c) \/ Connected(c) \/ Refused(c) \/ Break(c) \/ Lost(c)
            \/ OnNewConnection
            \/ \E d \in Descriptors : OnDisconnected(d)

LinkSpec == LinkInit /\ [][LinkNext]_linkVars

\* Event loops run, timers fire, a connection attempt ends one way or the
\* other, and a closed connection is seen at both ends.
FairLinkSpec == /\ LinkSpec
                /\ \A c \in Clients : /\ WF_linkVars(Reconnect(c))
                                      /\ WF_linkVars(Connected(c) \/ Refused(c))
                                      /\ WF_linkVars(Lost(c))
                /\ WF_linkVars(OnNewConnection)
                /\ \A d \in Descriptors : WF_linkVars(OnDisconnected(d))
-----------------------------------------------------------------------------
\* The shape of the state.
LinkTypeOK == /\ state \in [Clients -> {"unconnected", "connecting", "connected"}]
              /\ bconnect \in [Clients -> BOOLEAN]
              /\ timer \in [Clients -> BOOLEAN]
              /\ lost \subseteq Clients
              /\ backlog \in Seq(Clients) /\ Len(backlog) <= Backlog
              /\ peer \in [Descriptors -> Clients \cup {NoClient}]
              /\ gone \subseteq Open
              /\ m_clients \in [Descriptors -> {"absent", "open", "closed"}]
              /\ rejected \subseteq 0..Cardinality(Descriptors)

\* getConnect() tells the state of the socket after every slot, whichever of
\* the signals connected, disconnected and errorOccurred came last.
FlagTellsState == \A c \in Clients : bconnect[c] <=> state[c] = "connected"

\* m_clients is the only owner of the client objects: the entry of every open
\* socket is the object of that socket, however often its descriptor was used.
OpenIsKept == \A d \in Open : m_clients[d] = "open"

\* A client that lost its connection, or never got one, tries again.
RetriesForever == \A c \in Reconnects : state[c] = "unconnected" ~> state[c] = "connecting"

\* A connection is refused only when MaxConnections clients are connected: the
\* log of TcpServer.cpp:59 says of each refusal that there are too many.  Does
\* not hold (README), no run checks it.
RejectsOnlyWhenFull == \A n \in rejected : n >= MaxConnections
=============================================================================
