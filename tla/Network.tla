------------------------------ MODULE Network ------------------------------
(***************************************************************************)
(* Clients join and leave a server (core/gs_core_network.c).               *)
(*                                                                         *)
(* The server keeps a table of the peers whose connection was reported to  *)
(* it, under ids derived from the peer's slot in ENet's host, and every    *)
(* message and callback names a client by its id.  A client is one call of *)
(* gs_core_network_client_create.  Of ENet the model has the states of a   *)
(* peer and the handshakes that change them; commands between two hosts    *)
(* may overtake each other.  A remote procedure call is an event of its    *)
(* sender and its receiver, without contents.                              *)
(***************************************************************************)
EXTENDS Naturals

CONSTANTS
  Clients,             \* the calls of gs_core_network_client_create
  MaxPeers,            \* max_connections of the server
  MaxSends,            \* bound: calls the clients send
  MaxResets,           \* bound: calls of gs_core_network_disconnect on the server
  MaxCrashes           \* bound: clients that vanish without a word

\* Whom a free peer and a message that reaches nobody stand for.
NoClient == "none"

ASSUME NetworkAssumption ==
  /\ NoClient \notin Clients
  /\ MaxPeers \in Nat \ {0}
  /\ MaxSends \in Nat
  /\ MaxResets \in Nat
  /\ MaxCrashes \in Nat

VARIABLES
  peer,                \* enet->host->peers of the server: state and client of each
  clients,             \* enet->server.clients: from ids to peers
  draining,            \* is the server in the loop of gs_core_enet_server_disconnect?
  conn,                \* each client's ENet peer, whether client.server is set, and id
  up, down,            \* commands on their way to the server, and to each client
  sends, resets, crashes,  \* counters for the bounds
  \* History variables, read by properties only.
  known                \* ids the server's callbacks announced, with the client behind

vars == <<peer, clients, draining, conn, up, down, sends, resets, crashes,
          known>>
links == <<conn, up, down>>
counters == <<sends, resets, crashes>>
-----------------------------------------------------------------------------
Peers == 0 .. MaxPeers - 1

\* incomingPeerID + GS_CORE_NETWORK_CLIENT_ID_START; zero is the server.
Id(p) == p + 1

Ids == {Id(p) : p \in Peers}

PeerStates   == {"disconnected", "acknowledging_connect", "connected", "disconnecting", "zombie"}
ClientStates == {"none", "connecting", "connected", "disconnecting", "closed", "crashed"}
Commands     == [type : {"connect", "ack_connect", "data", "disconnect", "ack_disconnect"}, slot : {0}]
                  \cup [type : {"verify_connect"}, slot : Peers]

Command(type) == [type |-> type, slot |-> 0]

Put(f, k, v) == [x \in DOMAIN f \cup {k} |-> IF x = k THEN v ELSE f[x]]
Drop(f, k)   == [x \in DOMAIN f \ {k} |-> f[x]]

Init ==
  /\ peer = [p \in Peers |-> [state |-> "disconnected", client |-> NoClient]]
  /\ clients = [i \in {} |-> 0]
  /\ draining = FALSE
  /\ conn = [c \in Clients |-> [state |-> "none", server |-> FALSE, id |-> 0]]
  /\ up = [c \in Clients |-> {}]
  /\ down = [c \in Clients |-> {}]
  /\ sends = 0
  /\ resets = 0
  /\ crashes = 0
  /\ known = [i \in {} |-> NoClient]
-----------------------------------------------------------------------------
(* The clients. *)

Send(q, c, type) == q' = [q EXCEPT ![c] = @ \cup {Command(type)}]

\* gs_core_network_client_create asks for a connection ...
Join(c) ==
  /\ conn[c].state = "none"
  /\ conn' = [conn EXCEPT ![c] = [state |-> "connecting", server |-> TRUE, id |-> 0]]
  /\ Send(up, c, "connect")
  /\ UNCHANGED <<peer, clients, draining, down, counters, known>>

\* ... and takes its id from the slot the server gave it ...
Joined(c) ==
  /\ conn[c].state = "connecting"
  /\ \E m \in down[c] :
       /\ m.type = "verify_connect"
       /\ conn' = [conn EXCEPT ![c] = [state |-> "connected", server |-> TRUE, id |-> Id(m.slot)]]
       /\ down' = [down EXCEPT ![c] = @ \ {m}]
  /\ Send(up, c, "ack_connect")
  /\ UNCHANGED <<peer, clients, draining, counters, known>>

\* ... or gives up after five seconds, without telling the server.
JoinFails(c) ==
  /\ conn[c].state = "connecting"
  /\ conn' = [conn EXCEPT ![c] = [state |-> "closed", server |-> FALSE, id |-> 0]]
  /\ down' = [down EXCEPT ![c] = {}]
  /\ UNCHANGED <<peer, clients, draining, up, counters, known>>

\* gs_core_network_rpc_send of a client.
ClientSend(c) ==
  /\ conn[c].server
  /\ conn[c].state = "connected"
  /\ sends < MaxSends
  /\ sends' = sends + 1
  /\ Send(up, c, "data")
  /\ UNCHANGED <<peer, clients, draining, conn, down, resets, crashes, known>>

\* gs_core_enet_client_disconnect: what is not sent yet is thrown away.
ClientDisconnect(c) ==
  /\ conn[c].state = "connected"
  /\ conn' = [conn EXCEPT ![c].state = "disconnecting", ![c].server = FALSE]
  /\ \E kept \in {up[c], up[c] \ {Command("data")}} :
       up' = [up EXCEPT ![c] = kept \cup {Command("disconnect")}]
  /\ UNCHANGED <<peer, clients, draining, down, counters, known>>

\* The server's disconnect reaches a client: gs_core_enet_client_poll, or the
\* loop of gs_core_enet_client_disconnect.
ClientDisconnected(c) ==
  /\ conn[c].state \in {"connected", "disconnecting"}
  /\ Command("disconnect") \in down[c]
  /\ conn' = [conn EXCEPT ![c].state = "closed", ![c].server = FALSE]
  /\ down' = [down EXCEPT ![c] = {}]
  /\ IF conn[c].state = "connected" THEN Send(up, c, "ack_disconnect") ELSE UNCHANGED up
  /\ UNCHANGED <<peer, clients, draining, counters, known>>

\* The process of a client ends, or its network does.  (While it is joining
\* that makes no difference to a join that fails.)
Crash(c) ==
  /\ conn[c].state \in {"connected", "disconnecting"}
  /\ crashes < MaxCrashes
  /\ crashes' = crashes + 1
  /\ conn' = [conn EXCEPT ![c].state = "crashed"]
  /\ up' = [up EXCEPT ![c] = {}]
  /\ down' = [down EXCEPT ![c] = {}]
  /\ UNCHANGED <<peer, clients, draining, sends, resets, known>>
-----------------------------------------------------------------------------
(* ENet, while the server polls. *)

Arrives(c, type) ==
  /\ Command(type) \in up[c]
  /\ up' = [up EXCEPT ![c] = @ \ {Command(type)}]

SetPeer(p, state, c) == peer' = [peer EXCEPT ![p] = [state |-> state, client |-> c]]

\* The peer of the server that belongs to client c.
PeerOf(p, c) == peer[p].client = c

\* A connection is offered the first free slot, if there is one.
HandleConnect(c, p) ==
  /\ Arrives(c, "connect")
  /\ peer[p].state = "disconnected"
  /\ \A q \in Peers : q < p => peer[q].state # "disconnected"
  /\ SetPeer(p, "acknowledging_connect", c)
  /\ down' = [down EXCEPT ![c] = @ \cup {[type |-> "verify_connect", slot |-> p]}]
  /\ UNCHANGED <<clients, draining, conn, counters, known>>

\* A client's disconnect.  The acknowledgement only matters to a client that
\* is no longer connected, and is left out; what arrives after it is ignored.
HandleDisconnect(c, p) ==
  /\ PeerOf(p, c)
  /\ peer[p].state \in {"connected", "disconnecting"}
  /\ Command("disconnect") \in up[c]
  /\ up' = [up EXCEPT ![c] = {}]
  /\ SetPeer(p, "zombie", c)
  /\ UNCHANGED <<clients, draining, conn, down, counters, known>>

\* A client that gave up is forgotten without an event.
GiveUp(p) ==
  /\ peer[p].state = "acknowledging_connect"
  /\ conn[peer[p].client].state \in {"closed", "crashed"}
  /\ SetPeer(p, "disconnected", NoClient)
  /\ UNCHANGED <<clients, draining, links, counters, known>>

\* The events enet_host_service reports, with the change of state each makes.
EventConnect(c, p) ==
  /\ PeerOf(p, c)
  /\ peer[p].state = "acknowledging_connect"
  /\ Arrives(c, "ack_connect")

EventReceive(c, p) ==
  /\ PeerOf(p, c)
  /\ peer[p].state = "connected"
  /\ Arrives(c, "data")

EventDisconnect(p) ==
  /\ \/ peer[p].state = "zombie" /\ UNCHANGED up
     \/ /\ peer[p].state = "disconnecting"
        /\ Command("ack_disconnect") \in up[peer[p].client]
        /\ up' = [up EXCEPT ![peer[p].client] = {}]
  /\ SetPeer(p, "disconnected", NoClient)

EventTimeout(p) ==
  /\ peer[p].state \in {"connected", "disconnecting"}
  /\ conn[peer[p].client].state = "crashed"
  /\ SetPeer(p, "disconnected", NoClient)
-----------------------------------------------------------------------------
(* gs_core_enet_server_poll, and the callbacks of gs_core_network_update. *)

PollConnect(c, p) ==
  /\ ~draining
  /\ EventConnect(c, p)
  /\ SetPeer(p, "connected", c)
  /\ clients' = Put(clients, Id(p), p)
  /\ known' = Put(known, Id(p), c)
  /\ UNCHANGED <<draining, conn, down, counters>>

\* The receiver sees the id of the sender.
PollReceive(c, p) ==
  /\ ~draining
  /\ EventReceive(c, p)
  /\ UNCHANGED <<peer, clients, draining, conn, down, counters, known>>

\* Mutant: the entry of the client stays.
PollDisconnectKeep(p) ==
  /\ ~draining
  /\ EventDisconnect(p)
  /\ known' = Drop(known, Id(p))
  /\ UNCHANGED <<clients, draining, conn, down, counters>>

\* Mutant: nobody is called back.
PollDisconnectSilent(p) ==
  /\ ~draining
  /\ EventDisconnect(p)
  /\ clients' = Drop(clients, Id(p))
  /\ UNCHANGED <<draining, conn, down, counters, known>>

PollDisconnect(p) ==
  /\ ~draining
  /\ EventDisconnect(p)
  /\ clients' = Drop(clients, Id(p))
  /\ known' = Drop(known, Id(p))
  /\ UNCHANGED <<draining, conn, down, counters>>

\* Nobody handles ENET_EVENT_TYPE_DISCONNECT_TIMEOUT, neither here nor while
\* draining.
PollTimeout(p) ==
  /\ EventTimeout(p)
  /\ UNCHANGED <<clients, draining, links, counters, known>>
-----------------------------------------------------------------------------
(* Calls that the program makes on the server. *)

\* Mutant: the id is taken for the slot.
AddresseeOfSlot(i) ==
  IF i \in DOMAIN clients /\ i \in Peers /\ peer[i].state = "connected"
  THEN peer[i].client ELSE NoClient

\* Whom gs_core_enet_server_send_message reaches.
Addressee(i) ==
  IF i \in DOMAIN clients /\ peer[clients[i]].state = "connected"
  THEN peer[clients[i]].client ELSE NoClient

\* Whom gs_core_enet_server_broadcast reaches.
Audience == {peer[p].client : p \in {q \in Peers : peer[q].state = "connected"}}

\* gs_core_enet_server_disconnect: all clients of the table are told to leave,
\* and the program forgets them; ...
ServerDisconnect ==
  /\ ~draining
  /\ resets < MaxResets
  /\ \E p \in Peers : peer[p].state = "connected"
  /\ resets' = resets + 1
  /\ draining' = TRUE
  /\ LET told == {clients[i] : i \in DOMAIN clients} \cap {p \in Peers : peer[p].state = "connected"}
     IN  /\ peer' = [p \in Peers |->
                      IF p \in told THEN [peer[p] EXCEPT !.state = "disconnecting"] ELSE peer[p]]
         /\ down' = [c \in Clients |->
                      IF \E p \in told : PeerOf(p, c)
                      THEN down[c] \cup {Command("disconnect")} ELSE down[c]]
  /\ known' = [i \in {} |-> NoClient]
  /\ UNCHANGED <<clients, conn, up, sends, crashes>>

\* Mutant: a client that has just connected stays.
DrainConnectKeep(c, p) ==
  /\ draining
  /\ EventConnect(c, p)
  /\ SetPeer(p, "connected", c)
  /\ UNCHANGED <<clients, draining, conn, down, counters, known>>

\* ... then the events that are there are taken and nobody is called back:
\* whoever connects has to leave again, ...
DrainConnect(c, p) ==
  /\ draining
  /\ EventConnect(c, p)
  /\ SetPeer(p, "disconnecting", c)
  /\ Send(down, c, "disconnect")
  /\ UNCHANGED <<clients, draining, conn, counters, known>>

\* ... and whoever has left is removed.  (A receive event is not possible: ENet
\* throws away what a peer sends once it has been told to leave.)
DrainDisconnect(p) ==
  /\ draining
  /\ EventDisconnect(p)
  /\ clients' = Drop(clients, Id(p))
  /\ UNCHANGED <<draining, conn, down, counters, known>>

\* No more events at the moment.
Drained ==
  /\ draining
  /\ draining' = FALSE
  /\ UNCHANGED <<peer, clients, links, counters, known>>
-----------------------------------------------------------------------------
\* What happens when the server calls enet_host_service.
Service ==
  \/ \E c \in Clients, p \in Peers :
       \/ HandleConnect(c, p)
       \/ HandleDisconnect(c, p)
       \/ PollConnect(c, p)
       \/ PollReceive(c, p)
       \/ DrainConnect(c, p)
  \/ \E p \in Peers :
       \/ GiveUp(p)
       \/ PollDisconnect(p)
       \/ PollTimeout(p)
       \/ DrainDisconnect(p)

\* What happens when a client does.
ClientService(c) == Joined(c) \/ ClientDisconnected(c)

Next ==
  \/ Service
  \/ Drained
  \/ ServerDisconnect
  \/ \E c \in Clients :
       \/ ClientService(c)
       \/ Join(c)
       \/ JoinFails(c)
       \/ ClientSend(c)
       \/ ClientDisconnect(c)
       \/ Crash(c)

Spec == Init /\ [][Next]_vars

\* Both sides poll every frame, and the network delivers.
FairSpec ==
  /\ Spec
  /\ WF_vars(Service)
  /\ WF_vars(Drained)
  /\ \A c \in Clients : WF_vars(ClientService(c))
-----------------------------------------------------------------------------
\* Types.
TypeOK ==
  /\ peer \in [Peers -> [state : PeerStates, client : Clients \cup {NoClient}]]
  /\ DOMAIN clients \subseteq Ids
  /\ \A i \in DOMAIN clients : clients[i] \in Peers
  /\ draining \in BOOLEAN
  /\ conn \in [Clients -> [state : ClientStates, server : BOOLEAN, id : {0} \cup Ids]]
  /\ up \in [Clients -> SUBSET Commands]
  /\ down \in [Clients -> SUBSET Commands]
  /\ sends \in 0 .. MaxSends
  /\ resets \in 0 .. MaxResets
  /\ crashes \in 0 .. MaxCrashes
  /\ DOMAIN known \subseteq Ids
  /\ \A i \in DOMAIN known : known[i] \in Clients

\* A client and the server agree on the client's id, although each of them
\* derives it from what ENet says of its own peer.
IdsAgree ==
  \A i \in DOMAIN clients :
    LET c == peer[clients[i]].client
    IN  /\ i # 0
        /\ c # NoClient /\ conn[c].state = "connected" => conn[c].id = i

\* Between two polls every peer that is connected is in the table: sending to
\* each id reaches the same clients as a broadcast.
ListsConnected ==
  ~draining => Audience = {Addressee(i) : i \in DOMAIN clients} \ {NoClient}

\* "Server holds list of all connected clients", and of no others.
ListsNoOthers ==
  ~draining =>
    \A i \in DOMAIN clients : peer[clients[i]].state \notin {"disconnected", "acknowledging_connect"}

\* They are the only ones unless a client times out.
ListsOnlyConnected == crashes = 0 => ListsNoOthers

\* The server's table and ENet's peers say the same of every client.
TableAgrees == TypeOK /\ IdsAgree /\ ListsConnected /\ ListsOnlyConnected

\* An id that a callback announced stands for the same client until the
\* callback that takes it back: whoever a message to it reaches ...
IdsReachTheirClient == \A i \in DOMAIN known : Addressee(i) \in {known[i], NoClient}

\* ... and whoever a call received comes from, although slots and ids are used
\* again.
CallsNameTheirSender ==
  [][\A c \in Clients, p \in Peers :
       PollReceive(c, p) => Id(p) \in DOMAIN known /\ known[Id(p)] = c]_vars

\* The server notices that clients have left: unless they crash, their ids do
\* not stay announced.
LeftUnnoticed(c) ==
  /\ conn[c].state \in {"disconnecting", "closed"}
  /\ \E i \in DOMAIN known : known[i] = c

LeavingNoticed == []<>(\A c \in Clients : ~LeftUnnoticed(c))
=============================================================================
