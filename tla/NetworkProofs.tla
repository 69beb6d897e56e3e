---------------------------- MODULE NetworkProofs ----------------------------
(***************************************************************************)
(* The server's table, the ids it announced and ENet's peers agree, for    *)
(* any number of clients, peers, messages, resets and crashes.  The        *)
(* argument follows one connection: a client asks once, so it never has    *)
(* two peers, the slot it is offered is that of its peer, and a peer is    *)
(* only connected between the report of its connection and its end.        *)
(***************************************************************************)
EXTENDS Network, TLAPS

\* A peer is free or some client's, and no client has two.
PeersTaken ==
  /\ \A p \in Peers : peer[p].state = "disconnected" <=> peer[p].client = NoClient
  /\ \A p, q \in Peers : peer[p].client = peer[q].client /\ p # q => peer[p].client = NoClient

\* A client that has not been created has sent and received nothing.
NotYet ==
  \A c \in Clients : conn[c].state = "none" =>
    /\ up[c] = {} /\ down[c] = {}
    /\ \A p \in Peers : peer[p].client # c

\* As long as a connection is asked for, nothing was offered for it.
AsksOnce ==
  \A c \in Clients : Command("connect") \in up[c] =>
    /\ conn[c].state \in {"connecting", "closed"}
    /\ \A p \in Peers : peer[p].client # c
    /\ \A m \in down[c] : m.type # "verify_connect"

\* The slot a client is offered, and the id it makes of it, are its peer's.
SlotsOffered ==
  \A c \in Clients, p \in Peers : peer[p].client = c =>
    /\ \A m \in down[c] : m.type = "verify_connect" => m.slot = p
    /\ conn[c].state = "connected" => conn[c].id = Id(p)

TableIds == \A i \in DOMAIN clients : i = Id(clients[i])

\* A peer is connected exactly while it is in the table, announced, and the
\* server is not draining.
Reported ==
  \A p \in Peers : peer[p].state = "connected" =>
    /\ ~draining
    /\ Id(p) \in DOMAIN clients
    /\ Id(p) \in DOMAIN known
    /\ known[Id(p)] = peer[p].client

\* Without crashes the table has no peer that is free or not reported yet.
NoGhosts ==
  crashes = 0 =>
    /\ \A c \in Clients : conn[c].state # "crashed"
    /\ \A i \in DOMAIN clients :
         peer[clients[i]].state \notin {"disconnected", "acknowledging_connect"}

Inv ==
  /\ TypeOK /\ PeersTaken /\ NotYet /\ AsksOnce /\ SlotsOffered /\ TableIds /\ Reported
  /\ NoGhosts
-----------------------------------------------------------------------------
LEMMA IdsDiffer ==
  ASSUME NEW p \in Peers, NEW q \in Peers, Id(p) = Id(q)
  PROVE  p = q
BY NetworkAssumption DEF Peers, Id

LEMMA IdKnown ==
  ASSUME NEW p \in Peers
  PROVE  Id(p) \in Ids /\ Id(p) # 0
BY NetworkAssumption DEF Peers, Ids, Id

LEMMA CommandsDiffer ==
  /\ \A t \in {"connect", "ack_connect", "data", "disconnect", "ack_disconnect"} :
       Command(t) \in Commands /\ Command(t).type = t
  /\ \A p \in Peers : [type |-> "verify_connect", slot |-> p] \in Commands
  /\ \A m \in Commands : m.type = "verify_connect" => m.slot \in Peers
BY DEF Command, Commands

\* The steps of client c, and of the server that takes a call of c: they leave
\* the peers and the table alone.
LEMMA ClientStep ==
  ASSUME Inv, NEW c \in Clients,
         UNCHANGED <<peer, clients, draining, known>>,
         conn' \in [Clients -> [state : ClientStates, server : BOOLEAN, id : {0} \cup Ids]],
         up' \in [Clients -> SUBSET Commands], down' \in [Clients -> SUBSET Commands],
         sends' \in 0 .. MaxSends, resets' \in 0 .. MaxResets, crashes' \in 0 .. MaxCrashes,
         \A d \in Clients : d # c => conn'[d] = conn[d] /\ up'[d] = up[d] /\ down'[d] = down[d],
         conn'[c].state # "none",
         Command("connect") \in up'[c] =>
           /\ conn'[c].state \in {"connecting", "closed"}
           /\ Command("connect") \in up[c] \/ conn[c].state = "none",
         down'[c] \subseteq down[c],
         conn'[c].state = "connected" =>
           \/ conn[c].state = "connected" /\ conn'[c].id = conn[c].id
           \/ \E m \in down[c] : m.type = "verify_connect" /\ conn'[c].id = Id(m.slot),
         crashes' = 0 => crashes = 0 /\ conn'[c].state # "crashed"
  PROVE  Inv'
<1>1. TypeOK'
  BY DEF Inv, TypeOK
<1>2. PeersTaken' /\ TableIds' /\ Reported'
  BY DEF Inv, PeersTaken, TableIds, Reported
<1>3. NotYet'
  BY DEF Inv, NotYet
<1>4. AsksOnce'
  BY DEF Inv, AsksOnce, NotYet
<1>5. SlotsOffered'
  BY DEF Inv, SlotsOffered
<1>6. NoGhosts'
  BY DEF Inv, NoGhosts
<1> QED
  BY <1>1, <1>2, <1>3, <1>4, <1>5, <1>6 DEF Inv

\* The steps of ENet's peer p at the server, which belongs to d afterwards.
LEMMA PeerStep ==
  ASSUME Inv, NEW p \in Peers, NEW s \in PeerStates, NEW d \in Clients \cup {NoClient},
         UNCHANGED <<draining, conn, counters>>,
         SetPeer(p, s, d),
         s = "disconnected" <=> d = NoClient,
         d \in Clients => \/ peer[p].client = d
                          \/ Command("connect") \in up[d] /\ Command("connect") \notin up'[d],
         up' \in [Clients -> SUBSET Commands], down' \in [Clients -> SUBSET Commands],
         \A c \in Clients : up'[c] \subseteq up[c],
         \A c \in Clients : c # d => down'[c] = down[c],
         d \in Clients =>
           \A m \in down'[d] : \/ m \in down[d]
                               \/ m.type # "verify_connect"
                               \/ m.slot = p,
         \/ /\ s # "connected"
            /\ clients' = clients /\ known' = known
            /\ crashes = 0 /\ s \in {"disconnected", "acknowledging_connect"} =>
                 Id(p) \notin DOMAIN clients
         \/ /\ s = "connected" /\ ~draining
            /\ clients' = Put(clients, Id(p), p) /\ known' = Put(known, Id(p), d)
         \/ /\ s # "connected"
            /\ clients' = Drop(clients, Id(p))
            /\ known' = known \/ known' = Drop(known, Id(p))
  PROVE  Inv'
<1>1. /\ peer'[p].state = s /\ peer'[p].client = d
      /\ \A q \in Peers : q # p => peer'[q] = peer[q]
      /\ peer' \in [Peers -> [state : PeerStates, client : Clients \cup {NoClient}]]
      /\ conn' = conn /\ draining' = draining
      /\ sends' = sends /\ resets' = resets /\ crashes' = crashes
  BY DEF SetPeer, Inv, TypeOK, counters
<1>2. /\ DOMAIN clients' \subseteq Ids
      /\ \A i \in DOMAIN clients' : clients'[i] \in Peers /\ i = Id(clients'[i])
      /\ \A i \in DOMAIN clients' : \/ i = Id(p) /\ s = "connected"
                                    \/ i \in DOMAIN clients /\ clients'[i] = clients[i]
      /\ \A i \in DOMAIN clients : i # Id(p) => i \in DOMAIN clients'
  <2>1. /\ DOMAIN clients \subseteq Ids
        /\ \A i \in DOMAIN clients : clients[i] \in Peers /\ i = Id(clients[i])
    BY DEF Inv, TypeOK, TableIds
  <2>2. CASE clients' = clients
    BY <2>1, <2>2
  <2>3. CASE s = "connected" /\ clients' = Put(clients, Id(p), p)
    BY <2>1, <2>3, IdKnown DEF Put
  <2>4. CASE clients' = Drop(clients, Id(p))
    BY <2>1, <2>4 DEF Drop
  <2> QED
    BY <2>2, <2>3, <2>4
<1>3. /\ DOMAIN known' \subseteq Ids
      /\ \A i \in DOMAIN known' : known'[i] \in Clients
      /\ \A i \in DOMAIN known : i # Id(p) => i \in DOMAIN known' /\ known'[i] = known[i]
  BY IdKnown DEF Put, Drop, Inv, TypeOK
<1>4. TypeOK'
  BY <1>1, <1>2, <1>3 DEF Inv, TypeOK, counters
<1>5. PeersTaken'
  BY <1>1 DEF Inv, PeersTaken, AsksOnce
<1>6. NotYet'
  BY <1>1 DEF Inv, NotYet
<1>7. AsksOnce'
  <2> SUFFICES ASSUME NEW c \in Clients, Command("connect") \in up'[c]
               PROVE  /\ conn'[c].state \in {"connecting", "closed"}
                      /\ \A q \in Peers : peer'[q].client # c
                      /\ \A m \in down'[c] : m.type # "verify_connect"
    BY DEF AsksOnce, Command
  <2>1. /\ conn[c].state \in {"connecting", "closed"}
        /\ \A q \in Peers : peer[q].client # c
        /\ \A m \in down[c] : m.type # "verify_connect"
    BY DEF Inv, AsksOnce
  <2>2. c # d
    BY <2>1
  <2> QED
    BY <1>1, <2>1, <2>2
<1>8. SlotsOffered'
  <2> SUFFICES ASSUME NEW c \in Clients, NEW q \in Peers, peer'[q].client = c
               PROVE  /\ \A m \in down'[c] : m.type = "verify_connect" => m.slot = q
                      /\ conn[c].state = "connected" => conn[c].id = Id(q)
    BY <1>1 DEF SlotsOffered, Id
  <2>1. CASE c # d
    BY <1>1, <2>1 DEF Inv, SlotsOffered
  <2>2. CASE c = d /\ peer[p].client = d
    <3>1. q = p
      BY <1>1, <2>2, NetworkAssumption DEF Inv, PeersTaken
    <3> QED
      BY <2>2, <3>1 DEF Inv, SlotsOffered
  <2>3. CASE c = d /\ Command("connect") \in up[d]
    <3>1. /\ conn[c].state # "connected"
          /\ \A r \in Peers : peer[r].client # c
          /\ \A m \in down[c] : m.type # "verify_connect"
      BY <2>3 DEF Inv, AsksOnce
    <3>2. q = p
      BY <1>1, <3>1
    <3> QED
      BY <2>3, <3>1, <3>2
  <2> QED
    BY <2>1, <2>2, <2>3
<1>9. TableIds'
  BY <1>2 DEF TableIds
<1>10. Reported'
  <2> SUFFICES ASSUME NEW q \in Peers, peer'[q].state = "connected"
               PROVE  /\ ~draining'
                      /\ Id(q) \in DOMAIN clients'
                      /\ Id(q) \in DOMAIN known'
                      /\ known'[Id(q)] = peer'[q].client
    BY DEF Reported, Id
  <2>1. CASE q = p
    BY <1>1, <2>1 DEF Put
  <2>2. CASE q # p
    <3>1. Id(q) # Id(p)
      BY <2>2, IdsDiffer
    <3> QED
      BY <1>1, <1>2, <1>3, <2>2, <3>1 DEF Inv, Reported
  <2> QED
    BY <2>1, <2>2
<1>11. NoGhosts'
  <2> SUFFICES ASSUME crashes = 0
               PROVE  /\ \A c \in Clients : conn[c].state # "crashed"
                      /\ \A i \in DOMAIN clients' :
                           peer'[clients'[i]].state \notin {"disconnected", "acknowledging_connect"}
    BY <1>1 DEF NoGhosts
  <2>1. ASSUME NEW i \in DOMAIN clients'
        PROVE  peer'[clients'[i]].state \notin {"disconnected", "acknowledging_connect"}
    <3>1. CASE i = Id(p)
      <4>1. clients'[i] = p
        BY <1>2, <3>1, IdsDiffer
      <4>2. i \notin DOMAIN Drop(clients, Id(p))
        BY <3>1 DEF Drop
      <4> QED
        BY <1>1, <3>1, <4>1, <4>2
    <3>2. CASE i # Id(p)
      BY <1>1, <1>2, <3>2 DEF Inv, NoGhosts
    <3> QED
      BY <3>1, <3>2
  <2> QED
    BY <2>1 DEF Inv, NoGhosts
<1> QED
  BY <1>4, <1>5, <1>6, <1>7, <1>8, <1>9, <1>10, <1>11 DEF Inv
-----------------------------------------------------------------------------
(* The clients' actions. *)

\* A command that joins a queue.
LEMMA SendTypes ==
  ASSUME NEW q \in [Clients -> SUBSET Commands], NEW r, NEW c \in Clients, NEW t,
         t \in {"connect", "ack_connect", "data", "disconnect", "ack_disconnect"},
         r = [q EXCEPT ![c] = @ \cup {Command(t)}]
  PROVE  /\ r \in [Clients -> SUBSET Commands]
         /\ r[c] = q[c] \cup {Command(t)}
         /\ \A d \in Clients : d # c => r[d] = q[d]
BY CommandsDiffer

LEMMA JoinInv ==
  ASSUME Inv, NEW c \in Clients, Join(c)
  PROVE  Inv'
<1>1. up' = [up EXCEPT ![c] = @ \cup {Command("connect")}]
  BY DEF Join, Send
<1>2. /\ up' \in [Clients -> SUBSET Commands]
      /\ up'[c] = up[c] \cup {Command("connect")}
      /\ \A d \in Clients : d # c => up'[d] = up[d]
  BY <1>1, SendTypes DEF Inv, TypeOK
<1>3. /\ conn' \in [Clients -> [state : ClientStates, server : BOOLEAN, id : {0} \cup Ids]]
      /\ conn'[c].state = "connecting"
      /\ \A d \in Clients : d # c => conn'[d] = conn[d]
      /\ conn[c].state = "none"
      /\ UNCHANGED <<peer, clients, draining, down, sends, resets, crashes, known>>
  BY DEF Join, Inv, TypeOK, ClientStates, counters
<1> QED
  BY <1>2, <1>3, ClientStep DEF Inv, TypeOK

LEMMA JoinedInv ==
  ASSUME Inv, NEW c \in Clients, Joined(c)
  PROVE  Inv'
<1>1. up' = [up EXCEPT ![c] = @ \cup {Command("ack_connect")}]
  BY DEF Joined, Send
<1>2. /\ up' \in [Clients -> SUBSET Commands]
      /\ up'[c] = up[c] \cup {Command("ack_connect")}
      /\ \A d \in Clients : d # c => up'[d] = up[d]
  BY <1>1, SendTypes DEF Inv, TypeOK
<1>3. PICK m \in down[c] :
        /\ m.type = "verify_connect"
        /\ conn' = [conn EXCEPT ![c] = [state |-> "connected", server |-> TRUE, id |-> Id(m.slot)]]
        /\ down' = [down EXCEPT ![c] = @ \ {m}]
  BY DEF Joined
<1>4. m \in Commands /\ Id(m.slot) \in Ids
  BY <1>3, CommandsDiffer, IdKnown DEF Inv, TypeOK
<1>5. /\ conn' \in [Clients -> [state : ClientStates, server : BOOLEAN, id : {0} \cup Ids]]
      /\ conn'[c].state = "connected" /\ conn'[c].id = Id(m.slot)
      /\ \A d \in Clients : d # c => conn'[d] = conn[d]
  BY <1>3, <1>4 DEF Inv, TypeOK, ClientStates
<1>6. /\ down' \in [Clients -> SUBSET Commands]
      /\ down'[c] \subseteq down[c]
      /\ \A d \in Clients : d # c => down'[d] = down[d]
  BY <1>3 DEF Inv, TypeOK
<1>7. Command("connect") \notin up'[c]
  BY <1>2, <1>3, CommandsDiffer DEF Inv, AsksOnce
<1>8. UNCHANGED <<peer, clients, draining, sends, resets, crashes, known>>
  BY DEF Joined, counters
<1> QED
  BY <1>2, <1>3, <1>5, <1>6, <1>7, <1>8, ClientStep DEF Inv, TypeOK

LEMMA JoinFailsInv ==
  ASSUME Inv, NEW c \in Clients, JoinFails(c)
  PROVE  Inv'
<1>1. /\ conn' \in [Clients -> [state : ClientStates, server : BOOLEAN, id : {0} \cup Ids]]
      /\ conn'[c].state = "closed"
      /\ \A d \in Clients : d # c => conn'[d] = conn[d]
  BY DEF JoinFails, Inv, TypeOK, ClientStates
<1>2. /\ down' \in [Clients -> SUBSET Commands]
      /\ down'[c] \subseteq down[c]
      /\ \A d \in Clients : d # c => down'[d] = down[d]
  BY DEF JoinFails, Inv, TypeOK
<1>3. UNCHANGED <<peer, clients, draining, up, sends, resets, crashes, known>>
  BY DEF JoinFails, counters
<1> QED
  BY <1>1, <1>2, <1>3, ClientStep DEF Inv, TypeOK

LEMMA ClientSendInv ==
  ASSUME Inv, NEW c \in Clients, ClientSend(c)
  PROVE  Inv'
<1>1. up' = [up EXCEPT ![c] = @ \cup {Command("data")}]
  BY DEF ClientSend, Send
<1>2. /\ up' \in [Clients -> SUBSET Commands]
      /\ up'[c] = up[c] \cup {Command("data")}
      /\ \A d \in Clients : d # c => up'[d] = up[d]
  BY <1>1, SendTypes DEF Inv, TypeOK
<1>3. conn[c].state = "connected" /\ Command("connect") \notin up'[c]
  BY <1>2, CommandsDiffer DEF ClientSend, Inv, AsksOnce
<1>4. sends' \in 0 .. MaxSends
  BY NetworkAssumption DEF ClientSend, Inv, TypeOK
<1>5. UNCHANGED <<peer, clients, draining, conn, down, resets, crashes, known>>
  BY DEF ClientSend
<1> QED
  BY <1>2, <1>3, <1>4, <1>5, ClientStep DEF Inv, TypeOK, NoGhosts

LEMMA ClientDisconnectInv ==
  ASSUME Inv, NEW c \in Clients, ClientDisconnect(c)
  PROVE  Inv'
<1>1. PICK kept \in {up[c], up[c] \ {Command("data")}} :
        up' = [up EXCEPT ![c] = kept \cup {Command("disconnect")}]
  BY DEF ClientDisconnect
<1>2. /\ up' \in [Clients -> SUBSET Commands]
      /\ up'[c] \subseteq up[c] \cup {Command("disconnect")}
      /\ \A d \in Clients : d # c => up'[d] = up[d]
  BY <1>1, CommandsDiffer DEF Inv, TypeOK
<1>3. /\ conn' \in [Clients -> [state : ClientStates, server : BOOLEAN, id : {0} \cup Ids]]
      /\ conn'[c].state = "disconnecting"
      /\ \A d \in Clients : d # c => conn'[d] = conn[d]
      /\ conn[c].state = "connected"
  <2>1. /\ conn[c].state = "connected"
        /\ conn' = [conn EXCEPT ![c].state = "disconnecting", ![c].server = FALSE]
    BY DEF ClientDisconnect
  <2> QED
    BY <2>1 DEF Inv, TypeOK, ClientStates
<1>4. Command("connect") \notin up'[c]
  BY <1>2, <1>3, CommandsDiffer DEF Inv, AsksOnce
<1>5. UNCHANGED <<peer, clients, draining, down, sends, resets, crashes, known>>
  BY DEF ClientDisconnect, counters
<1> QED
  BY <1>2, <1>3, <1>4, <1>5, ClientStep DEF Inv, TypeOK

LEMMA ClientDisconnectedInv ==
  ASSUME Inv, NEW c \in Clients, ClientDisconnected(c)
  PROVE  Inv'
<1>1. /\ up' \in [Clients -> SUBSET Commands]
      /\ up'[c] \subseteq up[c] \cup {Command("ack_disconnect")}
      /\ \A d \in Clients : d # c => up'[d] = up[d]
  <2>1. CASE up' = up
    BY <2>1 DEF Inv, TypeOK
  <2>2. CASE up' = [up EXCEPT ![c] = @ \cup {Command("ack_disconnect")}]
    BY <2>2, SendTypes DEF Inv, TypeOK
  <2> QED
    BY <2>1, <2>2 DEF ClientDisconnected, Send
<1>2. /\ conn' \in [Clients -> [state : ClientStates, server : BOOLEAN, id : {0} \cup Ids]]
      /\ conn'[c].state = "closed"
      /\ \A d \in Clients : d # c => conn'[d] = conn[d]
      /\ conn[c].state \in {"connected", "disconnecting"}
  BY DEF ClientDisconnected, Inv, TypeOK, ClientStates
<1>3. /\ down' \in [Clients -> SUBSET Commands]
      /\ down'[c] \subseteq down[c]
      /\ \A d \in Clients : d # c => down'[d] = down[d]
  BY DEF ClientDisconnected, Inv, TypeOK
<1>4. Command("connect") \notin up'[c]
  BY <1>1, <1>2, CommandsDiffer DEF Inv, AsksOnce
<1>5. UNCHANGED <<peer, clients, draining, sends, resets, crashes, known>>
  BY DEF ClientDisconnected, counters
<1> QED
  BY <1>1, <1>2, <1>3, <1>4, <1>5, ClientStep DEF Inv, TypeOK

LEMMA CrashInv ==
  ASSUME Inv, NEW c \in Clients, Crash(c)
  PROVE  Inv'
<1>1. /\ conn' \in [Clients -> [state : ClientStates, server : BOOLEAN, id : {0} \cup Ids]]
      /\ conn'[c].state = "crashed"
      /\ \A d \in Clients : d # c => conn'[d] = conn[d]
  BY DEF Crash, Inv, TypeOK, ClientStates
<1>2. /\ up' \in [Clients -> SUBSET Commands] /\ down' \in [Clients -> SUBSET Commands]
      /\ up'[c] = {} /\ down'[c] = {}
      /\ \A d \in Clients : d # c => up'[d] = up[d] /\ down'[d] = down[d]
  BY DEF Crash, Inv, TypeOK
<1>3. crashes' \in 0 .. MaxCrashes /\ crashes' # 0
  BY NetworkAssumption DEF Crash, Inv, TypeOK
<1>4. UNCHANGED <<peer, clients, draining, sends, resets, known>>
  BY DEF Crash
<1> QED
  BY <1>1, <1>2, <1>3, <1>4, ClientStep DEF Inv, TypeOK

\* A call is taken from its sender's queue; no other state changes.
LEMMA PollReceiveInv ==
  ASSUME Inv, NEW c \in Clients, NEW p \in Peers, PollReceive(c, p)
  PROVE  Inv'
<1>1. /\ up' \in [Clients -> SUBSET Commands]
      /\ up'[c] \subseteq up[c]
      /\ \A d \in Clients : d # c => up'[d] = up[d]
  BY DEF PollReceive, EventReceive, Arrives, Inv, TypeOK
<1>2. conn[c].state # "none"
  BY DEF PollReceive, EventReceive, PeerOf, Inv, NotYet
<1>3. UNCHANGED <<peer, clients, draining, conn, down, sends, resets, crashes, known>>
  BY DEF PollReceive, counters
<1> QED
  BY <1>1, <1>2, <1>3, ClientStep DEF Inv, TypeOK, AsksOnce, NoGhosts
-----------------------------------------------------------------------------
(* The server's actions. *)

\* A command that is taken from a client's queue, or all of them.
LEMMA ArrivesTypes ==
  ASSUME Inv, NEW c \in Clients, NEW t, NEW r,
         \/ r = [up EXCEPT ![c] = @ \ {Command(t)}]
         \/ r = [up EXCEPT ![c] = {}]
         \/ r = up
  PROVE  /\ r \in [Clients -> SUBSET Commands]
         /\ \A d \in Clients : r[d] \subseteq up[d]
BY DEF Inv, TypeOK

\* Without crashes a peer that is free or not reported is not in the table.
LEMMA NotInTable ==
  ASSUME Inv, NEW p \in Peers, crashes = 0,
         peer[p].state \in {"disconnected", "acknowledging_connect"}
  PROVE  Id(p) \notin DOMAIN clients
<1>1. ASSUME Id(p) \in DOMAIN clients
      PROVE  clients[Id(p)] = p
  BY <1>1, IdsDiffer DEF Inv, TypeOK, TableIds
<1> QED
  BY <1>1 DEF Inv, NoGhosts

LEMMA HandleConnectInv ==
  ASSUME Inv, NEW c \in Clients, NEW p \in Peers, HandleConnect(c, p)
  PROVE  Inv'
<1> DEFINE offer == [type |-> "verify_connect", slot |-> p]
<1>1. /\ Command("connect") \in up[c]
      /\ up' = [up EXCEPT ![c] = @ \ {Command("connect")}]
      /\ down' = [down EXCEPT ![c] = @ \cup {offer}]
      /\ SetPeer(p, "acknowledging_connect", c)
      /\ peer[p].state = "disconnected"
      /\ UNCHANGED <<clients, draining, conn, counters, known>>
  BY DEF HandleConnect, Arrives
<1>2. /\ up' \in [Clients -> SUBSET Commands]
      /\ \A d \in Clients : up'[d] \subseteq up[d]
      /\ Command("connect") \notin up'[c]
  BY <1>1, ArrivesTypes DEF Inv, TypeOK
<1>3. offer \in Commands /\ offer.slot = p
  BY CommandsDiffer
<1>4. /\ down' \in [Clients -> SUBSET Commands]
      /\ \A d \in Clients : d # c => down'[d] = down[d]
      /\ \A m \in down'[c] : m \in down[c] \/ m.slot = p
  BY <1>1, <1>3 DEF Inv, TypeOK
<1>5. crashes = 0 => Id(p) \notin DOMAIN clients
  BY <1>1, NotInTable
<1>6. "acknowledging_connect" \in PeerStates /\ c \in Clients \cup {NoClient} /\ c # NoClient
  BY NetworkAssumption DEF PeerStates
<1> QED
  BY <1>1, <1>2, <1>4, <1>5, <1>6, PeerStep

LEMMA HandleDisconnectInv ==
  ASSUME Inv, NEW c \in Clients, NEW p \in Peers, HandleDisconnect(c, p)
  PROVE  Inv'
<1>1. /\ peer[p].client = c
      /\ up' = [up EXCEPT ![c] = {}]
      /\ SetPeer(p, "zombie", c)
      /\ UNCHANGED <<clients, draining, conn, down, counters, known>>
  BY DEF HandleDisconnect, PeerOf
<1>2. up' \in [Clients -> SUBSET Commands] /\ \A d \in Clients : up'[d] \subseteq up[d]
  BY <1>1, ArrivesTypes
<1>3. "zombie" \in PeerStates /\ c \in Clients \cup {NoClient} /\ c # NoClient
  BY NetworkAssumption DEF PeerStates
<1> QED
  BY <1>1, <1>2, <1>3, PeerStep DEF Inv, TypeOK

\* A peer becomes free; its entry in the table may be dropped.
LEMMA FreedInv ==
  ASSUME Inv, NEW p \in Peers, SetPeer(p, "disconnected", NoClient),
         UNCHANGED <<draining, conn, down, counters>>,
         up' \in [Clients -> SUBSET Commands], \A d \in Clients : up'[d] \subseteq up[d],
         \/ /\ clients' = clients /\ known' = known
            /\ crashes = 0 => Id(p) \notin DOMAIN clients
         \/ clients' = Drop(clients, Id(p)) /\ known' = known
         \/ clients' = Drop(clients, Id(p)) /\ known' = Drop(known, Id(p))
  PROVE  Inv'
<1>1. /\ "disconnected" \in PeerStates /\ NoClient \in Clients \cup {NoClient}
      /\ NoClient \notin Clients
  BY NetworkAssumption DEF PeerStates
<1>2. down' \in [Clients -> SUBSET Commands]
  BY DEF Inv, TypeOK
<1> QED
  BY <1>1, <1>2, PeerStep

LEMMA GiveUpInv ==
  ASSUME Inv, NEW p \in Peers, GiveUp(p)
  PROVE  Inv'
<1>1. /\ SetPeer(p, "disconnected", NoClient)
      /\ peer[p].state = "acknowledging_connect"
      /\ UNCHANGED <<clients, draining, conn, up, down, counters, known>>
  BY DEF GiveUp, links
<1>2. crashes = 0 => Id(p) \notin DOMAIN clients
  BY <1>1, NotInTable
<1> QED
  BY <1>1, <1>2, FreedInv DEF Inv, TypeOK

LEMMA PollTimeoutInv ==
  ASSUME Inv, NEW p \in Peers, PollTimeout(p)
  PROVE  Inv'
<1>1. /\ SetPeer(p, "disconnected", NoClient)
      /\ peer[p].state \in {"connected", "disconnecting"}
      /\ conn[peer[p].client].state = "crashed"
      /\ UNCHANGED <<clients, draining, conn, up, down, counters, known>>
  BY DEF PollTimeout, EventTimeout, links
<1>2. crashes # 0
  BY <1>1 DEF Inv, TypeOK, PeersTaken, NoGhosts
<1> QED
  BY <1>1, <1>2, FreedInv DEF Inv, TypeOK

LEMMA EventDisconnectTypes ==
  ASSUME Inv, NEW p \in Peers, EventDisconnect(p)
  PROVE  /\ SetPeer(p, "disconnected", NoClient)
         /\ up' \in [Clients -> SUBSET Commands]
         /\ \A d \in Clients : up'[d] \subseteq up[d]
<1>1. CASE up' = up
  BY <1>1, NetworkAssumption DEF EventDisconnect, Inv, TypeOK
<1>2. CASE peer[p].state = "disconnecting" /\ up' = [up EXCEPT ![peer[p].client] = {}]
  <2>1. peer[p].client \in Clients
    BY <1>2 DEF Inv, TypeOK, PeersTaken
  <2> QED
    BY <1>2, <2>1, ArrivesTypes DEF EventDisconnect
<1> QED
  BY <1>1, <1>2 DEF EventDisconnect

LEMMA DisconnectInv ==
  ASSUME Inv, NEW p \in Peers, PollDisconnect(p) \/ DrainDisconnect(p)
  PROVE  Inv'
<1>1. /\ EventDisconnect(p)
      /\ clients' = Drop(clients, Id(p))
      /\ known' = known \/ known' = Drop(known, Id(p))
      /\ UNCHANGED <<draining, conn, down, counters>>
  BY DEF PollDisconnect, DrainDisconnect
<1> QED
  BY <1>1, EventDisconnectTypes, FreedInv

LEMMA EventConnectTypes ==
  ASSUME Inv, NEW c \in Clients, NEW p \in Peers, EventConnect(c, p)
  PROVE  /\ peer[p].client = c /\ peer[p].state = "acknowledging_connect"
         /\ up' \in [Clients -> SUBSET Commands]
         /\ \A d \in Clients : up'[d] \subseteq up[d]
BY ArrivesTypes DEF EventConnect, PeerOf, Arrives

LEMMA PollConnectInv ==
  ASSUME Inv, NEW c \in Clients, NEW p \in Peers, PollConnect(c, p)
  PROVE  Inv'
<1>1. /\ EventConnect(c, p) /\ ~draining
      /\ SetPeer(p, "connected", c)
      /\ clients' = Put(clients, Id(p), p) /\ known' = Put(known, Id(p), c)
      /\ UNCHANGED <<draining, conn, down, counters>>
  BY DEF PollConnect
<1>2. "connected" \in PeerStates /\ c \in Clients \cup {NoClient} /\ c # NoClient
  BY NetworkAssumption DEF PeerStates
<1>3. down' \in [Clients -> SUBSET Commands]
  BY <1>1 DEF Inv, TypeOK
<1> QED
  BY <1>1, <1>2, <1>3, EventConnectTypes, PeerStep

LEMMA DrainConnectInv ==
  ASSUME Inv, NEW c \in Clients, NEW p \in Peers, DrainConnect(c, p)
  PROVE  Inv'
<1>1. /\ EventConnect(c, p)
      /\ SetPeer(p, "disconnecting", c)
      /\ down' = [down EXCEPT ![c] = @ \cup {Command("disconnect")}]
      /\ UNCHANGED <<clients, draining, conn, counters, known>>
  BY DEF DrainConnect, Send
<1>2. "disconnecting" \in PeerStates /\ c \in Clients \cup {NoClient} /\ c # NoClient
  BY NetworkAssumption DEF PeerStates
<1>3. /\ down' \in [Clients -> SUBSET Commands]
      /\ down'[c] = down[c] \cup {Command("disconnect")}
      /\ \A d \in Clients : d # c => down'[d] = down[d]
  BY <1>1, SendTypes DEF Inv, TypeOK
<1>4. \A m \in down'[c] : m \in down[c] \/ m.type # "verify_connect"
  BY <1>3, CommandsDiffer
<1> QED
  BY <1>1, <1>2, <1>3, <1>4, EventConnectTypes, PeerStep

\* All peers that are connected are told to leave, for the table has them all.
LEMMA ServerDisconnectInv ==
  ASSUME Inv, ServerDisconnect
  PROVE  Inv'
<1> DEFINE told == {clients[i] : i \in DOMAIN clients} \cap
                   {p \in Peers : peer[p].state = "connected"}
<1>1. /\ ~draining /\ draining' = TRUE
      /\ resets < MaxResets /\ resets' = resets + 1
      /\ peer' = [p \in Peers |->
                   IF p \in told THEN [peer[p] EXCEPT !.state = "disconnecting"] ELSE peer[p]]
      /\ down' = [c \in Clients |->
                   IF \E p \in told : PeerOf(p, c)
                   THEN down[c] \cup {Command("disconnect")} ELSE down[c]]
      /\ known' = [i \in {} |-> NoClient]
      /\ UNCHANGED <<clients, conn, up, sends, crashes>>
  BY DEF ServerDisconnect
<1>2. ASSUME NEW p \in Peers, peer[p].state = "connected"
      PROVE  p \in told
  <2>1. Id(p) \in DOMAIN clients
    BY <1>2 DEF Inv, Reported
  <2>2. clients[Id(p)] = p
    BY <2>1, IdsDiffer DEF Inv, TypeOK, TableIds
  <2> QED
    BY <1>2, <2>1, <2>2
<1>3. \A p \in told : p \in Peers /\ peer[p].state = "connected"
  OBVIOUS
<1> HIDE DEF told
<1>4. /\ peer' \in [Peers -> [state : PeerStates, client : Clients \cup {NoClient}]]
      /\ \A p \in Peers : /\ peer'[p].client = peer[p].client
                          /\ peer'[p].state # "connected"
                          /\ peer[p].state = "connected" => peer'[p].state = "disconnecting"
                          /\ peer[p].state # "connected" => peer'[p].state = peer[p].state
  <2> SUFFICES ASSUME NEW p \in Peers
               PROVE  /\ peer'[p] \in [state : PeerStates, client : Clients \cup {NoClient}]
                      /\ peer'[p].client = peer[p].client
                      /\ peer'[p].state # "connected"
                      /\ peer[p].state = "connected" => peer'[p].state = "disconnecting"
                      /\ peer[p].state # "connected" => peer'[p].state = peer[p].state
    BY <1>1
  <2>1. peer[p] \in [state : PeerStates, client : Clients \cup {NoClient}]
    BY DEF Inv, TypeOK
  <2>2. CASE p \in told
    <3>1. peer'[p] = [peer[p] EXCEPT !.state = "disconnecting"] /\ peer[p].state = "connected"
      BY <1>1, <1>3, <2>2
    <3> QED
      BY <2>1, <3>1 DEF PeerStates
  <2>3. CASE p \notin told
    <3>1. peer'[p] = peer[p] /\ peer[p].state # "connected"
      BY <1>1, <1>2, <2>3
    <3> QED
      BY <2>1, <3>1
  <2> QED
    BY <2>2, <2>3
<1>5. /\ down' \in [Clients -> SUBSET Commands]
      /\ \A c \in Clients : \/ down'[c] = down[c]
                            \/ /\ down'[c] = down[c] \cup {Command("disconnect")}
                               /\ \E p \in Peers : peer[p].client = c
  BY <1>1, <1>3, CommandsDiffer DEF Inv, TypeOK, PeerOf
<1>6. TypeOK'
  <2>1. resets' \in 0 .. MaxResets
    BY <1>1, NetworkAssumption DEF Inv, TypeOK
  <2>2. DOMAIN known' = {}
    BY <1>1
  <2> QED
    BY <1>1, <1>4, <1>5, <2>1, <2>2 DEF Inv, TypeOK
<1>7. PeersTaken'
  BY <1>4 DEF Inv, PeersTaken
<1>8. NotYet'
  <2> SUFFICES ASSUME NEW c \in Clients, conn'[c].state = "none"
               PROVE  /\ up'[c] = {} /\ down'[c] = {}
                      /\ \A p \in Peers : peer'[p].client # c
    BY DEF NotYet
  <2>1. up[c] = {} /\ down[c] = {} /\ \A p \in Peers : peer[p].client # c
    BY <1>1 DEF Inv, NotYet
  <2>2. down'[c] = down[c]
    BY <1>5, <2>1
  <2> QED
    BY <1>1, <1>4, <2>1, <2>2
<1>9. AsksOnce'
  BY <1>1, <1>4, <1>5, CommandsDiffer DEF Inv, AsksOnce
<1>10. SlotsOffered'
  <2> SUFFICES ASSUME NEW c \in Clients, NEW p \in Peers, peer'[p].client = c
               PROVE  /\ \A m \in down'[c] : m.type = "verify_connect" => m.slot = p
                      /\ conn[c].state = "connected" => conn[c].id = Id(p)
    BY <1>1 DEF SlotsOffered, Id
  <2> QED
    BY <1>4, <1>5, CommandsDiffer DEF Inv, SlotsOffered
<1>11. TableIds' /\ Reported'
  BY <1>1, <1>4 DEF Inv, TableIds, Reported
<1>12. NoGhosts'
  BY <1>1, <1>4 DEF Inv, TypeOK, NoGhosts
<1> QED
  BY <1>6, <1>7, <1>8, <1>9, <1>10, <1>11, <1>12 DEF Inv

LEMMA DrainedInv ==
  ASSUME Inv, Drained
  PROVE  Inv'
<1>1. /\ draining' = FALSE
      /\ UNCHANGED <<peer, clients, conn, up, down, sends, resets, crashes, known>>
  BY DEF Drained, links, counters
<1>2. TypeOK' /\ PeersTaken' /\ NotYet' /\ AsksOnce'
  BY <1>1 DEF Inv, TypeOK, PeersTaken, NotYet, AsksOnce
<1>3. SlotsOffered' /\ TableIds' /\ Reported' /\ NoGhosts'
  BY <1>1 DEF Inv, SlotsOffered, TableIds, Reported, NoGhosts
<1> QED
  BY <1>2, <1>3 DEF Inv

LEMMA InitInv == Init => Inv
<1> SUFFICES ASSUME Init
             PROVE  Inv
  OBVIOUS
<1>1. TypeOK
  <2>1. peer \in [Peers -> [state : PeerStates, client : Clients \cup {NoClient}]]
    BY DEF Init, PeerStates
  <2>2. conn \in [Clients -> [state : ClientStates, server : BOOLEAN, id : {0} \cup Ids]]
    BY DEF Init, ClientStates
  <2>3. /\ up \in [Clients -> SUBSET Commands] /\ down \in [Clients -> SUBSET Commands]
        /\ DOMAIN clients = {} /\ DOMAIN known = {} /\ draining \in BOOLEAN
    BY DEF Init
  <2>4. /\ sends \in 0 .. MaxSends /\ resets \in 0 .. MaxResets /\ crashes \in 0 .. MaxCrashes
    BY NetworkAssumption DEF Init
  <2> QED
    BY <2>1, <2>2, <2>3, <2>4 DEF TypeOK
<1>2. PeersTaken /\ NotYet /\ AsksOnce /\ SlotsOffered
  BY NetworkAssumption DEF Init, PeersTaken, NotYet, AsksOnce, SlotsOffered
<1>3. TableIds /\ Reported /\ NoGhosts
  BY DEF Init, TableIds, Reported, NoGhosts
<1> QED
  BY <1>1, <1>2, <1>3 DEF Inv

LEMMA NextInv == Inv /\ [Next]_vars => Inv'
<1> SUFFICES ASSUME Inv, [Next]_vars
             PROVE  Inv'
  OBVIOUS
<1>1. CASE UNCHANGED vars
  <2>1. TypeOK' /\ PeersTaken' /\ NotYet' /\ AsksOnce'
    BY <1>1 DEF vars, Inv, TypeOK, PeersTaken, NotYet, AsksOnce
  <2>2. SlotsOffered' /\ TableIds' /\ Reported' /\ NoGhosts'
    BY <1>1 DEF vars, Inv, SlotsOffered, TableIds, Reported, NoGhosts
  <2> QED
    BY <2>1, <2>2 DEF Inv
<1>2. CASE Service
  BY <1>2, HandleConnectInv, HandleDisconnectInv, PollConnectInv, PollReceiveInv,
     DrainConnectInv, GiveUpInv, DisconnectInv, PollTimeoutInv DEF Service
<1>3. ASSUME NEW c \in Clients,
             \/ ClientService(c) \/ Join(c) \/ JoinFails(c) \/ ClientSend(c)
             \/ ClientDisconnect(c) \/ Crash(c)
      PROVE  Inv'
  BY <1>3, JoinedInv, ClientDisconnectedInv, JoinInv, JoinFailsInv, ClientSendInv,
     ClientDisconnectInv, CrashInv DEF ClientService
<1> QED
  BY <1>1, <1>2, <1>3, ServerDisconnectInv, DrainedInv DEF Next
-----------------------------------------------------------------------------
\* The inductive invariant.
THEOREM Invariance == Spec => []Inv
BY InitInv, NextInv, PTL DEF Spec

\* The server's table agrees with ENet's peers and with what the clients take for
\* their ids: sending to every id reaches whom a broadcast reaches
\* (gs_core_enet_server_* in core/gs_core_network.c).
THEOREM TableAgreesHolds == Spec => []TableAgrees
<1>1. Inv => TableAgrees
  <2> SUFFICES ASSUME Inv
               PROVE  TableAgrees
    OBVIOUS
  <2>1. IdsAgree
    <3> SUFFICES ASSUME NEW i \in DOMAIN clients
                 PROVE  LET c == peer[clients[i]].client
                        IN  /\ i # 0
                            /\ c # NoClient /\ conn[c].state = "connected" => conn[c].id = i
      BY DEF IdsAgree
    <3>1. i \in Ids /\ clients[i] \in Peers /\ i = Id(clients[i])
      BY DEF Inv, TypeOK, TableIds
    <3>2. i # 0
      BY <3>1, IdKnown
    <3>3. peer[clients[i]].client \in Clients \cup {NoClient}
      BY <3>1 DEF Inv, TypeOK
    <3> QED
      BY <3>1, <3>2, <3>3 DEF Inv, SlotsOffered
  <2>2. ListsConnected
    <3>1. ASSUME NEW p \in Peers, peer[p].state = "connected"
          PROVE  /\ Id(p) \in DOMAIN clients
                 /\ Addressee(Id(p)) = peer[p].client
                 /\ peer[p].client # NoClient
      <4>1. Id(p) \in DOMAIN clients /\ peer[p].client # NoClient
        BY <3>1 DEF Inv, Reported, PeersTaken
      <4>2. clients[Id(p)] = p
        BY <4>1, IdsDiffer DEF Inv, TypeOK, TableIds
      <4> QED
        BY <3>1, <4>1, <4>2 DEF Addressee
    <3>2. ASSUME NEW i \in DOMAIN clients, Addressee(i) # NoClient
          PROVE  Addressee(i) \in Audience
      <4>1. clients[i] \in Peers
        BY DEF Inv, TypeOK
      <4> QED
        BY <3>2, <4>1 DEF Addressee, Audience
    <3>3. Audience \subseteq {Addressee(i) : i \in DOMAIN clients} \ {NoClient}
      BY <3>1 DEF Audience
    <3> QED
      BY <3>2, <3>3 DEF ListsConnected
  <2>3. ListsOnlyConnected
    BY DEF Inv, NoGhosts, ListsOnlyConnected, ListsNoOthers
  <2> QED
    BY <2>1, <2>2, <2>3 DEF TableAgrees, Inv
<1> QED
  BY <1>1, Invariance, PTL

\* An id that a callback announced reaches the client it was announced for, or
\* nobody, until it is taken back.
THEOREM IdsReachTheirClientHolds == Spec => []IdsReachTheirClient
<1>1. Inv => IdsReachTheirClient
  <2> SUFFICES ASSUME Inv, NEW i \in DOMAIN known
               PROVE  Addressee(i) \in {known[i], NoClient}
    BY DEF IdsReachTheirClient
  <2>1. CASE i \in DOMAIN clients /\ peer[clients[i]].state = "connected"
    <3>1. clients[i] \in Peers /\ i = Id(clients[i])
      BY <2>1 DEF Inv, TypeOK, TableIds
    <3>2. known[i] = peer[clients[i]].client
      BY <2>1, <3>1 DEF Inv, Reported
    <3> QED
      BY <2>1, <3>2 DEF Addressee
  <2>2. CASE ~(i \in DOMAIN clients /\ peer[clients[i]].state = "connected")
    BY <2>2 DEF Addressee
  <2> QED
    BY <2>1, <2>2
<1> QED
  BY <1>1, Invariance, PTL

\* A call that is received comes from the client its id was announced for, although
\* slots and ids are used again.
THEOREM CallsNameTheirSenderHolds == Spec => CallsNameTheirSender
<1>1. Inv /\ [Next]_vars =>
        [\A c \in Clients, p \in Peers :
           PollReceive(c, p) => Id(p) \in DOMAIN known /\ known[Id(p)] = c]_vars
  BY DEF PollReceive, EventReceive, PeerOf, Inv, Reported
<1> QED
  BY <1>1, Invariance, PTL DEF Spec, CallsNameTheirSender
=============================================================================
