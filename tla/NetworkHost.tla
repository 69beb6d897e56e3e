----------------------------- MODULE NetworkHost -----------------------------
(***************************************************************************)
(* The host of one program: created as a server's or a client's, used, and *)
(* destroyed (core/gs_core_network.c).  Its struct is there from start to  *)
(* end, and every creation returns that struct's address.  The struct's    *)
(* pointer to ENet's host is never cleared, so only its type tells whether *)
(* the host still exists; the server's table of clients and the client's   *)
(* peer are a union.                                                       *)
(*                                                                         *)
(* What peers do one by one is in Network: here a host has connected peers *)
(* or has none.                                                            *)
(***************************************************************************)
VARIABLES
  enetHost,    \* enet->host: NULL, a live host, or one that is freed
  hostType,    \* enet->type
  union,       \* NULL, the client's peer, a table of clients, or a table that
               \* is left of a freed host
  peers,       \* connectedPeers > 0
  clean,       \* history: every client_create got a host and replaced no live one
  misused      \* what was used after it was freed, or as what it is not

vars == <<enetHost, hostType, union, peers, clean, misused>>
-----------------------------------------------------------------------------
Init ==
  /\ enetHost = "null" /\ hostType = "invalid" /\ union = "null" /\ peers = FALSE
  /\ clean = TRUE /\ misused = {}

\* gs_core_network_is_connected: what it may return, and what asking it misuses.
Connected == IF enetHost = "dead" THEN BOOLEAN ELSE {enetHost = "live" /\ peers}
Asked     == IF enetHost = "dead" THEN {"connectedPeers"} ELSE {}

\* Using the host, and the union's member of the host's type.
HostUsed  == IF enetHost = "dead" THEN {"host"} ELSE {}
UnionUsed ==
  IF union \in {"null", IF hostType = "server" THEN "table" ELSE "peer"} THEN HostUsed
  ELSE HostUsed \cup {"union"}

Misused(what) == misused' = misused \cup what

\* gs_core_network_server_create: a pointer that is not NULL is returned,
\* whatever became of its host.
ServerCreate(created) ==
  /\ IF enetHost = "null"
     THEN hostType' = "server" /\ peers' = FALSE /\ enetHost' = IF created THEN "live" ELSE "null"
     ELSE UNCHANGED <<enetHost, hostType, peers>>
  /\ UNCHANGED <<union, clean, misused>>

\* gs_core_network_client_create finds no host, no peer, or no server in time
\* (which destroys the host), or connects.
ClientCreate(outcome) ==
  /\ enetHost' = CASE outcome = "no host" -> "null" [] outcome = "timeout" -> "dead" [] OTHER -> "live"
  /\ hostType' = IF outcome = "timeout" THEN "invalid" ELSE "client"
  /\ union'    = CASE outcome = "no host" -> union [] outcome = "connected" -> "peer" [] OTHER -> "null"
  /\ peers'    = (outcome = "connected")
  /\ clean'    = (clean /\ enetHost # "live" /\ outcome # "no host")
  /\ UNCHANGED misused

\* enet_host_destroy, after connected peers were disconnected; without a type
\* nothing happens.
Destroyed ==
  /\ IF hostType = "invalid" THEN UNCHANGED <<enetHost, union, peers, misused>>
     ELSE \E connected \in Connected :
            /\ Misused(IF connected THEN Asked \cup UnionUsed ELSE Asked \cup HostUsed)
            /\ enetHost' = IF enetHost = "null" THEN "null" ELSE "dead"
            /\ union' = CASE hostType = "client" /\ connected -> "null"
                          [] union = "table" -> "old table"
                          [] OTHER -> union
            /\ peers' = FALSE
  /\ UNCHANGED clean

\* Mutant: the type stays.
HostDestroyTyped == Destroyed /\ UNCHANGED hostType

\* gs_core_network_host_destroy, also by gs_core_network_shutdown.
HostDestroy == Destroyed /\ hostType' = "invalid"

\* gs_core_network_disconnect: a client forgets its peer, a server's clients
\* leave when they answer.
Disconnect(answered) ==
  /\ \E connected \in Connected :
       IF connected /\ hostType # "invalid"
       THEN /\ Misused(Asked \cup UnionUsed)
            /\ IF hostType = "client" THEN union' = "null" /\ peers' = FALSE
               ELSE UNCHANGED union /\ peers' = (peers /\ ~answered)
       ELSE Misused(Asked) /\ UNCHANGED <<union, peers>>
  /\ UNCHANGED <<enetHost, hostType, clean>>

\* gs_core_network_update, with gs_core_network_poll: nothing or data come, a
\* client has joined, or the last peer has gone.
Poll == enetHost # "null" /\ hostType # "invalid" /\ UNCHANGED <<enetHost, hostType, clean>>

PollData == Poll /\ Misused(HostUsed) /\ UNCHANGED <<union, peers>>

PollConnect ==
  /\ Poll /\ hostType = "server"
  /\ Misused(UnionUsed)
  /\ peers' = TRUE
  /\ union' = IF union = "null" THEN "table" ELSE union

PollDisconnect ==
  /\ Poll /\ peers
  /\ Misused(UnionUsed)
  /\ peers' = FALSE
  /\ union' = IF hostType = "client" THEN "null" ELSE union

\* gs_core_network_send_message and gs_core_network_broadcast; a client without
\* a peer sends nothing.
Send ==
  /\ enetHost # "null"
  /\ Misused(IF hostType = "server" \/ (hostType = "client" /\ union # "null") THEN UnionUsed ELSE {})
  /\ UNCHANGED <<enetHost, hostType, union, peers, clean>>

\* gs_core_network_num_connections
NumConnections ==
  /\ enetHost # "null"
  /\ Misused(Asked)
  /\ UNCHANGED <<enetHost, hostType, union, peers, clean>>

Next ==
  \/ \E created \in BOOLEAN : ServerCreate(created)
  \/ \E outcome \in {"no host", "no peer", "timeout", "connected"} : ClientCreate(outcome)
  \/ HostDestroy
  \/ \E answered \in BOOLEAN : Disconnect(answered)
  \/ PollData \/ PollConnect \/ PollDisconnect
  \/ Send \/ NumConnections

Spec == Init /\ [][Next]_vars
-----------------------------------------------------------------------------
\* A host that is destroyed is not used or destroyed again, whatever is called
\* after it, and the union is never taken for its other member or for peers of
\* a host that is gone, as long as no client_create replaced a live host or
\* found none.  Only the question whether there are connections reads a freed
\* host.
DeadHostUnused == clean => misused \subseteq {"connectedPeers"}
=============================================================================
