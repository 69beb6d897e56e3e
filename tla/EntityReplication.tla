------------------------- MODULE EntityReplication -------------------------
(***************************************************************************)
(* Sending an entity to another program (core/gs_core_entity.c): its       *)
(* components, each with the id of its class, the id the sender's flecs    *)
(* gave the class, and the component's properties.  The receiver looks for *)
(* the sender's id among its own.                                          *)
(*                                                                         *)
(* A component's properties are one value; packets are not lost, as the    *)
(* reliable channel of the network component keeps them in order.          *)
(***************************************************************************)
EXTENDS Integers, Sequences, FiniteSets, SequencesExt, Functions

CONSTANTS
  Components,        \* component classes
  Ids,               \* ids flecs gives them
  Values,            \* values of a component
  Zero,              \* the value of one just added
  Garbage            \* one that the data of another class was read into

VARIABLES
  sendIds, recvIds,  \* em->components of the two programs
  sender, receiver,  \* the entity in each program: component -> value
  sent, kept         \* what was sent last, and what the receiver had then

vars == <<sendIds, recvIds, sender, receiver, sent, kept>>
-----------------------------------------------------------------------------
Put(f, k, v) == [x \in DOMAIN f \cup {k} |-> IF x = k THEN v ELSE f[x]]
Over(f, g)   == [x \in DOMAIN f \cup DOMAIN g |-> IF x \in DOMAIN f THEN f[x] ELSE g[x]]

Parts(order) == [i \in DOMAIN order |->
                   [cid |-> order[i], comp_id |-> sendIds[order[i]], val |-> sender[order[i]]]]

\* Mutant: the number of components stays what is written before they are counted.
PacketUncounted(order) == [count |-> 0, parts |-> Parts(order)]

\* gs_core_entities_entity_net_serialize, for the components the entity has in
\* the order they have in the hash table em->components.
Packet(order) == [count |-> Len(order), parts |-> Parts(order)]

\* gs_core_entities_entity_net_deserialize, one turn: what has the sender's id
\* here is looked for; if there is none the sender's class is added; then what
\* has the id is written, from the data of the sender's class.  With no such
\* component the program writes to NULL, and nothing it has is right any more.
ReceiveOne(ent, part) ==
  LET has(e) == {c \in DOMAIN e : recvIds[c] = part.comp_id}
      added  == IF has(ent) = {} THEN Put(ent, part.cid, Zero) ELSE ent
  IN  IF has(added) = {} THEN [c \in DOMAIN added |-> Garbage]
      ELSE [c \in DOMAIN added |->
              IF c \notin has(added) THEN added[c] ELSE IF c = part.cid THEN part.val ELSE Garbage]

Received(ent, packet) == FoldLeft(ReceiveOne, ent, SubSeq(packet.parts, 1, packet.count))

Init ==
  /\ sendIds \in [Components -> Ids] /\ IsInjective(sendIds)
  /\ recvIds \in [Components -> Ids] /\ IsInjective(recvIds)
  /\ sender = <<>> /\ receiver = <<>> /\ sent = <<>> /\ kept = <<>>

\* Each program writes its components itself.
SetSender(c, val) ==
  /\ sender' = Put(sender, c, val)
  /\ UNCHANGED <<sendIds, recvIds, receiver, sent, kept>>

SetReceiver(c, val) ==
  /\ receiver' = Put(receiver, c, val)
  /\ kept' = receiver' /\ sent' = <<>>
  /\ UNCHANGED <<sendIds, recvIds, sender>>

RemoveComponent(c) ==
  /\ c \in DOMAIN sender
  /\ sender' = [d \in DOMAIN sender \ {c} |-> sender[d]]
  /\ UNCHANGED <<sendIds, recvIds, receiver, sent, kept>>

\* A packet is written, sent and read.
Replicate ==
  /\ \E order \in SetToSeqs(DOMAIN sender) : receiver' = Received(receiver, Packet(order))
  /\ sent' = sender /\ kept' = receiver
  /\ UNCHANGED <<sendIds, recvIds, sender>>

Next ==
  \/ \E c \in Components, val \in Values : SetSender(c, val) \/ SetReceiver(c, val)
  \/ \E c \in Components : RemoveComponent(c)
  \/ Replicate

Spec == Init /\ [][Next]_vars
-----------------------------------------------------------------------------
\* When flecs gave the classes that are sent the same ids in both programs, the
\* receiver has what the sender had, in whatever order the components were
\* written, and of what it had besides nothing has changed.  (What the sender
\* has removed stays: nothing tells the receiver.)
EntityReplicates ==
  (\A c \in DOMAIN sent : sendIds[c] = recvIds[c]) => receiver = Over(sent, kept)
=============================================================================
