--------------------------- MODULE ExchangeProofs ---------------------------
(***************************************************************************)
(* What is taken over from another program arrives, for every value of the *)
(* constants: the application's library that a linker writes and the       *)
(* editor loads (HotReload), the entities in a packet, the objects in a    *)
(* file, and the vtables in what the generator wrote (Exchange).           *)
(***************************************************************************)
EXTENDS HotReload, Exchange, Integers, FiniteSets, FiniteSetTheorems,
        SequenceTheorems, NaturalsInduction, WellFoundedInduction, TLAPS

-----------------------------------------------------------------------------
(* The library of the application. *)

\* Between the two halves of a reload nothing is loaded, and no copy is left.
Between == pc = "copy" => app = 0 /\ editor_dll.state = "absent"

\* For any number of builds and times the editor runs the application of the
\* file that is there and leaves no library behind.
THEOREM RunsItsCopyHolds ==
  ASSUME MaxBuilds \in Nat \ {0}, MaxClock \in Nat \ {0}
  PROVE  Spec => []RunsItsCopy
<1> DEFINE Inv == RunsItsCopy /\ Between
<1> USE DEF Versions, States
<1>1. Init => Inv
  <2> SUFFICES ASSUME Init
               PROVE  Inv
    OBVIOUS
  <2>1. /\ app_dll \in [state : States, version : Versions, time : 1 .. MaxClock]
        /\ editor_dll \in [state : States, version : Versions]
    BY DEF Init
  <2>2. 1 \in 1 .. MaxClock /\ 0 \in 0 .. MaxClock
    OBVIOUS
  <2>3. /\ pc = "reload" /\ clock = 1 /\ fstats = 0 /\ hot_reload_begin = FALSE
        /\ app = 0 /\ loads = 0 /\ missed = FALSE
    BY DEF Init
  <2>4. ReloadTypeOK
    <3> HIDE DEF Versions, States
    <3>1. loads \in 0 .. 1 /\ app \in {0} \cup Versions
      BY <2>3
    <3> QED
      BY <2>1, <2>2, <2>3, <3>1 DEF ReloadTypeOK
  <2> QED
    BY <2>3, <2>4 DEF RunsItsCopy, Between
<1>2. Inv /\ [Next]_vars => Inv'
  <2> SUFFICES ASSUME Inv, [Next]_vars
               PROVE  Inv'
    OBVIOUS
  <2> USE DEF RunsItsCopy, Between, ReloadTypeOK
  <2>1. ASSUME NEW state \in States, NEW v \in Versions, Write(state, v)
        PROVE  Inv'
    BY <2>1 DEF Write
  <2>2. CASE BeginBuild
    <3>1. app_dll.version + 1 \in Versions
      BY <2>2 DEF BeginBuild
    <3> QED
      BY <2>1, <2>2, <3>1 DEF BeginBuild
  <2>3. CASE EndBuild
    BY <2>1, <2>3 DEF EndBuild
  <2>4. CASE Clean
    BY <2>4 DEF Clean
  <2>5. ModifiedTime \in 0 .. MaxClock
    BY DEF ModifiedTime
  <2>6. CASE Changed \/ InitStats
    BY <2>5, <2>6 DEF Changed, InitStats, files
  <2>7. CASE Settled \/ NoFile \/ CopyFails
    BY <2>7 DEF Settled, NoFile, CopyFails, Reloaded, files
  <2>8. CASE Unload
    BY <2>8 DEF Unload, files
  <2>9. CASE CopyLoad
    <3>1. /\ app_dll.state \in States /\ app_dll.version \in Versions
          /\ loads = 0 /\ app = 0
      BY <2>9 DEF CopyLoad
    <3>2. /\ editor_dll' = [state |-> app_dll.state, version |-> app_dll.version]
          /\ app_dll.state = "whole" => app' = app_dll.version /\ loads' = 1
          /\ app_dll.state # "whole" => app' = 0 /\ loads' = 0
          /\ pc' \in {"frame", "stat"} /\ hot_reload_begin' = FALSE /\ missed' = FALSE
          /\ UNCHANGED <<app_dll, clock, fstats>>
      BY <2>9, <3>1 DEF CopyLoad, Reloaded, files
    <3>3. ReloadTypeOK'
      <4> HIDE DEF Versions, States
      <4>1. loads' \in 0 .. 1 /\ app' \in {0} \cup Versions
        BY <3>1, <3>2
      <4>2. editor_dll' \in [state : States, version : Versions]
        BY <3>1, <3>2
      <4> QED
        BY <3>2, <4>1, <4>2
    <3>4. Between'
      BY <3>2
    <3>5. RunsItsCopy'
      <4> HIDE DEF ReloadTypeOK
      <4>1. app_dll.state = "whole" => app' # 0
        BY <3>1, <3>2
      <4> QED
        BY <3>2, <3>3, <4>1
    <3> QED
      BY <3>4, <3>5
  <2>10. CASE UNCHANGED vars
    BY <2>10 DEF vars
  <2>11. BeginBuild \/ EndBuild \/ Clean \/ (Changed \/ InitStats)
          \/ (Settled \/ NoFile \/ CopyFails) \/ Unload \/ CopyLoad \/ UNCHANGED vars
    BY DEF Next, Editor
  <2> HIDE DEF RunsItsCopy, Between, ReloadTypeOK, Inv
  <2> QED
    BY <2>2, <2>3, <2>4, <2>6, <2>7, <2>8, <2>9, <2>10, <2>11
<1> QED
  BY <1>1, <1>2, PTL DEF Spec
-----------------------------------------------------------------------------
(* Numbers. *)

\* Every set of numbers has a least one.
LEMMA LeastNumber ==
  ASSUME NEW T \in SUBSET Nat, T # {}
  PROVE  \E n \in T : \A m \in T : n <= m
<1>1. PICK n \in T : \A m \in T : ~ (<<m, n>> \in OpToRel(<, Nat))
  BY NatLessThanWellFounded, WFMin
<1>2. \A m \in T : ~(m < n)
  BY <1>1 DEF OpToRel
<1> QED
  BY <1>2
-----------------------------------------------------------------------------
(* Entities sent to another program. *)

\* An entity is a function from some of the classes to values.
IsEntity(e) == e = [c \in DOMAIN e |-> e[c]] /\ DOMAIN e \subseteq ComponentClasses

RepInv ==
  /\ \A c, d \in ComponentClasses : recvIds[c] = recvIds[d] => c = d
  /\ IsEntity(sender) /\ IsFiniteSet(DOMAIN sender) /\ IsEntity(receiver)
  /\ Sending!EntityReplicates

\* The entity on the way of reading the first n of parts.
Receives(ent, parts, n, g) ==
  g = [r \in SUBSET (1 .. n) |->
         IF r = {} THEN ent ELSE Sending!ReceiveOne(g[r \ {Sending!Max(r)}], parts[Sending!Max(r)])]

\* gs_core_entities_entity_net_deserialize reads them one after the other.
LEMMA FoldReceives ==
  ASSUME NEW ent, NEW parts, NEW n \in Nat, DOMAIN parts = 1 .. n
  PROVE  Sending!FoldLeft(Sending!ReceiveOne, ent, parts) = (CHOOSE g : Receives(ent, parts, n, g))[1 .. n]
  BY DEF Sending!FoldLeft, Sending!MapThenFoldSet, Receives

\* The greatest element of a set that has the last number.
LEMMA GreatestPart ==
  ASSUME NEW n \in Nat, NEW r \in SUBSET (1 .. n + 1), n + 1 \in r
  PROVE  Sending!Max(r) = n + 1
<1>1. \A x \in r : n + 1 >= x
  OBVIOUS
<1>2. \A x \in r : (\A y \in r : x >= y) => x = n + 1
  OBVIOUS
<1> QED
  BY <1>1, <1>2 DEF Sending!Max

\* There is such an entity for every number of parts: otherwise there would be a
\* least number without.
LEMMA ReceivesExist ==
  ASSUME NEW ent, NEW parts
  PROVE  \A n \in Nat : \E g : Receives(ent, parts, n, g)
<1> DEFINE T == {n \in Nat : ~\E g : Receives(ent, parts, n, g)}
<1> SUFFICES ASSUME T # {} PROVE FALSE
  OBVIOUS
<1>1. PICK n \in T : \A m \in T : n <= m
  <2> HIDE DEF T
  <2>1. T \in SUBSET Nat
    BY DEF T
  <2> QED  BY <2>1, LeastNumber
<1>2. n \in Nat /\ ~\E g : Receives(ent, parts, n, g)
  BY <1>1
<1>3. n # 0
  <2> DEFINE g == [r \in SUBSET (1 .. 0) |-> ent]
  <2>1. \A r \in SUBSET (1 .. 0) : r = {}
    OBVIOUS
  <2>2. Receives(ent, parts, 0, g)
    BY <2>1 DEF Receives
  <2> QED  BY <1>2, <2>2
<1>4. PICK m \in Nat : n = m + 1
  BY <1>2, <1>3
<1>5. PICK g : Receives(ent, parts, m, g)
  <2>1. m \notin T
    BY <1>1, <1>4
  <2> QED  BY <2>1
<1> DEFINE h == [r \in SUBSET (1 .. m + 1) |->
                   IF m + 1 \in r THEN Sending!ReceiveOne(g[r \ {m + 1}], parts[m + 1]) ELSE g[r]]
<1>6. ASSUME NEW r \in SUBSET (1 .. m + 1)
      PROVE  h[r] = IF r = {} THEN ent ELSE Sending!ReceiveOne(h[r \ {Sending!Max(r)}], parts[Sending!Max(r)])
  <2>1. CASE m + 1 \in r
    <3>1. Sending!Max(r) = m + 1
      BY <2>1, GreatestPart
    <3>2. r \ {m + 1} \in SUBSET (1 .. m + 1) /\ m + 1 \notin r \ {m + 1}
      OBVIOUS
    <3>3. h[r \ {m + 1}] = g[r \ {m + 1}]
      BY <3>2
    <3>4. h[r] = Sending!ReceiveOne(g[r \ {m + 1}], parts[m + 1])
      BY <2>1
    <3> QED  BY <2>1, <3>1, <3>3, <3>4
  <2>2. CASE m + 1 \notin r
    <3>1. r \in SUBSET (1 .. m)
      BY <2>2
    <3>2. g[r] = IF r = {} THEN ent ELSE Sending!ReceiveOne(g[r \ {Sending!Max(r)}], parts[Sending!Max(r)])
      BY <1>5, <3>1 DEF Receives
    <3>3. h[r] = g[r]
      BY <2>2
    <3>4. r \ {Sending!Max(r)} \in SUBSET (1 .. m + 1) /\ m + 1 \notin r \ {Sending!Max(r)}
      BY <2>2
    <3>5. h[r \ {Sending!Max(r)}] = g[r \ {Sending!Max(r)}]
      BY <3>4
    <3> QED  BY <3>2, <3>3, <3>5
  <2> QED  BY <2>1, <2>2
<1>7. Receives(ent, parts, m + 1, h)
  <2>1. h = [r \in SUBSET (1 .. m + 1) |-> h[r]]
    OBVIOUS
  <2> HIDE DEF h
  <2> QED  BY <1>6, <2>1 DEF Receives
<1> QED
  BY <1>2, <1>4, <1>7

\* The entity after reading all parts.
ReadAll(ent, parts) == Sending!FoldLeft(Sending!ReceiveOne, ent, parts)

\* One after the other: the entity after each part.
PartTurns(ent, parts, n, f) ==
  /\ f[0] = ent /\ f[n] = ReadAll(ent, parts)
  /\ \A k \in 0 .. n - 1 : f[k + 1] = Sending!ReceiveOne(f[k], parts[k + 1])

\* There are such.
LEMMA ReadingParts ==
  ASSUME NEW ent, NEW parts, NEW n \in Nat, DOMAIN parts = 1 .. n
  PROVE  \E f : PartTurns(ent, parts, n, f)
<1>1. PICK g : Receives(ent, parts, n, g) /\ g[1 .. n] = Sending!FoldLeft(Sending!ReceiveOne, ent, parts)
  <2>1. \E g : Receives(ent, parts, n, g)
    BY ReceivesExist
  <2>2. Receives(ent, parts, n, CHOOSE g : Receives(ent, parts, n, g))
    BY <2>1
  <2> QED  BY <2>2, FoldReceives
<1> DEFINE f == [k \in 0 .. n |-> g[1 .. k]]
<1>2. f[0] = ent
  <2>1. g[{}] = ent
    BY <1>1 DEF Receives
  <2>2. 1 .. 0 = {}
    OBVIOUS
  <2> QED  BY <2>1, <2>2
<1>3. ASSUME NEW k \in 0 .. n - 1 PROVE f[k + 1] = Sending!ReceiveOne(f[k], parts[k + 1])
  <2>0. k \in Nat /\ k + 1 <= n
    OBVIOUS
  <2>1. 1 .. k + 1 \in SUBSET (1 .. n) /\ 1 .. k + 1 # {} /\ k + 1 \in 1 .. k + 1
    <3>1. \A i \in 1 .. k + 1 : i \in 1 .. n
      BY <2>0
    <3>2. k + 1 \in 1 .. k + 1
      BY <2>0
    <3> QED  BY <3>1, <3>2
  <2>2. Sending!Max(1 .. k + 1) = k + 1
    BY <2>1, GreatestPart
  <2>3. (1 .. k + 1) \ {k + 1} = 1 .. k
    OBVIOUS
  <2>4. g[1 .. k + 1] = Sending!ReceiveOne(g[1 .. k], parts[k + 1])
    BY <1>1, <2>1, <2>2, <2>3 DEF Receives
  <2> QED  BY <2>4
<1>4. f[n] = ReadAll(ent, parts)
  BY <1>1 DEF ReadAll
<1> QED
  BY <1>2, <1>3, <1>4 DEF PartTurns

\* What a part does to an entity, whatever the ids are.
LEMMA StaysEntity ==
  ASSUME NEW e, IsEntity(e), NEW part, part.cid \in ComponentClasses
  PROVE  IsEntity(Sending!ReceiveOne(e, part))
<1> DEFINE has(x) == {c \in DOMAIN x : recvIds[c] = part.comp_id}
           added == IF has(e) = {} THEN Sending!Put(e, part.cid, Zero) ELSE e
           t == Sending!ReceiveOne(e, part)
<1>1. DOMAIN added \subseteq ComponentClasses
  BY DEF Sending!Put, IsEntity
<1>2. CASE has(added) = {}
  <2>1. t = [c \in DOMAIN added |-> Garbage]
    BY <1>2 DEF Sending!ReceiveOne
  <2> HIDE DEF added, t
  <2> QED  BY <1>1, <2>1 DEF IsEntity, t
<1>3. CASE has(added) # {}
  <2>1. t = [c \in DOMAIN added |->
               IF c \notin has(added) THEN added[c] ELSE IF c = part.cid THEN part.val ELSE Garbage]
    BY <1>3 DEF Sending!ReceiveOne
  <2> HIDE DEF added, t
  <2> QED  BY <1>1, <2>1 DEF IsEntity, t
<1> QED
  BY <1>2, <1>3

\* With the same id in both programs a part is written to its component.
LEMMA PartIsPut ==
  ASSUME NEW e, IsEntity(e), NEW part, part.cid \in ComponentClasses, part.comp_id = recvIds[part.cid],
         \A c, d \in ComponentClasses : recvIds[c] = recvIds[d] => c = d
  PROVE  Sending!ReceiveOne(e, part) = Sending!Put(e, part.cid, part.val)
<1> DEFINE has(x) == {c \in DOMAIN x : recvIds[c] = part.comp_id}
           added == IF has(e) = {} THEN Sending!Put(e, part.cid, Zero) ELSE e
<1>1. \A x : DOMAIN x \subseteq ComponentClasses => has(x) = DOMAIN x \cap {part.cid}
  OBVIOUS
<1>2. DOMAIN added = DOMAIN e \cup {part.cid} /\ \A c \in DOMAIN e \ {part.cid} : added[c] = e[c]
  <2>1. CASE has(e) = {}
    BY <2>1 DEF Sending!Put
  <2>2. CASE has(e) # {}
    <3>1. part.cid \in DOMAIN e
      BY <2>2, <1>1 DEF IsEntity
    <3> QED  BY <2>2, <3>1
  <2> QED  BY <2>1, <2>2
<1>3. has(added) = {part.cid}
  <2>1. DOMAIN added \subseteq ComponentClasses
    BY <1>2 DEF IsEntity
  <2>2. has(added) = DOMAIN added \cap {part.cid}
    BY <1>1, <2>1
  <2> HIDE DEF added, has
  <2> QED  BY <1>2, <2>2
<1>4. Sending!ReceiveOne(e, part) =
        [c \in DOMAIN added |->
           IF c \notin has(added) THEN added[c] ELSE IF c = part.cid THEN part.val ELSE Garbage]
  BY <1>3 DEF Sending!ReceiveOne
<1> HIDE DEF added, has
<1> QED
  BY <1>2, <1>3, <1>4 DEF Sending!Put

\* An order of a finite set names each element.
LEMMA OrderNamesAll ==
  ASSUME NEW S, IsFiniteSet(S), NEW order \in Sending!SetToSeqs(S)
  PROVE  \E n \in Nat : /\ DOMAIN order = 1 .. n /\ Len(order) = n /\ order \in Seq(S)
                        /\ \A c \in S : \E i \in 1 .. n : order[i] = c
<1> DEFINE n == Cardinality(S)
<1>1. n \in Nat
  BY FS_CardinalityType
<1>2. order \in [1 .. n -> S] /\ \A i, j \in 1 .. n : i # j => order[i] # order[j]
  <2>1. Cardinality(S) = Sending!Cardinality(S)
    BY DEF Cardinality, Sending!Cardinality
  <2> HIDE DEF n
  <2>2. Sending!Cardinality(S) = n
    BY <2>1 DEF n
  <2> QED  BY <2>2 DEF Sending!SetToSeqs
<1>3. IsFiniteSet(1 .. n) /\ Cardinality(1 .. n) = n
  BY <1>1, FS_Interval
<1>4. order \in Surjection(1 .. n, S)
  <2>1. order \in Injection(1 .. n, S)
    BY <1>2 DEF Injection, IsInjective
  <2> QED  BY <1>3, <2>1, FS_Injection
<1>5. \A c \in S : \E i \in 1 .. n : order[i] = c
  BY <1>4 DEF Surjection
<1>6. order \in Seq(S) /\ Len(order) = n /\ DOMAIN order = 1 .. n
  BY <1>1, <1>2, SeqDef
<1> QED
  BY <1>1, <1>5, <1>6

\* A packet that is read: whatever the ids, the receiver has an entity again;
\* with the same ids it has the sender's components over its own.
LEMMA PacketIsRead ==
  ASSUME RepInv, NEW order \in Sending!SetToSeqs(DOMAIN sender)
  PROVE  LET t == Sending!Received(receiver, Sending!Packet(order))
         IN  /\ IsEntity(t)
             /\ (\A c \in DOMAIN sender : sendIds[c] = recvIds[c]) => t = Sending!Over(sender, receiver)
<1>1. PICK n \in Nat : /\ DOMAIN order = 1 .. n /\ Len(order) = n /\ order \in Seq(DOMAIN sender)
                       /\ \A c \in DOMAIN sender : \E i \in 1 .. n : order[i] = c
  BY OrderNamesAll DEF RepInv
<1> DEFINE parts == Sending!Packet(order).parts
<1>2. /\ DOMAIN parts = 1 .. n /\ Sending!Packet(order).count = n
      /\ \A i \in 1 .. n : /\ order[i] \in DOMAIN sender /\ order[i] \in ComponentClasses
                          /\ parts[i].cid = order[i] /\ parts[i].comp_id = sendIds[order[i]]
                          /\ parts[i].val = sender[order[i]]
  BY <1>1 DEF Sending!Packet, Sending!Parts, RepInv, IsEntity
<1> HIDE DEF parts
<1>3. PICK s : s = SubSeq(parts, 1, n)
  OBVIOUS
<1>4. DOMAIN s = 1 .. n /\ \A i \in 1 .. n : s[i] = parts[i]
  <2>1. s = [i \in 1 .. n |-> parts[i]]
    BY <1>3 DEF SubSeq
  <2> QED  BY <2>1
<1>5. PICK f : /\ f[0] = receiver /\ f[n] = ReadAll(receiver, s)
               /\ \A k \in 0 .. n - 1 : f[k + 1] = Sending!ReceiveOne(f[k], s[k + 1])
  <2>1. DOMAIN s = 1 .. n
    BY <1>4
  <2>2. \E f : PartTurns(receiver, s, n, f)
    BY <2>1, ReadingParts
  <2> QED  BY <2>2 DEF PartTurns
<1>6. f[n] = Sending!Received(receiver, Sending!Packet(order))
  BY <1>2, <1>3, <1>5 DEF Sending!Received, ReadAll, parts
<1> DEFINE same == \A c \in DOMAIN sender : sendIds[c] = recvIds[c]
           read(k) == [c \in {order[i] : i \in 1 .. k} |-> sender[c]]
           Good(k) == IsEntity(f[k]) /\ (same => f[k] = Sending!Over(read(k), receiver))
           T == {k \in 0 .. n : ~Good(k)}
<1>7. Good(0)
  <2>1. {order[i] : i \in 1 .. 0} = {}
    OBVIOUS
  <2>2. Sending!Over(read(0), receiver) = [c \in DOMAIN receiver |-> receiver[c]]
    BY <2>1 DEF Sending!Over
  <2> QED  BY <1>5, <2>2 DEF RepInv, IsEntity
<1>8. ASSUME NEW k \in 0 .. n - 1, Good(k) PROVE Good(k + 1)
  <2>1. PICK e, part, c : e = f[k] /\ part = parts[k + 1] /\ c = order[k + 1]
    OBVIOUS
  <2>2. k + 1 \in 1 .. n /\ k \in Nat
    OBVIOUS
  <2>3. /\ f[k + 1] = Sending!ReceiveOne(e, part) /\ part.cid = c /\ c \in ComponentClasses /\ c \in DOMAIN sender
        /\ part.comp_id = sendIds[c] /\ part.val = sender[c]
    BY <1>2, <1>4, <1>5, <2>1, <2>2
  <2>4. IsEntity(f[k + 1])
    BY <1>8, <2>1, <2>3, StaysEntity
  <2>5. ASSUME same PROVE f[k + 1] = Sending!Over(read(k + 1), receiver)
    <3>1. f[k + 1] = Sending!Put(e, c, sender[c])
      <4>1. part.comp_id = recvIds[part.cid]
        BY <2>3, <2>5
      <4>2. Sending!ReceiveOne(e, part) = Sending!Put(e, part.cid, part.val)
        BY <1>8, <2>1, <2>3, <4>1, PartIsPut DEF RepInv
      <4> QED  BY <2>3, <4>2
    <3>2. e = Sending!Over(read(k), receiver)
      BY <1>8, <2>1, <2>5
    <3>3. {order[i] : i \in 1 .. k + 1} = {order[i] : i \in 1 .. k} \cup {c}
      <4>1. 1 .. k + 1 = (1 .. k) \cup {k + 1}
        BY <2>2
      <4> QED  BY <2>1, <4>1
    <3>4. PICK R : R = {order[i] : i \in 1 .. k}
      OBVIOUS
    <3>5. read(k) = [d \in R |-> sender[d]] /\ read(k + 1) = [d \in R \cup {c} |-> sender[d]]
      BY <3>3, <3>4
    <3> HIDE DEF read
    <3>6. Sending!Put(Sending!Over(read(k), receiver), c, sender[c]) = Sending!Over(read(k + 1), receiver)
      BY <3>5 DEF Sending!Put, Sending!Over
    <3> QED  BY <3>1, <3>2, <3>6
  <2> QED  BY <2>4, <2>5
<1>9. \A k \in 0 .. n : Good(k)
  <2> SUFFICES ASSUME T # {} PROVE FALSE
    OBVIOUS
  <2>1. PICK m \in T : \A k \in T : m <= k
    <3> HIDE DEF T
    <3>1. T \in SUBSET Nat
      BY DEF T
    <3> QED  BY <3>1, LeastNumber
  <2>2. m \in 0 .. n /\ ~Good(m)
    BY <2>1
  <2>3. m # 0
    BY <1>7, <2>2
  <2>4. PICK k \in 0 .. n - 1 : m = k + 1
    BY <2>2, <2>3
  <2>5. k \notin T
    BY <2>1, <2>4
  <2>6. Good(k)
    BY <2>4, <2>5
  <2> QED  BY <1>8, <2>2, <2>4, <2>6
<1>10. Good(n)
  <2> HIDE DEF Good
  <2>1. n \in 0 .. n
    BY SMT
  <2> QED  BY <1>9, <2>1
<1>11. Sending!Over(read(n), receiver) = Sending!Over(sender, receiver)
  <2>1. {order[i] : i \in 1 .. n} = DOMAIN sender
    <3>1. \A i \in 1 .. n : order[i] \in DOMAIN sender
      BY <1>2
    <3>2. \A c \in DOMAIN sender : \E i \in 1 .. n : order[i] = c
      BY <1>1
    <3> QED  BY <3>1, <3>2
  <2>2. read(n) = sender
    BY <2>1 DEF RepInv, IsEntity
  <2> QED  BY <2>2
<1> QED
  BY <1>6, <1>10, <1>11

\* Nothing before the first packet.
LEMMA RepStarts == Sending!Init => RepInv
<1> SUFFICES ASSUME Sending!Init PROVE RepInv
  OBVIOUS
<1>1. \A c, d \in ComponentClasses : recvIds[c] = recvIds[d] => c = d
  BY DEF Sending!Init, Sending!IsInjective
<1>2. DOMAIN <<>> = {} /\ <<>> = [c \in DOMAIN <<>> |-> <<>>[c]]
  OBVIOUS
<1>3. IsEntity(<<>>)
  BY <1>2 DEF IsEntity
<1>4. Sending!Over(<<>>, <<>>) = <<>>
  BY <1>2 DEF Sending!Over
<1> QED
  BY <1>1, <1>2, <1>3, <1>4, FS_EmptySet DEF Sending!Init, RepInv, Sending!EntityReplicates

\* A component that is set.
LEMMA PutStays ==
  ASSUME NEW e, IsEntity(e), NEW c \in ComponentClasses, NEW v
  PROVE  /\ IsEntity(Sending!Put(e, c, v)) /\ DOMAIN Sending!Put(e, c, v) = DOMAIN e \cup {c}
<1>1. Sending!Put(e, c, v) = [x \in DOMAIN e \cup {c} |-> IF x = c THEN v ELSE e[x]]
  BY DEF Sending!Put
<1> QED
  BY <1>1 DEF IsEntity

\* A component that is set or removed in one of the programs, and a packet.
LEMMA RepSteps == ASSUME RepInv, [Sending!Next]_(Sending!vars) PROVE RepInv'
<1> USE DEF RepInv
<1>1. ASSUME NEW c \in ComponentClasses, NEW v, Sending!SetSender(c, v) PROVE RepInv'
  <2>1. sender' = Sending!Put(sender, c, v) /\ UNCHANGED <<sendIds, recvIds, receiver, sent, kept>>
    BY <1>1 DEF Sending!SetSender
  <2>2. IsEntity(sender)' /\ IsFiniteSet(DOMAIN sender')
    <3>1. IsEntity(Sending!Put(sender, c, v)) /\ DOMAIN Sending!Put(sender, c, v) = DOMAIN sender \cup {c}
      BY PutStays
    <3>2. IsFiniteSet(DOMAIN sender \cup {c})
      BY FS_AddElement
    <3> QED  BY <2>1, <3>1, <3>2 DEF IsEntity
  <2> QED  BY <2>1, <2>2 DEF Sending!EntityReplicates, IsEntity
<1>2. ASSUME NEW c \in ComponentClasses, NEW v, Sending!SetReceiver(c, v) PROVE RepInv'
  <2>1. /\ receiver' = Sending!Put(receiver, c, v) /\ kept' = receiver' /\ sent' = <<>>
        /\ UNCHANGED <<sendIds, recvIds, sender>>
    BY <1>2 DEF Sending!SetReceiver
  <2>2. IsEntity(receiver')
    BY <2>1, PutStays
  <2>3. Sending!Over(<<>>, receiver') = receiver'
    <3>1. DOMAIN <<>> = {}
      OBVIOUS
    <3> QED  BY <2>2, <3>1 DEF Sending!Over, IsEntity
  <2> QED  BY <2>1, <2>2, <2>3 DEF Sending!EntityReplicates, IsEntity
<1>3. ASSUME NEW c \in ComponentClasses, Sending!RemoveComponent(c) PROVE RepInv'
  <2>1. /\ sender' = [d \in DOMAIN sender \ {c} |-> sender[d]]
        /\ UNCHANGED <<sendIds, recvIds, receiver, sent, kept>>
    BY <1>3 DEF Sending!RemoveComponent
  <2>2. DOMAIN sender' = DOMAIN sender \ {c}
    BY <2>1
  <2>3. IsEntity(sender)' /\ IsFiniteSet(DOMAIN sender')
    BY <2>1, <2>2, FS_RemoveElement DEF IsEntity
  <2> QED  BY <2>1, <2>3 DEF Sending!EntityReplicates, IsEntity
<1>4. ASSUME Sending!Replicate PROVE RepInv'
  <2>1. PICK order \in Sending!SetToSeqs(DOMAIN sender) : receiver' = Sending!Received(receiver, Sending!Packet(order))
    BY <1>4 DEF Sending!Replicate
  <2>2. sent' = sender /\ kept' = receiver /\ UNCHANGED <<sendIds, recvIds, sender>>
    BY <1>4 DEF Sending!Replicate
  <2>3. /\ IsEntity(receiver')
        /\ (\A c \in DOMAIN sender : sendIds[c] = recvIds[c]) => receiver' = Sending!Over(sender, receiver)
    BY <2>1, PacketIsRead
  <2>4. Sending!EntityReplicates'
    BY <2>2, <2>3 DEF Sending!EntityReplicates
  <2> QED  BY <2>2, <2>3, <2>4 DEF IsEntity
<1>5. CASE UNCHANGED Sending!vars
  BY <1>5 DEF Sending!vars, Sending!EntityReplicates, IsEntity
<1> QED
  BY <1>1, <1>2, <1>3, <1>4, <1>5 DEF Sending!Next

\* Whatever order em->components has, and whatever ids flecs gave in the two
\* programs: a packet (gs_core_entities_entity_net_serialize) whose classes have
\* the same ids in both leaves the receiver with the sender's components over its
\* own (gs_core_entities_entity_net_deserialize), for any classes and values.
THEOREM EntityReplicatesHolds == Sending!Spec => []EntityReplicates
<1>1. RepInv => EntityReplicates
  BY DEF RepInv, EntityReplicates
<1> QED
  BY <1>1, RepStarts, RepSteps, PTL DEF Sending!Spec
-----------------------------------------------------------------------------
(* Objects in files. *)

\* The greatest element of a set that has the last number.
LEMMA GreatestProperty ==
  ASSUME NEW n \in Nat, NEW r \in SUBSET (1 .. n + 1), n + 1 \in r
  PROVE  Saving!Max(r) = n + 1
<1>1. \A x \in r : n + 1 >= x
  OBVIOUS
<1>2. \A x \in r : (\A y \in r : x >= y) => x = n + 1
  OBVIOUS
<1> QED
  BY <1>1, <1>2 DEF Saving!Max

\* One property behind what there is.
WriteTurn(v, o, units, k) == Saving!WriteOne(units, ClassVersions[v][k], o[ClassVersions[v][k].name])

\* The file on the way of writing the first n properties.
Writes(v, o, n, g) ==
  g = [r \in SUBSET (1 .. n) |->
         IF r = {} THEN Saving!Put(Len(ClassVersions[v]), 1)
         ELSE WriteTurn(v, o, g[r \ {Saving!Max(r)}], Saving!Max(r))]

\* gs_core_obj_serialize_impl writes them one after the other.
LEMMA FoldWrites ==
  ASSUME NEW v, NEW o, NEW n \in Nat, DOMAIN ClassVersions[v] = 1 .. n
  PROVE  Saving!Serialized(v, o) = (CHOOSE g : Writes(v, o, n, g))[1 .. n]
  BY DEF Saving!FoldLeft, Saving!MapThenFoldSet, Writes, WriteTurn, Saving!Serialized

\* There is one for every number of properties.
LEMMA WritesExist ==
  ASSUME NEW v, NEW o
  PROVE  \A n \in Nat : \E g : Writes(v, o, n, g)
<1> DEFINE T == {n \in Nat : ~\E g : Writes(v, o, n, g)}
<1> SUFFICES ASSUME T # {} PROVE FALSE
  OBVIOUS
<1>1. PICK n \in T : \A m \in T : n <= m
  <2> HIDE DEF T
  <2>1. T \in SUBSET Nat
    BY DEF T
  <2> QED  BY <2>1, LeastNumber
<1>2. n \in Nat /\ ~\E g : Writes(v, o, n, g)
  BY <1>1
<1>3. n # 0
  <2> DEFINE g == [r \in SUBSET (1 .. 0) |-> Saving!Put(Len(ClassVersions[v]), 1)]
  <2>1. \A r \in SUBSET (1 .. 0) : r = {}
    OBVIOUS
  <2>2. Writes(v, o, 0, g)
    BY <2>1 DEF Writes
  <2> QED  BY <1>2, <2>2
<1>4. PICK m \in Nat : n = m + 1
  BY <1>2, <1>3
<1>5. PICK g : Writes(v, o, m, g)
  <2>1. m \notin T
    BY <1>1, <1>4
  <2> QED  BY <2>1
<1> DEFINE h == [r \in SUBSET (1 .. m + 1) |->
                   IF m + 1 \in r THEN WriteTurn(v, o, g[r \ {m + 1}], m + 1) ELSE g[r]]
<1>6. ASSUME NEW r \in SUBSET (1 .. m + 1)
      PROVE  h[r] = IF r = {} THEN Saving!Put(Len(ClassVersions[v]), 1)
                     ELSE WriteTurn(v, o, h[r \ {Saving!Max(r)}], Saving!Max(r))
  <2>1. CASE m + 1 \in r
    <3>1. Saving!Max(r) = m + 1
      BY <2>1, GreatestProperty
    <3>2. r \ {m + 1} \in SUBSET (1 .. m + 1) /\ m + 1 \notin r \ {m + 1}
      OBVIOUS
    <3>3. h[r \ {m + 1}] = g[r \ {m + 1}]
      BY <3>2
    <3>4. h[r] = WriteTurn(v, o, g[r \ {m + 1}], m + 1)
      BY <2>1
    <3> QED  BY <2>1, <3>1, <3>3, <3>4
  <2>2. CASE m + 1 \notin r
    <3>1. r \in SUBSET (1 .. m)
      BY <2>2
    <3>2. g[r] = IF r = {} THEN Saving!Put(Len(ClassVersions[v]), 1)
                 ELSE WriteTurn(v, o, g[r \ {Saving!Max(r)}], Saving!Max(r))
      BY <1>5, <3>1 DEF Writes
    <3>3. h[r] = g[r]
      BY <2>2
    <3>4. r \ {Saving!Max(r)} \in SUBSET (1 .. m + 1) /\ m + 1 \notin r \ {Saving!Max(r)}
      BY <2>2
    <3>5. h[r \ {Saving!Max(r)}] = g[r \ {Saving!Max(r)}]
      BY <3>4
    <3> QED  BY <3>2, <3>3, <3>5
  <2> QED  BY <2>1, <2>2
<1>7. Writes(v, o, m + 1, h)
  <2>1. h = [r \in SUBSET (1 .. m + 1) |-> h[r]]
    OBVIOUS
  <2> HIDE DEF h
  <2> QED  BY <1>6, <2>1 DEF Writes
<1> QED
  BY <1>2, <1>4, <1>7

\* One after the other: the file after each property.
WriteTurns(v, o, n, f) ==
  /\ f[0] = Saving!Put(Len(ClassVersions[v]), 1) /\ f[n] = Saving!Serialized(v, o)
  /\ \A k \in 0 .. n - 1 : f[k + 1] = WriteTurn(v, o, f[k], k + 1)

\* There are such.
LEMMA WritesSteps ==
  ASSUME NEW v, NEW o, NEW n \in Nat, DOMAIN ClassVersions[v] = 1 .. n
  PROVE  \E f : WriteTurns(v, o, n, f)
<1>1. PICK g : Writes(v, o, n, g) /\ g[1 .. n] = Saving!Serialized(v, o)
  <2>1. \E g : Writes(v, o, n, g)
    BY WritesExist
  <2>2. Writes(v, o, n, CHOOSE g : Writes(v, o, n, g))
    BY <2>1
  <2> QED  BY <2>2, FoldWrites
<1> DEFINE f == [k \in 0 .. n |-> g[1 .. k]]
<1>2. f[0] = Saving!Put(Len(ClassVersions[v]), 1)
  <2>1. g[{}] = Saving!Put(Len(ClassVersions[v]), 1)
    BY <1>1 DEF Writes
  <2>2. 1 .. 0 = {}
    OBVIOUS
  <2> QED  BY <2>1, <2>2
<1>3. ASSUME NEW k \in 0 .. n - 1 PROVE f[k + 1] = WriteTurn(v, o, f[k], k + 1)
  <2>0. k \in Nat /\ k + 1 <= n
    OBVIOUS
  <2>1. 1 .. k + 1 \in SUBSET (1 .. n) /\ 1 .. k + 1 # {} /\ k + 1 \in 1 .. k + 1
    <3>1. \A i \in 1 .. k + 1 : i \in 1 .. n
      BY <2>0
    <3>2. k + 1 \in 1 .. k + 1
      BY <2>0
    <3> QED  BY <3>1, <3>2
  <2>2. Saving!Max(1 .. k + 1) = k + 1
    BY <2>1, GreatestProperty
  <2>3. (1 .. k + 1) \ {k + 1} = 1 .. k
    OBVIOUS
  <2>4. g[1 .. k + 1] = WriteTurn(v, o, g[1 .. k], k + 1)
    BY <1>1, <2>1, <2>2, <2>3 DEF Writes
  <2> QED  BY <2>4
<1>4. f[n] = Saving!Serialized(v, o)
  BY <1>1
<1> QED
  BY <1>2, <1>3, <1>4 DEF WriteTurns

\* A new object, before anything is read into it.
Unread(v) == [pos |-> 1, obj |-> Saving!Fresh(v), fault |-> FALSE]

\* The object on the way of the first n turns.
Reads(v, units, n, g) ==
  g = [r \in SUBSET (1 .. n) |->
         IF r = {} THEN Unread(v) ELSE Saving!ReadOne(v, units, g[r \ {Saving!Max(r)}])]

\* gs_core_obj_deserialize_impl takes as many turns as the file says.
LEMMA FoldReads ==
  ASSUME NEW v, NEW units, NEW n \in Nat, Saving!Get(units, 0, 1) = n
  PROVE  Saving!Deserialized(v, units) = (CHOOSE g : Reads(v, units, n, g))[1 .. n]
  BY DEF Saving!FoldLeft, Saving!MapThenFoldSet, Reads, Saving!Deserialized, Unread

\* There is one for every number of turns.
LEMMA ReadsExist ==
  ASSUME NEW v, NEW units
  PROVE  \A n \in Nat : \E g : Reads(v, units, n, g)
<1> DEFINE T == {n \in Nat : ~\E g : Reads(v, units, n, g)}
<1> SUFFICES ASSUME T # {} PROVE FALSE
  OBVIOUS
<1>1. PICK n \in T : \A m \in T : n <= m
  <2> HIDE DEF T
  <2>1. T \in SUBSET Nat
    BY DEF T
  <2> QED  BY <2>1, LeastNumber
<1>2. n \in Nat /\ ~\E g : Reads(v, units, n, g)
  BY <1>1
<1>3. n # 0
  <2> DEFINE g == [r \in SUBSET (1 .. 0) |-> Unread(v)]
  <2>1. \A r \in SUBSET (1 .. 0) : r = {}
    OBVIOUS
  <2>2. Reads(v, units, 0, g)
    BY <2>1 DEF Reads
  <2> QED  BY <1>2, <2>2
<1>4. PICK m \in Nat : n = m + 1
  BY <1>2, <1>3
<1>5. PICK g : Reads(v, units, m, g)
  <2>1. m \notin T
    BY <1>1, <1>4
  <2> QED  BY <2>1
<1> DEFINE h == [r \in SUBSET (1 .. m + 1) |->
                   IF m + 1 \in r THEN Saving!ReadOne(v, units, g[r \ {m + 1}]) ELSE g[r]]
<1>6. ASSUME NEW r \in SUBSET (1 .. m + 1)
      PROVE  h[r] = IF r = {} THEN Unread(v) ELSE Saving!ReadOne(v, units, h[r \ {Saving!Max(r)}])
  <2>1. CASE m + 1 \in r
    <3>1. Saving!Max(r) = m + 1
      BY <2>1, GreatestProperty
    <3>2. r \ {m + 1} \in SUBSET (1 .. m + 1) /\ m + 1 \notin r \ {m + 1}
      OBVIOUS
    <3>3. h[r \ {m + 1}] = g[r \ {m + 1}]
      BY <3>2
    <3>4. h[r] = Saving!ReadOne(v, units, g[r \ {m + 1}])
      BY <2>1
    <3> QED  BY <2>1, <3>1, <3>3, <3>4
  <2>2. CASE m + 1 \notin r
    <3>1. r \in SUBSET (1 .. m)
      BY <2>2
    <3>2. g[r] = IF r = {} THEN Unread(v) ELSE Saving!ReadOne(v, units, g[r \ {Saving!Max(r)}])
      BY <1>5, <3>1 DEF Reads
    <3>3. h[r] = g[r]
      BY <2>2
    <3>4. r \ {Saving!Max(r)} \in SUBSET (1 .. m + 1) /\ m + 1 \notin r \ {Saving!Max(r)}
      BY <2>2
    <3>5. h[r \ {Saving!Max(r)}] = g[r \ {Saving!Max(r)}]
      BY <3>4
    <3> QED  BY <3>2, <3>3, <3>5
  <2> QED  BY <2>1, <2>2
<1>7. Reads(v, units, m + 1, h)
  <2>1. h = [r \in SUBSET (1 .. m + 1) |-> h[r]]
    OBVIOUS
  <2> HIDE DEF h
  <2> QED  BY <1>6, <2>1 DEF Reads
<1> QED
  BY <1>2, <1>4, <1>7

\* One after the other: the object after each turn.
ReadTurns(v, units, n, f) ==
  /\ f[0] = Unread(v) /\ f[n] = Saving!Deserialized(v, units)
  /\ \A k \in 0 .. n - 1 : f[k + 1] = Saving!ReadOne(v, units, f[k])

\* There are such.
LEMMA ReadsSteps ==
  ASSUME NEW v, NEW units, NEW n \in Nat, Saving!Get(units, 0, 1) = n
  PROVE  \E f : ReadTurns(v, units, n, f)
<1>1. PICK g : Reads(v, units, n, g) /\ g[1 .. n] = Saving!Deserialized(v, units)
  <2>1. \E g : Reads(v, units, n, g)
    BY ReadsExist
  <2>2. Reads(v, units, n, CHOOSE g : Reads(v, units, n, g))
    BY <2>1
  <2> QED  BY <2>2, FoldReads
<1> DEFINE f == [k \in 0 .. n |-> g[1 .. k]]
<1>2. f[0] = Unread(v)
  <2>1. g[{}] = Unread(v)
    BY <1>1 DEF Reads
  <2>2. 1 .. 0 = {}
    OBVIOUS
  <2> QED  BY <2>1, <2>2
<1>3. ASSUME NEW k \in 0 .. n - 1 PROVE f[k + 1] = Saving!ReadOne(v, units, f[k])
  <2>0. k \in Nat /\ k + 1 <= n
    OBVIOUS
  <2>1. 1 .. k + 1 \in SUBSET (1 .. n) /\ 1 .. k + 1 # {} /\ k + 1 \in 1 .. k + 1
    <3>1. \A i \in 1 .. k + 1 : i \in 1 .. n
      BY <2>0
    <3>2. k + 1 \in 1 .. k + 1
      BY <2>0
    <3> QED  BY <3>1, <3>2
  <2>2. Saving!Max(1 .. k + 1) = k + 1
    BY <2>1, GreatestProperty
  <2>3. (1 .. k + 1) \ {k + 1} = 1 .. k
    OBVIOUS
  <2>4. g[1 .. k + 1] = Saving!ReadOne(v, units, g[1 .. k])
    BY <1>1, <2>1, <2>2, <2>3 DEF Reads
  <2> QED  BY <2>4
<1>4. f[n] = Saving!Deserialized(v, units)
  BY <1>1
<1> QED
  BY <1>2, <1>3, <1>4 DEF ReadTurns

\* Units that one value takes in a file.
Width(p) == IF p.type \in DOMAIN Scalars THEN Scalars[p.type] ELSE 0

\* What a property leaves in a file behind the first `at' units.
RecordAt(units, at, p, val) ==
  /\ at + 3 + Width(p) <= Len(units)
  /\ units[at + 1] = <<p.name, 1>> /\ units[at + 2] = <<p.type, 1>> /\ units[at + 3] = <<p.size, 1>>
  /\ \A i \in 1 .. Width(p) : units[at + 3 + i] = <<val, i>>

\* A type without a case has no units.
LEMMA WidthIsNumber == ASSUME NEW p PROVE Width(p) \in Nat
  BY SavingAssumption DEF Width

\* Files with values from S, and one behind the other.
Units(S) == Seq(S \X Nat)
Cat(a, b) == a \o b

\* `\o' unit by unit.
LEMMA Behind ==
  ASSUME NEW S, NEW a \in Units(S), NEW b \in Units(S), NEW m \in Nat, NEW n \in Nat, Len(a) = m, Len(b) = n
  PROVE  /\ Cat(a, b) \in Units(S) /\ Len(Cat(a, b)) = m + n
         /\ \A i \in 1 .. m : Cat(a, b)[i] = a[i]
         /\ \A i \in 1 .. n : Cat(a, b)[m + i] = b[i]
<1>1. PICK t : t = a \o b
  OBVIOUS
<1>2. t \in Seq(S \X Nat) /\ Len(t) = m + n
  BY <1>1 DEF Units
<1>3. \A i \in 1 .. m : t[i] = a[i]
  BY <1>1 DEF Units
<1>4. ASSUME NEW i \in 1 .. n PROVE t[m + i] = b[i]
  <2>1. m + i \in 1 .. m + n
    OBVIOUS
  <2> QED  BY <1>1, <2>1 DEF Units
<1> QED
  BY <1>1, <1>2, <1>3, <1>4 DEF Cat, Units

\* A value in n units.
LEMMA PutUnits ==
  ASSUME NEW S, NEW x \in S, NEW n \in Nat
  PROVE  /\ Saving!Put(x, n) \in Units(S) /\ Len(Saving!Put(x, n)) = n
         /\ \A i \in 1 .. n : Saving!Put(x, n)[i] = <<x, i>>
<1>1. Saving!Put(x, n) = [i \in 1 .. n |-> <<x, i>>]
  BY DEF Saving!Put
<1>2. \A i \in 1 .. n : <<x, i>> \in S \X Nat
  OBVIOUS
<1>3. Saving!Put(x, n) \in [1 .. n -> S \X Nat]
  BY <1>1, <1>2
<1>4. Saving!Put(x, n) \in Units(S)
  BY <1>3, SeqDef DEF Units
<1>5. Len(Saving!Put(x, n)) = n
  BY <1>1
<1> QED
  BY <1>1, <1>4, <1>5

\* A value in one unit.
LEMMA PutUnit ==
  ASSUME NEW S, NEW x \in S
  PROVE  Saving!Put(x, 1) \in Units(S) /\ Len(Saving!Put(x, 1)) = 1 /\ Saving!Put(x, 1)[1] = <<x, 1>>
<1>1. /\ Saving!Put(x, 1) \in Units(S) /\ Len(Saving!Put(x, 1)) = 1
      /\ \A i \in 1 .. 1 : Saving!Put(x, 1)[i] = <<x, i>>
  BY PutUnits
<1>2. 1 \in 1 .. 1
  OBVIOUS
<1> QED
  BY <1>1, <1>2

\* A value in one unit, behind what there is.
CatOne(a, x) == Cat(a, Saving!Put(x, 1))

OnePut(S, b, a, m, x) ==
  /\ b \in Units(S) /\ Len(b) = m + 1
  /\ \A i \in 1 .. m : b[i] = a[i]
  /\ b[m + 1] = <<x, 1>>

\* It is.
LEMMA OneBehind ==
  ASSUME NEW S, NEW a \in Units(S), NEW m \in Nat, Len(a) = m, NEW x \in S
  PROVE  OnePut(S, CatOne(a, x), a, m, x)
<1>0. PICK n \in Nat : n = 1
  OBVIOUS
<1>1. PICK b : b = Saving!Put(x, 1)
  OBVIOUS
<1>2. b \in Units(S) /\ Len(b) = n /\ b[1] = <<x, 1>>
  BY <1>0, <1>1, PutUnit
<1>3. 1 \in 1 .. 1
  OBVIOUS
<1>4. /\ Cat(a, b) \in Units(S) /\ Len(Cat(a, b)) = m + n
      /\ \A i \in 1 .. m : Cat(a, b)[i] = a[i]
      /\ \A i \in 1 .. n : Cat(a, b)[m + i] = b[i]
  <2>1. n \in Nat
    BY <1>0
  <2> QED  BY <1>2, <2>1, Behind
<1> QED
  BY <1>0, <1>1, <1>2, <1>3, <1>4 DEF CatOne, OnePut

\* A property is written behind what there is.
LEMMA OneIsWritten ==
  ASSUME NEW S, NEW u \in Units(S), NEW m \in Nat, Len(u) = m,
         NEW p, p.name \in S, p.type \in S, p.size \in S, NEW val \in S
  PROVE  /\ Saving!WriteOne(u, p, val) \in Units(S) /\ Len(Saving!WriteOne(u, p, val)) = m + 3 + Width(p)
         /\ \A i \in 1 .. m : Saving!WriteOne(u, p, val)[i] = u[i]
         /\ RecordAt(Saving!WriteOne(u, p, val), m, p, val)
<1>1. PICK w \in Nat : w = Width(p)
  BY WidthIsNumber
<1>2. PICK a, b, c, e, t : /\ a = CatOne(u, p.name) /\ b = CatOne(a, p.type) /\ c = CatOne(b, p.size)
                           /\ e = Saving!Payload(p, val) /\ t = Cat(c, e)
  OBVIOUS
<1>3. t = Saving!WriteOne(u, p, val)
  BY <1>2 DEF Saving!WriteOne, CatOne, Cat
<1>4. e \in Units(S) /\ Len(e) = w /\ \A i \in 1 .. w : e[i] = <<val, i>>
  <2>1. CASE p.type \in DOMAIN Scalars
    <3>1. e = Saving!Put(val, w)
      BY <1>1, <1>2, <2>1 DEF Saving!Payload, Width
    <3> QED  BY <3>1, PutUnits
  <2>2. CASE p.type \notin DOMAIN Scalars
    <3>1. e = <<>> /\ w = 0
      BY <1>1, <1>2, <2>2 DEF Saving!Payload, Width
    <3> QED  BY <3>1 DEF Units
  <2> QED  BY <2>1, <2>2
<1>5. /\ a \in Units(S) /\ Len(a) = m + 1
      /\ \A i \in 1 .. m : a[i] = u[i]
      /\ a[m + 1] = <<p.name, 1>>
  <2>1. PICK x \in S : x = p.name
    OBVIOUS
  <2>2. OnePut(S, CatOne(u, x), u, m, x)
    BY OneBehind
  <2> QED  BY <1>2, <2>1, <2>2 DEF OnePut
<1>6. /\ b \in Units(S) /\ Len(b) = m + 2
      /\ \A i \in 1 .. m + 1 : b[i] = a[i]
      /\ b[m + 2] = <<p.type, 1>>
  <2>1. PICK k \in Nat : k = m + 1
    OBVIOUS
  <2>2. /\ b \in Units(S) /\ Len(b) = k + 1
        /\ \A i \in 1 .. k : b[i] = a[i]
        /\ b[k + 1] = <<p.type, 1>>
    <3>1. PICK x \in S : x = p.type
      OBVIOUS
    <3>2. PICK d \in Units(S) : d = a
      BY <1>5
    <3>3. Len(d) = k
      BY <1>5, <2>1, <3>2
    <3>4. OnePut(S, CatOne(d, x), d, k, x)
      BY <3>3, OneBehind
    <3> QED  BY <1>2, <3>1, <3>2, <3>4 DEF OnePut
  <2>3. k + 1 = m + 2
    BY <2>1
  <2> QED  BY <2>1, <2>2, <2>3
<1>7. /\ c \in Units(S) /\ Len(c) = m + 3
      /\ \A i \in 1 .. m + 2 : c[i] = b[i]
      /\ c[m + 3] = <<p.size, 1>>
  <2>1. PICK k \in Nat : k = m + 2
    OBVIOUS
  <2>2. /\ c \in Units(S) /\ Len(c) = k + 1
        /\ \A i \in 1 .. k : c[i] = b[i]
        /\ c[k + 1] = <<p.size, 1>>
    <3>1. PICK x \in S : x = p.size
      OBVIOUS
    <3>2. PICK d \in Units(S) : d = b
      BY <1>6
    <3>3. Len(d) = k
      BY <1>6, <2>1, <3>2
    <3>4. OnePut(S, CatOne(d, x), d, k, x)
      BY <3>3, OneBehind
    <3> QED  BY <1>2, <3>1, <3>2, <3>4 DEF OnePut
  <2>3. k + 1 = m + 3
    BY <2>1
  <2> QED  BY <2>1, <2>2, <2>3
<1>8. /\ t \in Units(S) /\ Len(t) = m + 3 + w
      /\ \A i \in 1 .. m + 3 : t[i] = c[i]
      /\ \A i \in 1 .. w : t[m + 3 + i] = e[i]
  <2>1. PICK k \in Nat : k = m + 3
    OBVIOUS
  <2>2. /\ t \in Units(S) /\ Len(t) = k + w
        /\ \A i \in 1 .. k : t[i] = c[i]
        /\ \A i \in 1 .. w : t[k + i] = e[i]
    <3>1. Len(c) = k
      BY <1>7, <2>1
    <3>2. /\ Cat(c, e) \in Units(S) /\ Len(Cat(c, e)) = k + w
          /\ \A i \in 1 .. k : Cat(c, e)[i] = c[i]
          /\ \A i \in 1 .. w : Cat(c, e)[k + i] = e[i]
      BY <1>4, <1>7, <3>1, Behind
    <3> QED  BY <1>2, <3>2
  <2> QED  BY <2>1, <2>2
<1>9. /\ \A i \in 1 .. m + 1 : i \in 1 .. m + 2 /\ i \in 1 .. m + 3
      /\ \A i \in 1 .. m : i \in 1 .. m + 1
      /\ \A i \in 1 .. m + 2 : i \in 1 .. m + 3
      /\ m + 1 \in 1 .. m + 1 /\ m + 2 \in 1 .. m + 2 /\ m + 3 \in 1 .. m + 3
  OBVIOUS
<1>10. \A i \in 1 .. m : t[i] = u[i]
  BY <1>5, <1>6, <1>7, <1>8, <1>9
<1>11. t[m + 1] = <<p.name, 1>> /\ t[m + 2] = <<p.type, 1>> /\ t[m + 3] = <<p.size, 1>>
  BY <1>5, <1>6, <1>7, <1>8, <1>9
<1>12. \A i \in 1 .. w : t[m + 3 + i] = <<val, i>>
  BY <1>4, <1>8
<1>13. m + 3 + w <= Len(t)
  BY <1>8
<1>14. RecordAt(t, m, p, val)
  BY <1>1, <1>11, <1>12, <1>13 DEF RecordAt
<1> QED
  BY <1>1, <1>3, <1>8, <1>10, <1>14

\* What is written behind a record leaves it as it is.
LEMMA RecordStays ==
  ASSUME NEW u, NEW t, NEW m \in Nat, NEW n \in Nat, Len(u) = m, Len(t) = n, m <= n,
         \A i \in 1 .. m : t[i] = u[i],
         NEW at \in Nat, NEW p, NEW val, RecordAt(u, at, p, val)
  PROVE  RecordAt(t, at, p, val)
<1>1. PICK w \in Nat : w = Width(p)
  BY WidthIsNumber
<1>2. at + 3 + w <= m
  BY <1>1 DEF RecordAt
<1>3. /\ at + 1 \in 1 .. m /\ at + 2 \in 1 .. m /\ at + 3 \in 1 .. m /\ at + 3 + w <= n
      /\ \A i \in 1 .. w : at + 3 + i \in 1 .. m
  BY <1>2
<1> QED
  BY <1>1, <1>3 DEF RecordAt

\* The file has the number of properties, and behind it one record after the
\* other.
Records(units, v, o, n, at) ==
  /\ Len(units) \in Nat \ {0} /\ units[1] = <<n, 1>> /\ at[0] = 1
  /\ \A k \in 0 .. n - 1 :
       /\ at[k] \in Nat /\ at[k + 1] = at[k] + 3 + Width(ClassVersions[v][k + 1])
       /\ RecordAt(units, at[k], ClassVersions[v][k + 1], o[ClassVersions[v][k + 1].name])

\* So is a file that gs_core_obj_serialize_impl writes.
LEMMA FileHasRecords ==
  ASSUME NEW v \in DOMAIN ClassVersions, NEW o, NEW n \in Nat, n = Len(ClassVersions[v])
  PROVE  \E at : Records(Saving!Serialized(v, o), v, o, n, at)
<1> DEFINE prop(k) == ClassVersions[v][k]
           val(k) == o[prop(k).name]
           things(k) == {prop(k).name, prop(k).type, prop(k).size, val(k)}
           S == {n} \cup UNION {things(k) : k \in 1 .. n}
<1>1. DOMAIN ClassVersions[v] = 1 .. n
  BY SavingAssumption
<1>2. PICK f : /\ f[0] = Saving!Put(Len(ClassVersions[v]), 1) /\ f[n] = Saving!Serialized(v, o)
               /\ \A k \in 0 .. n - 1 : f[k + 1] = Saving!WriteOne(f[k], prop(k + 1), val(k + 1))
  <2>1. \E f : WriteTurns(v, o, n, f)
    BY <1>1, WritesSteps
  <2> QED  BY <2>1 DEF WriteTurns, WriteTurn
<1>3. n \in S /\ \A k \in 1 .. n : things(k) \subseteq S
  OBVIOUS
<1>4. \A k \in 1 .. n : prop(k).name \in S /\ prop(k).type \in S /\ prop(k).size \in S /\ val(k) \in S
  BY <1>3
<1> DEFINE Good(k) ==
      /\ f[k] \in Units(S) /\ Len(f[k]) \in Nat \ {0} /\ f[k][1] = <<n, 1>>
      /\ \A j \in 0 .. k - 1 : /\ Len(f[j]) \in Nat /\ Len(f[j + 1]) = Len(f[j]) + 3 + Width(prop(j + 1))
                               /\ RecordAt(f[k], Len(f[j]), prop(j + 1), val(j + 1))
<1> HIDE DEF S, prop, val
<1>5. Good(0)
  <2>1. f[0] = Saving!Put(n, 1)
    BY <1>2
  <2>2. Saving!Put(n, 1) \in Units(S) /\ Len(Saving!Put(n, 1)) = 1 /\ Saving!Put(n, 1)[1] = <<n, 1>>
    BY <1>3, PutUnit
  <2> QED  BY <2>1, <2>2
<1>6. ASSUME NEW k \in 0 .. n - 1, Good(k) PROVE Good(k + 1)
  <2>0. k \in Nat /\ k + 1 \in 1 .. n
    OBVIOUS
  <2>1. PICK u, t, p, x : u = f[k] /\ t = f[k + 1] /\ p = prop(k + 1) /\ x = val(k + 1)
    OBVIOUS
  <2>2. u \in Units(S) /\ Len(u) \in Nat \ {0} /\ u[1] = <<n, 1>>
    BY <1>6, <2>1
  <2>3. PICK m \in Nat : m = Len(u) /\ m # 0
    BY <2>2
  <2>4. PICK w \in Nat : w = Width(p)
    BY WidthIsNumber
  <2>5. t = Saving!WriteOne(u, p, x)
    BY <1>2, <2>1
  <2>6. p.name \in S /\ p.type \in S /\ p.size \in S /\ x \in S
    BY <1>4, <2>0, <2>1
  <2>7. /\ t \in Units(S) /\ Len(t) = m + 3 + w
        /\ \A i \in 1 .. m : t[i] = u[i]
        /\ RecordAt(t, m, p, x)
    <3>1. /\ Saving!WriteOne(u, p, x) \in Units(S) /\ Len(Saving!WriteOne(u, p, x)) = m + 3 + Width(p)
          /\ \A i \in 1 .. m : Saving!WriteOne(u, p, x)[i] = u[i]
          /\ RecordAt(Saving!WriteOne(u, p, x), m, p, x)
      BY <2>2, <2>3, <2>6, OneIsWritten
    <3> QED  BY <2>4, <2>5, <3>1
  <2>8. t[1] = <<n, 1>> /\ Len(t) \in Nat \ {0} /\ m <= m + 3 + w /\ m + 3 + w \in Nat
    BY <2>2, <2>3, <2>7
  <2>9. ASSUME NEW j \in 0 .. k
        PROVE  /\ Len(f[j]) \in Nat /\ Len(f[j + 1]) = Len(f[j]) + 3 + Width(prop(j + 1))
               /\ RecordAt(t, Len(f[j]), prop(j + 1), val(j + 1))
    <3>1. CASE j = k
      BY <2>1, <2>3, <2>4, <2>7, <3>1
    <3>2. CASE j # k
      <4>1. j \in 0 .. k - 1
        BY <3>2
      <4>2. /\ Len(f[j]) \in Nat /\ Len(f[j + 1]) = Len(f[j]) + 3 + Width(prop(j + 1))
            /\ RecordAt(u, Len(f[j]), prop(j + 1), val(j + 1))
        BY <1>6, <2>1, <4>1
      <4>3. RecordAt(t, Len(f[j]), prop(j + 1), val(j + 1))
        <5>1. PICK a, q, y, z : a = Len(f[j]) /\ q = prop(j + 1) /\ y = val(j + 1) /\ z = Len(t)
          OBVIOUS
        <5>2. a \in Nat /\ z \in Nat /\ m <= z /\ RecordAt(u, a, q, y)
          BY <2>7, <2>8, <4>2, <5>1
        <5>3. RecordAt(t, a, q, y)
          BY <2>3, <2>7, <5>1, <5>2, RecordStays
        <5> QED  BY <5>1, <5>3
      <4> QED  BY <4>2, <4>3
    <3> QED  BY <3>1, <3>2
  <2>10. (k + 1) - 1 = k
    BY <2>0
  <2> QED  BY <2>1, <2>7, <2>8, <2>9, <2>10
<1>7. \A k \in 0 .. n : Good(k)
  <2> DEFINE T == {k \in 0 .. n : ~Good(k)}
  <2> HIDE DEF Good
  <2> SUFFICES ASSUME T # {} PROVE FALSE
    OBVIOUS
  <2>1. PICK m \in T : \A k \in T : m <= k
    <3> HIDE DEF T
    <3>1. T \in SUBSET Nat
      BY DEF T
    <3> QED  BY <3>1, LeastNumber
  <2>2. m \in 0 .. n /\ ~Good(m)
    BY <2>1
  <2>3. m # 0
    BY <1>5, <2>2
  <2>4. PICK k \in 0 .. n - 1 : m = k + 1
    BY <2>2, <2>3
  <2>5. k \notin T
    BY <2>1, <2>4
  <2>6. Good(k)
    BY <2>4, <2>5
  <2> QED  BY <1>6, <2>2, <2>4, <2>6
<1>8. Good(n)
  <2> HIDE DEF Good
  <2>1. n \in 0 .. n
    BY SMT
  <2> QED  BY <1>7, <2>1
<1> DEFINE at == [k \in 0 .. n |-> Len(f[k])]
<1>9. at[0] = 1
  <2>1. f[0] = Saving!Put(n, 1)
    BY <1>2
  <2>2. Len(Saving!Put(n, 1)) = 1
    BY <1>3, PutUnit
  <2> QED  BY <2>1, <2>2
<1>10. \A k \in 0 .. n - 1 : at[k] = Len(f[k]) /\ at[k + 1] = Len(f[k + 1])
  OBVIOUS
<1> HIDE DEF at
<1>11. \A k \in 0 .. n - 1 :
         /\ at[k] \in Nat /\ at[k + 1] = at[k] + 3 + Width(prop(k + 1))
         /\ RecordAt(Saving!Serialized(v, o), at[k], prop(k + 1), val(k + 1))
  BY <1>2, <1>8, <1>10
<1> QED
  BY <1>2, <1>8, <1>9, <1>11 DEF prop, val, Records

\* gs_byte_buffer_readc reads a value that has been written.
LEMMA GetReads ==
  ASSUME NEW units, NEW pos \in Nat, NEW n \in Nat \ {0}, NEW x, pos + n <= Len(units),
         \A i \in 1 .. n : units[pos + i] = <<x, i>>
  PROVE  Saving!Get(units, pos, n) = x
<1>1. units[pos + 1][1] = x
  <2>1. 1 \in 1 .. n
    OBVIOUS
  <2>2. units[pos + 1] = <<x, 1>>
    BY <2>1
  <2> QED  BY <2>2
<1>2. SubSeq(units, pos + 1, pos + n) = Saving!Put(x, n)
  <2>1. SubSeq(units, pos + 1, pos + n) = [i \in 1 .. (pos + n) - (pos + 1) + 1 |-> units[i + (pos + 1) - 1]]
    BY DEF SubSeq
  <2>2. (pos + n) - (pos + 1) + 1 = n
    OBVIOUS
  <2>3. \A i \in 1 .. n : i + (pos + 1) - 1 = pos + i
    OBVIOUS
  <2>4. SubSeq(units, pos + 1, pos + n) = [i \in 1 .. n |-> units[pos + i]]
    BY <2>1, <2>2, <2>3
  <2> QED  BY <2>4 DEF Saving!Put
<1> QED
  BY <1>1, <1>2 DEF Saving!Get

\* A value of one unit.
LEMMA GetOne ==
  ASSUME NEW units, NEW pos \in Nat, NEW x, pos + 1 <= Len(units), units[pos + 1] = <<x, 1>>
  PROVE  Saving!Get(units, pos, 1) = x
<1>1. PICK n \in Nat \ {0} : n = 1
  OBVIOUS
<1>2. (\A i \in 1 .. n : units[pos + i] = <<x, i>>) /\ pos + n <= Len(units)
  BY <1>1
<1>3. Saving!Get(units, pos, n) = x
  BY <1>2, GetReads
<1> QED
  BY <1>1, <1>3

\* The header of a record, and the value behind it.
LEMMA RecordIsRead ==
  ASSUME NEW units, Len(units) \in Nat, NEW at \in Nat, NEW p, NEW val, RecordAt(units, at, p, val)
  PROVE  /\ Saving!Get(units, at, 1) = p.name /\ Saving!Get(units, at + 1, 1) = p.type
         /\ Saving!Get(units, at + 2, 1) = p.size
         /\ p.type \in DOMAIN Scalars => Saving!Get(units, at + 3, Scalars[p.type]) = val
<1>1. PICK w \in Nat : w = Width(p) /\ at + 3 + w <= Len(units)
  BY WidthIsNumber DEF RecordAt
<1>2. Saving!Get(units, at, 1) = p.name
  <2>1. at + 1 <= Len(units) /\ units[at + 1] = <<p.name, 1>>
    BY <1>1 DEF RecordAt
  <2> QED  BY <2>1, GetOne
<1>3. Saving!Get(units, at + 1, 1) = p.type
  <2>1. PICK b \in Nat : b = at + 1
    OBVIOUS
  <2>2. b + 1 <= Len(units) /\ b + 1 = at + 2
    BY <1>1, <2>1
  <2>3. units[b + 1] = <<p.type, 1>>
    BY <2>2 DEF RecordAt
  <2> QED  BY <2>1, <2>2, <2>3, GetOne
<1>4. Saving!Get(units, at + 2, 1) = p.size
  <2>1. PICK b \in Nat : b = at + 2
    OBVIOUS
  <2>2. b + 1 <= Len(units) /\ b + 1 = at + 3
    BY <1>1, <2>1
  <2>3. units[b + 1] = <<p.size, 1>>
    BY <2>2 DEF RecordAt
  <2> QED  BY <2>1, <2>2, <2>3, GetOne
<1>5. ASSUME p.type \in DOMAIN Scalars PROVE Saving!Get(units, at + 3, Scalars[p.type]) = val
  <2>1. w = Scalars[p.type] /\ w \in Nat \ {0}
    BY <1>1, <1>5, SavingAssumption DEF Width
  <2>2. PICK b \in Nat : b = at + 3
    OBVIOUS
  <2>3. b + w <= Len(units)
    BY <1>1, <2>2
  <2>4. \A i \in 1 .. w : units[b + i] = <<val, i>>
    BY <1>1, <2>2 DEF RecordAt
  <2> QED  BY <2>1, <2>2, <2>3, <2>4, GetReads
<1> QED
  BY <1>2, <1>3, <1>4, <1>5

\* The object that is read, at a place of the file.
Reader(a, b, f) == [pos |-> a, obj |-> b, fault |-> f]

\* The reader goes on in the file.
LEMMA ReaderMoves ==
  ASSUME NEW a, NEW b, NEW d, NEW f
  PROVE  [Reader(a, b, f) EXCEPT !.pos = d] = Reader(d, b, f)
<1>1. PICK s : s = Reader(a, b, f)
  OBVIOUS
<1>2. PICK t : t = [s EXCEPT !.pos = d]
  OBVIOUS
<1>3. s \in [pos : {a}, obj : {b}, fault : {f}]
  BY <1>1 DEF Reader
<1>4. t \in [pos : {d}, obj : {b}, fault : {f}]
  BY <1>3, <1>2
<1>5. t = [pos |-> t.pos, obj |-> t.obj, fault |-> t.fault]
  BY <1>4
<1>6. t.pos = d /\ t.obj = b /\ t.fault = f
  BY <1>4
<1> QED  BY <1>1, <1>2, <1>5, <1>6 DEF Reader

\* It goes on, with a property of its object set.
SetAt(s, d, x, val) == [s EXCEPT !.pos = d, !.obj[x] = val]

\* With another object.
TakeAt(s, d, c) == [s EXCEPT !.pos = d, !.obj = c]

\* The reader does so.
LEMMA ReaderTakes ==
  ASSUME NEW a, NEW b, NEW f, NEW s, s = Reader(a, b, f), NEW d, NEW c
  PROVE  TakeAt(s, d, c) = Reader(d, c, f)
<1>1. PICK t : t = [s EXCEPT !.pos = d, !.obj = c]
  OBVIOUS
<1>2. s \in [pos : {a}, obj : {b}, fault : {f}]
  BY DEF Reader
<1>3. t \in [pos : {d}, obj : {c}, fault : {f}]
  BY <1>1, <1>2
<1>4. t = [pos |-> t.pos, obj |-> t.obj, fault |-> t.fault]
  BY <1>3
<1>5. t.pos = d /\ t.obj = c /\ t.fault = f
  BY <1>3
<1> QED
  BY <1>1, <1>4, <1>5 DEF Reader, TakeAt

\* Both are set.
LEMMA ReaderSets ==
  ASSUME NEW a, NEW b, NEW f, NEW s, s = Reader(a, b, f), NEW d, NEW x, NEW val
  PROVE  SetAt(s, d, x, val) = Reader(d, [b EXCEPT ![x] = val], f)
<1>1. s.obj = b
  BY DEF Reader
<1>2. PICK c : c = [b EXCEPT ![x] = val]
  OBVIOUS
<1>3. TakeAt(s, d, c) = Reader(d, c, f)
  BY ReaderTakes
<1> QED
  BY <1>1, <1>2, <1>3 DEF SetAt, TakeAt

\* What the program's class calls by the name of p is as p, or p can be skipped.
CanRead(v, p) ==
  /\ p.name \in Saving!Names(v)
  /\ Saving!Property(v, p.name).type # p.type \/ Saving!Property(v, p.name).size # p.size
       => p.type \in DOMAIN Scalars /\ Scalars[p.type] = p.size

\* One turn reads a record or skips it, and is at the next one then.
Turn(v, units, at, p, val, b, c) ==
  /\ Saving!ReadOne(v, units, Reader(at, b, FALSE)) = Reader(at + 3 + Width(p), c, FALSE)
  /\ c = [n \in Saving!Names(v) |-> c[n]]
  /\ \A n \in Saving!Names(v) \ {p.name} : c[n] = b[n]
  /\ Saving!Property(v, p.name).type = p.type /\ Saving!Property(v, p.name).size = p.size /\ p.type \in DOMAIN Scalars
       => c[p.name] = val

\* A record that can be read.
LEMMA OneIsRead ==
  ASSUME NEW v, NEW units, Len(units) \in Nat, NEW at \in Nat, NEW p, NEW val,
         RecordAt(units, at, p, val), CanRead(v, p), NEW b, b = [n \in Saving!Names(v) |-> b[n]]
  PROVE  \E c : Turn(v, units, at, p, val, b, c)
<1>1. PICK q, name, type, bytes : q = Saving!Property(v, p.name) /\ name = p.name /\ type = p.type /\ bytes = p.size
  OBVIOUS
<1>2. /\ Saving!Get(units, at, 1) = name /\ Saving!Get(units, at + 1, 1) = type /\ Saving!Get(units, at + 2, 1) = bytes
      /\ type \in DOMAIN Scalars => Saving!Get(units, at + 3, Scalars[type]) = val
  BY <1>1, RecordIsRead
<1>3. name \in Saving!Names(v)
  BY <1>1 DEF CanRead
<1>0. PICK s : s = [pos |-> at, obj |-> b, fault |-> FALSE]
  OBVIOUS
<1>4. s.pos = at /\ s.obj = b /\ s.fault = FALSE /\ s = Reader(at, b, FALSE)
  BY <1>0 DEF Reader
<1>8. PICK no : no = FALSE
  OBVIOUS
<1>9. s = Reader(at, b, no)
  BY <1>4, <1>8
<1>5. CASE q.type # type \/ q.size # bytes
  <2>1. Saving!ReadOne(v, units, s) = [s EXCEPT !.pos = @ + 3 + bytes]
    BY <1>1, <1>2, <1>3, <1>4, <1>5 DEF Saving!ReadOne
  <2>2. [s EXCEPT !.pos = @ + 3 + bytes] = Reader(at + 3 + bytes, b, no)
    BY <1>9, ReaderMoves
  <2>3. bytes = Width(p)
    BY <1>1, <1>5 DEF CanRead, Width
  <2> QED  BY <1>1, <1>4, <1>5, <1>8, <2>1, <2>2, <2>3 DEF Turn
<1>6. CASE q.type = type /\ q.size = bytes /\ type \in DOMAIN Scalars
  <2> DEFINE c == [b EXCEPT ![name] = val]
  <2>1. Saving!ReadOne(v, units, s) = [s EXCEPT !.pos = @ + 3 + Scalars[type], !.obj[name] = val]
    BY <1>1, <1>2, <1>3, <1>4, <1>6 DEF Saving!ReadOne
  <2>2. [s EXCEPT !.pos = @ + 3 + Scalars[type], !.obj[name] = val] = Reader(at + 3 + Scalars[type], c, no)
    <3>1. PICK d : d = at + 3 + Scalars[type]
      OBVIOUS
    <3>2. SetAt(s, d, name, val) = Reader(d, c, no)
      BY <1>9, ReaderSets
    <3> QED  BY <1>4, <3>1, <3>2 DEF SetAt
  <2>3. Scalars[type] = Width(p)
    BY <1>1, <1>6 DEF Width
  <2>4. c = [n \in Saving!Names(v) |-> IF n = name THEN val ELSE b[n]]
    BY <1>3
  <2> HIDE DEF c
  <2>5. Saving!ReadOne(v, units, Reader(at, b, FALSE)) = Reader(at + 3 + Width(p), c, FALSE)
    BY <1>4, <1>8, <2>1, <2>2, <2>3
  <2>6. c = [n \in Saving!Names(v) |-> c[n]]
    BY <2>4
  <2>7. (\A n \in Saving!Names(v) \ {p.name} : c[n] = b[n]) /\ c[p.name] = val
    BY <1>1, <1>3, <2>4
  <2> QED  BY <2>5, <2>6, <2>7 DEF Turn
<1>7. CASE q.type = type /\ q.size = bytes /\ type \notin DOMAIN Scalars
  <2>1. Saving!ReadOne(v, units, s) = [s EXCEPT !.pos = @ + 3]
    BY <1>1, <1>2, <1>3, <1>4, <1>7 DEF Saving!ReadOne
  <2>2. [s EXCEPT !.pos = @ + 3] = Reader(at + 3, b, no)
    BY <1>9, ReaderMoves
  <2>3. Width(p) = 0 /\ at + 3 + 0 = at + 3
    BY <1>1, <1>7 DEF Width
  <2> QED  BY <1>1, <1>4, <1>7, <1>8, <2>1, <2>2, <2>3 DEF Turn
<1> QED
  BY <1>5, <1>6, <1>7

\* Each property in a version of the class has one place, and its name finds it.
LEMMA NameFindsProperty ==
  ASSUME NEW v \in DOMAIN ClassVersions, NEW i \in DOMAIN ClassVersions[v]
  PROVE  Saving!Property(v, ClassVersions[v][i].name) = ClassVersions[v][i] /\ ClassVersions[v][i].name \in Saving!Names(v)
<1>1. \A p \in Saving!ToSet(ClassVersions[v]) : p.name = ClassVersions[v][i].name => p = ClassVersions[v][i]
  BY SavingAssumption DEF Saving!ToSet
<1>2. ClassVersions[v][i] \in Saving!ToSet(ClassVersions[v])
  BY DEF Saving!ToSet
<1> QED
  BY <1>1, <1>2 DEF Saving!Property, Saving!Names

\* What one version writes of an object another version reads.
LEMMA LoadedIsSaved ==
  ASSUME NEW v \in DOMAIN ClassVersions, NEW w \in DOMAIN ClassVersions, NEW o,
         \A i \in DOMAIN ClassVersions[v] : CanRead(w, ClassVersions[v][i])
  PROVE  LET s == Saving!Deserialized(w, Saving!Serialized(v, o))
         IN  /\ s.fault = FALSE
             /\ \A i \in DOMAIN ClassVersions[v] :
                  /\ Saving!Property(w, ClassVersions[v][i].name) = ClassVersions[v][i]
                  /\ ClassVersions[v][i].type \in DOMAIN Scalars
                  => s.obj[ClassVersions[v][i].name] = o[ClassVersions[v][i].name]
<1>1. PICK n \in Nat : n = Len(ClassVersions[v]) /\ DOMAIN ClassVersions[v] = 1 .. n
  BY SavingAssumption
<1>2. PICK units : units = Saving!Serialized(v, o)
  OBVIOUS
<1>3. PICK at : Records(units, v, o, n, at)
  BY <1>1, <1>2, FileHasRecords
<1>4. Saving!Get(units, 0, 1) = n
  <2>1. 0 + 1 <= Len(units) /\ units[0 + 1] = <<n, 1>>
    BY <1>3 DEF Records
  <2> QED  BY <2>1, GetOne
<1>5. PICK f : ReadTurns(w, units, n, f)
  BY <1>4, ReadsSteps
<1> DEFINE prop(k) == ClassVersions[v][k]
           name(k) == ClassVersions[v][k].name
           Same(k) == Saving!Property(w, name(k)) = prop(k) /\ prop(k).type \in DOMAIN Scalars
           Good(k) == \E b : /\ f[k] = Reader(at[k], b, FALSE)
                             /\ b = [x \in Saving!Names(w) |-> b[x]]
                             /\ \A i \in 1 .. k : Same(i) => b[name(i)] = o[name(i)]
<1>6. Good(0)
  <2> DEFINE b == [x \in Saving!Names(w) |-> Zero]
  <2>1. f[0] = Reader(1, b, FALSE)
    BY <1>5 DEF ReadTurns, Unread, Reader, Saving!Fresh
  <2>2. at[0] = 1 /\ b = [x \in Saving!Names(w) |-> b[x]] /\ \A i \in 1 .. 0 : FALSE
    BY <1>3 DEF Records
  <2> HIDE DEF b
  <2> QED  BY <2>1, <2>2
<1>7. ASSUME NEW k \in 0 .. n - 1, Good(k) PROVE Good(k + 1)
  <2>0. k \in Nat /\ k + 1 \in 1 .. n
    OBVIOUS
  <2>1. PICK b : /\ f[k] = Reader(at[k], b, FALSE)
                 /\ b = [x \in Saving!Names(w) |-> b[x]]
                 /\ \A i \in 1 .. k : Same(i) => b[name(i)] = o[name(i)]
    BY <1>7
  <2>2. PICK p, val, a : p = prop(k + 1) /\ val = o[p.name] /\ a = at[k]
    OBVIOUS
  <2>3. a \in Nat /\ at[k + 1] = a + 3 + Width(p) /\ RecordAt(units, a, p, val) /\ Len(units) \in Nat
    BY <1>3, <2>2 DEF Records
  <2>4. CanRead(w, p)
    BY <1>1, <2>0, <2>2
  <2>5. PICK c : Turn(w, units, a, p, val, b, c)
    BY <2>1, <2>3, <2>4, OneIsRead
  <2>6. f[k + 1] = Reader(at[k + 1], c, FALSE)
    BY <1>5, <2>1, <2>2, <2>3, <2>5 DEF ReadTurns, Turn
  <2>7. ASSUME NEW i \in 1 .. k + 1, Same(i) PROVE c[name(i)] = o[name(i)]
    <3>1. CASE i = k + 1
      BY <2>2, <2>5, <2>7, <3>1 DEF Turn
    <3>2. CASE i # k + 1
      <4>1. i \in 1 .. k /\ i \in 1 .. n
        BY <3>2
      <4>2. name(i) # p.name
        BY <1>1, <2>0, <2>2, <3>2, <4>1, SavingAssumption
      <4>3. name(i) \in Saving!Names(w)
        BY <1>1, <4>1 DEF CanRead
      <4>4. b[name(i)] = o[name(i)]
        BY <2>1, <2>7, <4>1
      <4> QED  BY <2>5, <4>2, <4>3, <4>4 DEF Turn
    <3> QED  BY <3>1, <3>2
  <2> HIDE DEF Same, name, prop
  <2> QED  BY <2>5, <2>6, <2>7 DEF Turn
<1>8. \A k \in 0 .. n : Good(k)
  <2> DEFINE T == {k \in 0 .. n : ~Good(k)}
  <2> HIDE DEF Good
  <2> SUFFICES ASSUME T # {} PROVE FALSE
    OBVIOUS
  <2>1. PICK m \in T : \A k \in T : m <= k
    <3> HIDE DEF T
    <3>1. T \in SUBSET Nat
      BY DEF T
    <3> QED  BY <3>1, LeastNumber
  <2>2. m \in 0 .. n /\ ~Good(m)
    BY <2>1
  <2>3. m # 0
    BY <1>6, <2>2
  <2>4. PICK k \in 0 .. n - 1 : m = k + 1
    BY <2>2, <2>3
  <2>5. k \notin T
    BY <2>1, <2>4
  <2>6. Good(k)
    BY <2>4, <2>5
  <2> QED  BY <1>7, <2>2, <2>4, <2>6
<1>9. PICK b : f[n] = Reader(at[n], b, FALSE) /\ \A i \in 1 .. n : Same(i) => b[name(i)] = o[name(i)]
  <2>1. Good(n)
    <3> HIDE DEF Good
    <3>1. n \in 0 .. n
      BY SMT
    <3> QED  BY <1>8, <3>1
  <2> HIDE DEF Same, name
  <2> QED  BY <2>1, Zenon
<1>10. PICK s : s = Saving!Deserialized(w, Saving!Serialized(v, o))
  OBVIOUS
<1>11. s.fault = FALSE /\ s.obj = b
  <2>1. s = Reader(at[n], b, FALSE)
    BY <1>2, <1>5, <1>9, <1>10 DEF ReadTurns
  <2> QED  BY <2>1 DEF Reader
<1> QED
  BY <1>1, <1>9, <1>10, <1>11

\* The file is what a version wrote, and the object what another made of it.
SavingInv ==
  /\ version \in DOMAIN ClassVersions /\ file.from \in DOMAIN ClassVersions
  /\ file.units # <<>> => file.units = Saving!Serialized(file.from, saved)
  /\ loaded # Saving!NotLoaded => file.units # <<>> /\ loaded = Saving!Deserialized(version, file.units)

\* Nothing is saved at the start.
LEMMA SavingStarts == Saving!Init => SavingInv
<1>1. 1 \in DOMAIN ClassVersions
  BY SavingAssumption
<1> QED
  BY <1>1 DEF Saving!Init, SavingInv

\* Writing, reading and building a new version.
LEMMA SavingSteps == ASSUME SavingInv, [Saving!Next]_(Saving!vars) PROVE SavingInv'
<1> USE DEF SavingInv
<1>1. ASSUME NEW n, NEW val, Saving!SetProperty(n, val) PROVE SavingInv'
  BY <1>1 DEF Saving!SetProperty
<1>2. CASE Saving!Save
  BY <1>2 DEF Saving!Save
<1>3. CASE Saving!NextVersion
  <2>1. version' \in DOMAIN ClassVersions /\ loaded' = Saving!NotLoaded /\ UNCHANGED <<file, saved>>
    BY <1>3, SavingAssumption DEF Saving!NextVersion
  <2> QED  BY <2>1
<1>4. CASE Saving!Load
  BY <1>4 DEF Saving!Load
<1>5. CASE UNCHANGED Saving!vars
  BY <1>5 DEF Saving!vars
<1> QED
  BY <1>1, <1>2, <1>3, <1>4, <1>5 DEF Saving!Next

\* gs_core_obj_deserialize restores what gs_core_obj_serialize wrote, for any two
\* versions of a class with any properties, types and sizes: every property that
\* is as it was has its value again, as long as the reader knows all names of the
\* file and what it skips has the size its header gives.
THEOREM LoadsWhatWasSavedHolds == Saving!Spec => []LoadsWhatWasSaved
<1>1. SavingInv => LoadsWhatWasSaved
  <2> SUFFICES ASSUME SavingInv, loaded # Saving!NotLoaded, Saving!Skippable PROVE Saving!Restored
    BY DEF LoadsWhatWasSaved, Saving!LoadsWhatWasSaved
  <2>1. PICK v \in DOMAIN ClassVersions, w \in DOMAIN ClassVersions : v = file.from /\ w = version
    BY DEF SavingInv
  <2>2. loaded = Saving!Deserialized(w, Saving!Serialized(v, saved))
    BY <2>1 DEF SavingInv
  <2>3. \A i \in DOMAIN ClassVersions[v] : CanRead(w, ClassVersions[v][i])
    BY <2>1 DEF Saving!Skippable, CanRead, Saving!ToSet
  <2>4. /\ loaded.fault = FALSE
        /\ \A i \in DOMAIN ClassVersions[v] :
             /\ Saving!Property(w, ClassVersions[v][i].name) = ClassVersions[v][i]
             /\ ClassVersions[v][i].type \in DOMAIN Scalars
             => loaded.obj[ClassVersions[v][i].name] = saved[ClassVersions[v][i].name]
    BY <2>2, <2>3, LoadedIsSaved
  <2>5. ASSUME NEW n \in Saving!Names(v), Saving!Property(w, n) = Saving!Property(v, n),
               Saving!Property(w, n).type \in DOMAIN Scalars
        PROVE  loaded.obj[n] = saved[n]
    <3>1. PICK i \in DOMAIN ClassVersions[v] : n = ClassVersions[v][i].name
      BY DEF Saving!Names
    <3>2. Saving!Property(v, n) = ClassVersions[v][i]
      BY <3>1, NameFindsProperty
    <3> QED  BY <2>4, <2>5, <3>1, <3>2
  <2> QED  BY <2>1, <2>4, <2>5 DEF Saving!Restored
<1>2. Saving!Init => SavingInv
  BY SavingStarts
<1>3. SavingInv /\ [Saving!Next]_(Saving!vars) => SavingInv'
  BY SavingSteps
<1> QED
  BY <1>1, <1>2, <1>3, PTL DEF Saving!Spec
-----------------------------------------------------------------------------
(* The vtables the generator writes. *)

\* A set of subsets of a finite set has a smallest one.
LEMMA SmallestSet ==
  ASSUME NEW S, IsFiniteSet(S), NEW T \in SUBSET (SUBSET S), T # {}
  PROVE  \E s \in T : \A r \in T : r \subseteq s => r = s
<1>1. FiniteSubsetsOf(S) = SUBSET S
  BY FS_FiniteSubsetsOfFinite
<1>2. PICK s \in T : \A r \in T : <<r, s>> \notin StrictSubsetOrdering(S)
  BY <1>1, FS_StrictSubsetOrderingWellFounded, WFMin
<1>3. \A r \in T : r \subseteq s => r = s
  BY <1>2 DEF StrictSubsetOrdering
<1> QED
  BY <1>3

Classes == DOMAIN ClassTable

\* The classes, and the name above the root, which none of them has.
Names == Classes \cup {ClassTable[Root].base}

Base(c) == ClassTable[c].base

\* What a class adds to what its base has: to a line of descent itself, and to
\* a vtable its slots.
Adds(kind, c, above) ==
  IF kind = "line" THEN <<c>> \o above ELSE Tool!Over([s \in Tool!SlotsOf(c) |-> c], above)

\* Every class of a set adds to what its base has.
Chain(kind, K, f) ==
  f = [c \in Names |-> IF c \in K THEN Adds(kind, c, f[Base(c)]) ELSE <<>>]

\* Lines of descent, and vtables, as the operators of Reflection compute them.
LineChain(K, f)   == f = [d \in Names |-> IF d \in K THEN <<d>> \o f[Base(d)] ELSE <<>>]
VtableChain(f) ==
  f = [d \in Names |-> IF d \in Classes THEN Tool!Over([s \in Tool!SlotsOf(d) |-> d], f[Base(d)]) ELSE <<>>]

\* There is such a function for every set of classes: a smallest set without one
\* has a class from which no other in it derives.
LEMMA ChainExists ==
  ASSUME NEW kind, NEW K \in SUBSET Classes
  PROVE  \E f : Chain(kind, K, f)
<1> DEFINE T == {k \in SUBSET Classes : ~\E f : Chain(kind, k, f)}
<1> SUFFICES ASSUME T # {} PROVE FALSE
  OBVIOUS
<1>1. PICK k \in T : \A r \in T : r \subseteq k => r = k
  <2>1. T \in SUBSET (SUBSET Classes) /\ IsFiniteSet(Classes)
    BY GeneratorAssumption DEF Classes
  <2> HIDE DEF T
  <2> QED  BY <2>1, SmallestSet
<1>2. k # {}
  <2>1. Chain(kind, {}, [c \in Names |-> <<>>])
    BY DEF Chain
  <2> QED  BY <1>1, <2>1
<1>3. PICK c \in k : \A d \in k : Base(d) # c
  <2>1. k \in (SUBSET DOMAIN ClassTable) \ {{}}
    BY <1>1, <1>2 DEF Classes
  <2> QED  BY <2>1, GeneratorAssumption DEF Base
<1>4. PICK f : Chain(kind, k \ {c}, f)
  <2>1. k \ {c} \in SUBSET Classes /\ k \ {c} # k
    BY <1>1, <1>3
  <2>2. k \ {c} \notin T
    BY <1>1, <2>1
  <2> QED  BY <2>1, <2>2
<1>5. \A d \in k : d \in Names /\ Base(d) \in Names
  BY <1>1, GeneratorAssumption DEF Names, Classes, Base
<1> DEFINE g == [d \in Names |-> IF d = c THEN Adds(kind, c, f[Base(c)]) ELSE f[d]]
<1>6. \A d \in k : g[Base(d)] = f[Base(d)]
  BY <1>3, <1>5
<1>7. \A d \in Names : f[d] = IF d \in k \ {c} THEN Adds(kind, d, f[Base(d)]) ELSE <<>>
  BY <1>4 DEF Chain
<1>8. ASSUME NEW d \in Names
      PROVE  g[d] = IF d \in k THEN Adds(kind, d, g[Base(d)]) ELSE <<>>
  <2>1. CASE d = c
    BY <1>3, <1>6, <2>1
  <2>2. CASE d # c
    BY <1>6, <1>7, <2>2
  <2> QED  BY <2>1, <2>2
<1>9. Chain(kind, k, g)
  <2> HIDE DEF g
  <2>1. g = [d \in Names |-> g[d]]
    BY DEF g
  <2> QED  BY <1>8, <2>1 DEF Chain
<1> QED
  BY <1>1, <1>9

\* A line of descent is the class, and its base's line.
LEMMA LineUnfolds ==
  ASSUME NEW K \in SUBSET Classes, NEW c \in Names
  PROVE  Tool!Line(K, c) = IF c \in K THEN <<c>> \o Tool!Line(K, Base(c)) ELSE <<>>
<1>1. \E f : LineChain(K, f)
  <2>1. PICK f : Chain("line", K, f)
    BY ChainExists
  <2>2. LineChain(K, f)
    BY <2>1 DEF Chain, LineChain, Adds
  <2> QED  BY <2>2
<1>2. PICK f : f = CHOOSE g : LineChain(K, g)
  OBVIOUS
<1>3. LineChain(K, f)
  BY <1>1, <1>2
<1>4. \A d : Tool!Line(K, d) = f[d]
  BY <1>2 DEF Tool!Line, LineChain, Names, Classes, Base
<1> QED
  BY <1>3, <1>4 DEF LineChain

\* A vtable is the class's slots over those of its base.
LEMMA VtableUnfolds ==
  ASSUME NEW c \in Names
  PROVE  Tool!Vtable(c) = IF c \in Classes THEN Tool!Over([s \in Tool!SlotsOf(c) |-> c], Tool!Vtable(Base(c))) ELSE <<>>
<1>1. \E f : VtableChain(f)
  <2>1. PICK f : Chain("vtable", Classes, f)
    BY ChainExists
  <2>2. VtableChain(f)
    BY <2>1 DEF Chain, VtableChain, Adds
  <2> QED  BY <2>2
<1>2. PICK f : f = CHOOSE g : VtableChain(g)
  OBVIOUS
<1>3. VtableChain(f)
  BY <1>1, <1>2
<1>4. \A d : Tool!Vtable(d) = f[d]
  BY <1>2 DEF Tool!Vtable, VtableChain, Names, Classes, Base
<1> QED
  BY <1>3, <1>4 DEF VtableChain

\* What holds of a class whose base is not among those of a set of classes: a
\* nonempty set has one.
LEMMA TopOf ==
  ASSUME NEW C \in SUBSET Classes, C # {}
  PROVE  \E c \in C : Base(c) \in Names \ C
<1>1. C \in (SUBSET DOMAIN ClassTable) \ {{}}
  BY DEF Classes
<1>2. PICK c \in C : ClassTable[c].base \notin C
  BY <1>1, GeneratorAssumption
<1>3. Base(c) \in Names
  BY GeneratorAssumption DEF Names, Classes, Base
<1> QED
  BY <1>2, <1>3 DEF Base

\* A class in front of a line.
LEMMA InFront ==
  ASSUME NEW K, NEW c \in K, NEW l \in Seq(K)
  PROVE  /\ <<c>> \o l \in Seq(K) /\ Len(<<c>> \o l) = Len(l) + 1 /\ (<<c>> \o l)[1] = c
         /\ \A i \in 1 .. Len(l) : (<<c>> \o l)[i + 1] = l[i]
<1>1. <<c>> \in Seq(K) /\ Len(<<c>>) = 1 /\ <<c>>[1] = c
  OBVIOUS
<1> QED
  BY <1>1

\* A line is one of classes.
LEMMA LineIsOne ==
  ASSUME NEW K \in SUBSET Classes, NEW c \in Names
  PROVE  Tool!Line(K, c) \in Seq(K)
<1> DEFINE C == {d \in K : Tool!Line(K, d) \notin Seq(K)}
<1>1. C = {}
  <2> SUFFICES ASSUME C # {} PROVE FALSE
    OBVIOUS
  <2>1. PICK d \in C : Base(d) \in Names \ C
    <3>1. C \in SUBSET Classes
      OBVIOUS
    <3> HIDE DEF C
    <3> QED  BY <3>1, TopOf
  <2>2. Tool!Line(K, Base(d)) \in Seq(K)
    <3>1. CASE Base(d) \in K
      BY <2>1, <3>1
    <3>2. CASE Base(d) \notin K
      <4>1. Tool!Line(K, Base(d)) = <<>>
        BY <2>1, <3>2, LineUnfolds
      <4> QED  BY <4>1
    <3> QED  BY <3>1, <3>2
  <2>3. d \in Names
    BY <2>1 DEF Names
  <2>4. Tool!Line(K, d) = <<d>> \o Tool!Line(K, Base(d))
    BY <2>1, <2>3, LineUnfolds
  <2> QED  BY <2>1, <2>2, <2>4, InFront
<1>2. CASE c \in K
  BY <1>1, <1>2
<1>3. CASE c \notin K
  <2>1. Tool!Line(K, c) = <<>>
    BY <1>3, LineUnfolds
  <2> QED  BY <2>1
<1> QED
  BY <1>2, <1>3

\* The first class of a line that has a slot.
FirstWith(l, s, i) ==
  i \in 1 .. Len(l) /\ s \in Tool!SlotsOf(l[i]) /\ \A j \in 1 .. i - 1 : s \notin Tool!SlotsOf(l[j])

\* A vtable has the slots of the line, each from the first class that has it.
Inherits(c) ==
  LET l == Tool!Line(Classes, c)
      v == Tool!Vtable(c)
  IN  /\ DOMAIN v = UNION {Tool!SlotsOf(l[i]) : i \in 1 .. Len(l)}
      /\ \A s \in DOMAIN v : \E i \in 1 .. Len(l) : FirstWith(l, s, i) /\ v[s] = l[i]

\* What one class adds.
LEMMA OneInherits ==
  ASSUME NEW c \in Classes, Inherits(Base(c)), Base(c) \in Names
  PROVE  Inherits(c)
<1>1. PICK l, m, v, w : /\ l = Tool!Line(Classes, c) /\ m = Tool!Line(Classes, Base(c))
                        /\ v = Tool!Vtable(c) /\ w = Tool!Vtable(Base(c))
  OBVIOUS
<1>2. /\ l = <<c>> \o m /\ m \in Seq(Classes)
      /\ v = Tool!Over([s \in Tool!SlotsOf(c) |-> c], w)
  BY <1>1, LineUnfolds, VtableUnfolds, LineIsOne DEF Names
<1>3. /\ l \in Seq(Classes) /\ Len(l) = Len(m) + 1 /\ l[1] = c
      /\ \A i \in 1 .. Len(m) : l[i + 1] = m[i]
  BY <1>2, InFront
<1>4. PICK n \in Nat : n = Len(m)
  BY <1>2
<1>5. /\ DOMAIN w = UNION {Tool!SlotsOf(m[i]) : i \in 1 .. n}
      /\ \A s \in DOMAIN w : \E i \in 1 .. n : FirstWith(m, s, i) /\ w[s] = m[i]
  BY <1>1, <1>4 DEF Inherits
<1>6. /\ DOMAIN v = Tool!SlotsOf(c) \cup DOMAIN w
      /\ \A s \in Tool!SlotsOf(c) : v[s] = c
      /\ \A s \in DOMAIN w \ Tool!SlotsOf(c) : v[s] = w[s]
  BY <1>2 DEF Tool!Over
<1>7. Len(l) = n + 1 /\ \A i \in 1 .. n : i + 1 \in 1 .. n + 1 /\ l[i + 1] = m[i]
  BY <1>3, <1>4
<1>8. \A j \in 2 .. n + 1 : j - 1 \in 1 .. n /\ l[j] = m[j - 1]
  <2> SUFFICES ASSUME NEW j \in 2 .. n + 1 PROVE j - 1 \in 1 .. n /\ l[j] = m[j - 1]
    OBVIOUS
  <2>1. PICK i \in 1 .. n : i = j - 1
    OBVIOUS
  <2>2. i + 1 = j
    BY <2>1
  <2> QED  BY <1>7, <2>1, <2>2
<1>9. DOMAIN v = UNION {Tool!SlotsOf(l[i]) : i \in 1 .. n + 1}
  <2>1. ASSUME NEW s \in DOMAIN v PROVE \E i \in 1 .. n + 1 : s \in Tool!SlotsOf(l[i])
    <3>1. CASE s \in Tool!SlotsOf(c)
      <4>1. 1 \in 1 .. n + 1
        OBVIOUS
      <4> QED  BY <1>3, <3>1, <4>1
    <3>2. CASE s \notin Tool!SlotsOf(c)
      <4>1. PICK i \in 1 .. n : s \in Tool!SlotsOf(m[i])
        BY <1>5, <1>6, <3>2
      <4> QED  BY <1>7, <4>1
    <3> QED  BY <3>1, <3>2
  <2>2. ASSUME NEW i \in 1 .. n + 1, NEW s \in Tool!SlotsOf(l[i]) PROVE s \in DOMAIN v
    <3>1. CASE i = 1
      BY <1>3, <1>6, <3>1
    <3>2. CASE i # 1
      <4>1. i \in 2 .. n + 1
        BY <3>2
      <4>2. PICK j \in 1 .. n : l[i] = m[j]
        BY <1>8, <4>1
      <4> QED  BY <1>5, <1>6, <4>2
    <3> QED  BY <3>1, <3>2
  <2> QED  BY <2>1, <2>2
<1>10. ASSUME NEW s \in DOMAIN v
       PROVE  \E i \in 1 .. n + 1 : FirstWith(l, s, i) /\ v[s] = l[i]
  <2>1. CASE s \in Tool!SlotsOf(c)
    <3>1. 1 \in 1 .. n + 1 /\ 1 .. 1 - 1 = {}
      OBVIOUS
    <3>2. FirstWith(l, s, 1)
      BY <1>3, <1>7, <2>1, <3>1 DEF FirstWith
    <3> QED  BY <1>3, <1>6, <2>1, <3>1, <3>2
  <2>2. CASE s \notin Tool!SlotsOf(c)
    <3>1. s \in DOMAIN w /\ v[s] = w[s]
      BY <1>6, <2>2
    <3>2. PICK i \in 1 .. n : FirstWith(m, s, i) /\ w[s] = m[i]
      BY <1>5, <3>1
    <3>3. ASSUME NEW j \in 1 .. i + 1 - 1 PROVE s \notin Tool!SlotsOf(l[j])
      <4>1. CASE j = 1
        BY <1>3, <2>2, <4>1
      <4>2. CASE j # 1
        <5>1. j \in 2 .. n + 1 /\ j - 1 \in 1 .. i - 1
          BY <4>2
        <5> QED  BY <1>8, <3>2, <5>1 DEF FirstWith
      <4> QED  BY <4>1, <4>2
    <3>4. FirstWith(l, s, i + 1)
      BY <1>7, <3>2, <3>3 DEF FirstWith
    <3> QED  BY <1>7, <3>1, <3>2, <3>4
  <2> QED  BY <2>1, <2>2
<1>11. /\ DOMAIN v = UNION {Tool!SlotsOf(l[i]) : i \in 1 .. Len(l)}
       /\ \A s \in DOMAIN v : \E i \in 1 .. Len(l) : FirstWith(l, s, i) /\ v[s] = l[i]
  <2>1. Len(l) = n + 1
    BY <1>7
  <2> QED  BY <1>9, <1>10, <2>1
<1> QED
  BY <1>1, <1>11 DEF Inherits

\* Every class's vtable does.
LEMMA AllInherit == \A c \in Classes : Inherits(c)
<1> DEFINE C == {c \in Classes : ~Inherits(c)}
<1> SUFFICES ASSUME C # {} PROVE FALSE
  OBVIOUS
<1>1. PICK c \in C : Base(c) \in Names \ C
  <2>1. C \in SUBSET Classes
    OBVIOUS
  <2> HIDE DEF C
  <2> QED  BY <2>1, TopOf
<1>2. Inherits(Base(c))
  <2>1. CASE Base(c) \in Classes
    BY <1>1, <2>1
  <2>2. CASE Base(c) \notin Classes
    <3>1. Tool!Line(Classes, Base(c)) = <<>> /\ Tool!Vtable(Base(c)) = <<>>
      BY <1>1, <2>2, LineUnfolds, VtableUnfolds
    <3>2. DOMAIN <<>> = {} /\ Len(<<>>) = 0 /\ 1 .. 0 = {}
      OBVIOUS
    <3> QED  BY <3>1, <3>2 DEF Inherits
  <2> QED  BY <2>1, <2>2
<1> QED
  BY <1>1, <1>2, OneInherits

\* The least and the greatest element of a set of numbers.
LEMMA LeastIs ==
  ASSUME NEW I \in SUBSET Nat, NEW i \in I, \A j \in I : i <= j
  PROVE  Tool!Min(I) = i
<1>1. \A x \in I : (\A y \in I : x <= y) => x = i
  OBVIOUS
<1> QED
  BY <1>1 DEF Tool!Min

LEMMA GreatestIs ==
  ASSUME NEW n \in Nat, NEW I \in SUBSET (1 .. n), I # {}
  PROVE  Tool!Max(I) \in I /\ \A j \in I : j <= Tool!Max(I)
<1> DEFINE J == {k \in 0 .. n : \A i \in I : i <= n - k}
           T == {m \in Nat : \A i \in I : i <= m}
<1>1. n \in T
  OBVIOUS
<1>2. PICK m \in T : \A k \in T : m <= k
  <2>1. T \in SUBSET Nat
    OBVIOUS
  <2> HIDE DEF T
  <2> QED  BY <1>1, <2>1, LeastNumber
<1>3. m \in I
  <2> SUFFICES ASSUME m \notin I PROVE FALSE
    OBVIOUS
  <2>1. PICK i : i \in I
    OBVIOUS
  <2>2. i < m /\ i \in Nat
    BY <1>2, <2>1
  <2>3. m - 1 \in T
    BY <1>2, <2>2
  <2> QED  BY <1>2, <2>3
<1>4. \A i \in I : i <= m
  BY <1>2
<1>5. \A x \in I : (\A y \in I : x >= y) => x = m
  BY <1>3, <1>4
<1>6. \A y \in I : m >= y
  BY <1>4, <1>3
<1> QED
  BY <1>3, <1>4, <1>5, <1>6 DEF Tool!Max

\* Where a line is searched for the first, and for the last, class that has a slot.
FirstIndex(l, s) == Tool!SelectInSeq(l, LAMBDA d : s \in Tool!SlotsOf(d))
LastIndex(l, s)  == Tool!SelectLastInSeq(l, LAMBDA d : s \in Tool!SlotsOf(d))

\* The search for the first class that has a slot finds it.
LEMMA FirstIsFound ==
  ASSUME NEW l \in Seq(Classes), NEW s, NEW i \in 1 .. Len(l), FirstWith(l, s, i)
  PROVE  FirstIndex(l, s) = i
<1> DEFINE I == {j \in 1 .. Len(l) : s \in Tool!SlotsOf(l[j])}
<1>1. PICK n \in Nat : n = Len(l)
  OBVIOUS
<1>2. i \in I /\ I \in SUBSET Nat
  BY DEF FirstWith
<1>3. \A j \in I : i <= j
  <2> SUFFICES ASSUME NEW j \in 1 .. n, j < i, s \in Tool!SlotsOf(l[j]) PROVE FALSE
    BY <1>1
  <2>1. j \in 1 .. i - 1
    BY <1>1
  <2> QED  BY <2>1 DEF FirstWith
<1>4. Tool!Min(I) = i /\ I # {}
  <2> HIDE DEF I
  <2> QED  BY <1>2, <1>3, LeastIs
<1> QED
  BY <1>4 DEF FirstIndex, Tool!SelectInSeq

\* Where a vtable's slot is looked up.
LEMMA SlotIsOwned ==
  ASSUME NEW c \in Classes
  PROVE  LET line == Tool!Line(Classes, c)
         IN  /\ DOMAIN Tool!Vtable(c) = UNION {Tool!SlotsOf(d) : d \in Tool!ToSet(line)}
             /\ \A s \in DOMAIN Tool!Vtable(c) : Tool!Vtable(c)[s] = line[FirstIndex(line, s)]
<1> DEFINE l == Tool!Line(Classes, c)
           v == Tool!Vtable(c)
<1>1. Inherits(c) /\ l \in Seq(Classes)
  BY AllInherit, LineIsOne DEF Names
<1>2. DOMAIN v = UNION {Tool!SlotsOf(d) : d \in Tool!ToSet(l)}
  <2>1. Tool!ToSet(l) = {l[i] : i \in 1 .. Len(l)}
    BY <1>1 DEF Tool!ToSet
  <2>2. DOMAIN v = UNION {Tool!SlotsOf(l[i]) : i \in 1 .. Len(l)}
    BY <1>1 DEF Inherits
  <2> HIDE DEF l, v
  <2> QED  BY <2>1, <2>2
<1>3. ASSUME NEW s \in DOMAIN v
      PROVE  v[s] = l[FirstIndex(l, s)]
  <2>1. PICK i \in 1 .. Len(l) : FirstWith(l, s, i) /\ v[s] = l[i]
    BY <1>1 DEF Inherits
  <2> HIDE DEF l, v
  <2>2. FirstIndex(l, s) = i
    BY <1>1, <2>1, FirstIsFound
  <2> QED  BY <2>1, <2>2
<1> QED
  BY <1>2, <1>3

\* An index after another.
LEMMA After ==
  ASSUME NEW n \in Nat, NEW m \in 1 .. n
  PROVE  m # 0 /\ \A j \in m + 1 .. n : j \in 1 .. n /\ ~(j <= m)
OBVIOUS

\* Of an override the signature is that of the class that declares it, in a run
\* that has read all its files, if the slot is not one that every vtable has.
LEMMA SignatureDeclares ==
  ASSUME NEW l \in Tool!Listings, NEW r \in Tool!ToSet(RunNames),
         DOMAIN classes = Known(l, r), Known(l, r) \subseteq Classes,
         NEW c \in Known(l, r), NEW s, s \notin CoreSlots, Tool!Signature(c, s) # ""
  PROVE  s \in ClassTable[Tool!Signature(c, s)].declares
<1>1. PICK b, K : b = Tool!Bases(c) /\ K = Known(l, r)
  OBVIOUS
<1>2. b = Tool!Line(K, Base(c))
  BY <1>1 DEF Tool!Bases, Base
<1>3. b \in Seq(K)
  <2>1. Base(c) \in Names
    BY GeneratorAssumption DEF Names, Classes, Base
  <2> QED  BY <1>1, <1>2, <2>1, LineIsOne
<1>4. PICK n \in Nat : n = Len(b) /\ DOMAIN b = 1 .. n
  BY <1>3, LenProperties
<1>5. \A i \in 1 .. n : \A x \in ClassTable[b[i]].overrides \ CoreSlots :
        \E j \in i + 1 .. n : x \in ClassTable[b[j]].declares
  <2>1. LET above == Tool!Line(Known(l, r), ClassTable[c].base)
        IN  \A i \in DOMAIN above : \A x \in ClassTable[above[i]].overrides \ CoreSlots :
              \E j \in i + 1 .. Len(above) : x \in ClassTable[above[j]].declares
    BY GeneratorAssumption
  <2>2. \A i \in DOMAIN b : \A x \in ClassTable[b[i]].overrides \ CoreSlots :
              \E j \in i + 1 .. Len(b) : x \in ClassTable[b[j]].declares
    BY <1>1, <1>2, <2>1 DEF Base
  <2> QED  BY <1>4, <2>2
<1> DEFINE I == {i \in 1 .. n : s \in Tool!SlotsOf(b[i])}
<1>6. LastIndex(b, s) = IF I # {} THEN Tool!Max(I) ELSE 0
  BY <1>4 DEF LastIndex, Tool!SelectLastInSeq
<1>7. Tool!Signature(c, s) = IF LastIndex(b, s) = 0 THEN "" ELSE b[LastIndex(b, s)]
  BY <1>1 DEF Tool!Signature, LastIndex
<1>8. I # {}
  <2> HIDE DEF I
  <2> QED  BY <1>6, <1>7
<1>9. PICK m \in 1 .. n : m \in I /\ Tool!Max(I) = m /\ \A j \in I : j <= m
  <2>1. I \in SUBSET (1 .. n)
    OBVIOUS
  <2> HIDE DEF I
  <2> QED  BY <1>8, <2>1, GreatestIs
<1>10. Tool!Signature(c, s) = b[m]
  <2>1. m # 0
    BY <1>4, <1>9, After
  <2> HIDE DEF I
  <2> QED  BY <1>6, <1>7, <1>8, <1>9, <2>1
<1>11. s \in ClassTable[b[m]].declares
  <2> SUFFICES ASSUME s \notin ClassTable[b[m]].declares PROVE FALSE
    OBVIOUS
  <2>1. m \in 1 .. n /\ s \in ClassTable[b[m]].overrides
    BY <1>9 DEF Tool!SlotsOf
  <2>2. PICK j \in m + 1 .. n : s \in ClassTable[b[j]].declares
    BY <1>5, <2>1
  <2>3. j \in 1 .. n /\ ~(j <= m)
    BY <1>4, <2>1, <2>2, After
  <2>4. j \in I
    BY <2>2, <2>3 DEF Tool!SlotsOf
  <2> HIDE DEF I
  <2> QED  BY <1>9, <2>3, <2>4
<1> QED
  BY <1>10, <1>11

\* Two lines, n others and a last one.
LEMMA Framed ==
  ASSUME NEW a, NEW b, NEW z, NEW n \in Nat, NEW f, f = [i \in 1 .. n |-> f[i]],
         NEW t, t = <<a, b>> \o f \o <<z>>
  PROVE  /\ DOMAIN t = 1 .. n + 3 /\ Len(t) = n + 3
         /\ t[1] = a /\ t[2] = b /\ t[n + 3] = z
         /\ \A i \in 1 .. n : t[i + 2] = f[i]
<1> DEFINE S == {a, b, z} \cup {f[i] : i \in 1 .. n}
<1>1. f \in Seq(S) /\ Len(f) = n
  <2>1. f \in [1 .. n -> S]
    OBVIOUS
  <2> HIDE DEF S
  <2> QED  BY <2>1
<1>2. <<a, b>> \in Seq(S) /\ <<z>> \in Seq(S)
  OBVIOUS
<1> HIDE DEF S
<1>3. PICK u : u = <<a, b>> \o f
  OBVIOUS
<1>4. /\ u \in Seq(S) /\ Len(u) = n + 2 /\ u[1] = a /\ u[2] = b
      /\ \A i \in 1 .. n : u[i + 2] = f[i]
  BY <1>1, <1>2, <1>3
<1>5. t = u \o <<z>> /\ t \in Seq(S) /\ Len(t) = n + 3
  BY <1>2, <1>3, <1>4
<1>6. \A i \in 1 .. n + 2 : t[i] = u[i]
  BY <1>2, <1>4, <1>5
<1>7. t[n + 3] = z
  BY <1>2, <1>4, <1>5
<1>8. \A i \in 1 .. n : t[i + 2] = u[i + 2]
  <2>1. \A i \in 1 .. n : i + 2 \in 1 .. n + 2
    OBVIOUS
  <2> QED  BY <1>6, <2>1
<1> QED
  BY <1>4, <1>5, <1>6, <1>7, <1>8

\* A macro has its class's declared slots, whatever lines end in a backslash.
MacroFits(lines, c) ==
  LET end   == CHOOSE i \in DOMAIN lines : ~lines[i].more /\ \A j \in 1 .. i - 1 : lines[j].more
      texts == {lines[i].text : i \in 1 .. end} \ {""}
  IN  /\ texts = ClassTable[c].declares \cup {IF c = Root THEN "base" ELSE Base(c)}
      /\ \A i \in end + 1 .. Len(lines) : lines[i].text = ""

\* A line's text, and that it is continued.
Text(lines, i) == lines[i].text
More(lines, i) == lines[i].more

\* Up to line e there is what belongs into the macro, and nothing after it.
EndFits(lines, c, m, e) ==
  /\ DOMAIN lines = 1 .. m /\ Len(lines) = m
  /\ e \in 1 .. m /\ ~More(lines, e) /\ \A j \in 1 .. e - 1 : More(lines, j)
  /\ {Text(lines, i) : i \in 1 .. e} \ {""}
       = ClassTable[c].declares \cup {IF c = Root THEN "base" ELSE Base(c)}
  /\ \A i \in e + 1 .. m : Text(lines, i) = ""

\* The line at which it ends is the first that is not continued.
LEMMA EndsAt ==
  ASSUME NEW lines, NEW c, NEW m \in Nat, NEW e, EndFits(lines, c, m, e)
  PROVE  MacroFits(lines, c)
<1> DEFINE end == CHOOSE i \in DOMAIN lines : ~More(lines, i) /\ \A j \in 1 .. i - 1 : More(lines, j)
<1>0. e \in 1 .. m /\ ~More(lines, e) /\ \A j \in 1 .. e - 1 : More(lines, j)
  BY DEF EndFits
<1>1. end \in 1 .. m /\ ~More(lines, end) /\ \A j \in 1 .. end - 1 : More(lines, j)
  BY DEF EndFits
<1>2. PICK k \in 1 .. m : k = end
  BY <1>1
<1>3. ~More(lines, k) /\ \A j \in 1 .. k - 1 : More(lines, j)
  BY <1>1, <1>2
<1> HIDE DEF end
<1>4. ~(k < e)
  <2> SUFFICES ASSUME k < e PROVE FALSE
    OBVIOUS
  <2>1. k \in 1 .. e - 1
    BY <1>0, <1>2
  <2> QED  BY <1>0, <1>3, <2>1
<1>5. ~(e < k)
  <2> SUFFICES ASSUME e < k PROVE FALSE
    OBVIOUS
  <2>1. e \in 1 .. k - 1
    BY <1>0, <1>2
  <2> QED  BY <1>0, <1>3, <2>1
<1>6. end = e
  <2>1. k = e
    BY <1>0, <1>2, <1>4, <1>5
  <2> QED  BY <1>2, <2>1
<1>7. MacroFits(lines, c) =
        (/\ {Text(lines, i) : i \in 1 .. end} \ {""}
              = ClassTable[c].declares \cup {IF c = Root THEN "base" ELSE Base(c)}
         /\ \A i \in end + 1 .. Len(lines) : Text(lines, i) = "")
  BY DEF MacroFits, end, Text, More
<1> QED
  BY <1>6, <1>7 DEF EndFits

\* The declared slots among the first i of a table of methods.
Declared(M, D, i) == {j \in 1 .. i : M[j] \in D}

\* The macro of a class with the table of methods M, of which it declares those in D.
LinesFit(t, c, M, D, n) ==
  /\ DOMAIN t = 1 .. n + 3 /\ Len(t) = n + 3
  /\ Text(t, 1) = "" /\ More(t, 1)
  /\ Text(t, 2) = (IF c = Root THEN "base" ELSE Base(c))
  /\ (More(t, 2) <=> c = Root \/ Tool!Cardinality(D) > 0)
  /\ Text(t, n + 3) = "" /\ ~More(t, n + 3)
  /\ \A i \in 1 .. n :
       /\ Text(t, i + 2) = (IF M[i] \in D THEN M[i] ELSE "")
       /\ (More(t, i + 2) <=> Tool!Cardinality(D) = 0
                                \/ Tool!Cardinality(Declared(M, D, i)) <= Tool!Cardinality(D) - 1)

\* What MacroLines writes.
LEMMA LinesAre ==
  ASSUME NEW c \in Classes, NEW n \in Nat, DOMAIN Tool!Methods(c) = 1 .. n
  PROVE  LinesFit(Tool!MacroLines(c), c, Tool!Methods(c), ClassTable[c].declares, n)
<1>0. PICK t, M, D : t = Tool!MacroLines(c) /\ M = Tool!Methods(c) /\ D = ClassTable[c].declares
  OBVIOUS
<1>1. PICK f : f = [i \in 1 .. n |->
                      [text |-> IF M[i] \in D THEN M[i] ELSE "",
                       more |-> Tool!Cardinality(D) = 0
                                  \/ Tool!Cardinality(Declared(M, D, i)) <= Tool!Cardinality(D) - 1]]
  OBVIOUS
<1>2. PICK a, b, z : /\ a = [text |-> "", more |-> TRUE] /\ z = [text |-> "", more |-> FALSE]
                     /\ b = [text |-> IF c = Root THEN "base" ELSE Base(c),
                             more |-> c = Root \/ Tool!Cardinality(D) > 0]
  OBVIOUS
<1>3. t = <<a, b>> \o f \o <<z>>
  BY <1>0, <1>1, <1>2 DEF Tool!MacroLines, Declared, Base
<1>4. f = [i \in 1 .. n |-> f[i]]
  BY <1>1
<1>5. /\ DOMAIN t = 1 .. n + 3 /\ Len(t) = n + 3
      /\ t[1] = a /\ t[2] = b /\ t[n + 3] = z
      /\ \A i \in 1 .. n : t[i + 2] = f[i]
  BY <1>3, <1>4, Framed
<1>6. \A i \in 1 .. n :
        /\ f[i].text = (IF M[i] \in D THEN M[i] ELSE "")
        /\ (f[i].more <=> Tool!Cardinality(D) = 0
                            \/ Tool!Cardinality(Declared(M, D, i)) <= Tool!Cardinality(D) - 1)
  BY <1>1
<1>7. \A i \in 1 .. n :
        /\ Text(t, i + 2) = (IF M[i] \in D THEN M[i] ELSE "")
        /\ (More(t, i + 2) <=> Tool!Cardinality(D) = 0
                                 \/ Tool!Cardinality(Declared(M, D, i)) <= Tool!Cardinality(D) - 1)
  <2>1. \A i \in 1 .. n : t[i + 2].text = f[i].text /\ t[i + 2].more = f[i].more
    BY <1>5
  <2> QED  BY <1>6, <2>1 DEF Text, More
<1>8. /\ Text(t, 1) = "" /\ More(t, 1)
      /\ Text(t, 2) = (IF c = Root THEN "base" ELSE Base(c))
      /\ (More(t, 2) <=> c = Root \/ Tool!Cardinality(D) > 0)
      /\ Text(t, n + 3) = "" /\ ~More(t, n + 3)
  <2>1. a.text = "" /\ a.more /\ z.text = "" /\ ~z.more
    BY <1>2
  <2>2. /\ b.text = (IF c = Root THEN "base" ELSE Base(c))
        /\ (b.more <=> c = Root \/ Tool!Cardinality(D) > 0)
    BY <1>2
  <2>3. Text(t, 1) = a.text /\ Text(t, 2) = b.text /\ Text(t, n + 3) = z.text
    BY <1>5 DEF Text
  <2>4. More(t, 1) = a.more /\ More(t, 2) = b.more /\ More(t, n + 3) = z.more
    BY <1>5 DEF More
  <2> QED  BY <2>1, <2>2, <2>3, <2>4
<1> QED
  BY <1>0, <1>5, <1>7, <1>8 DEF LinesFit

\* As many declared slots as there are have been met when all of them have.
LEMMA AllMet ==
  ASSUME NEW D, IsFiniteSet(D), NEW n \in Nat, NEW M, NEW i \in 1 .. n,
         \A j, k \in 1 .. n : M[j] = M[k] => j = k,
         D \subseteq {M[j] : j \in 1 .. n}
  PROVE  /\ Tool!Cardinality(D) \in Nat /\ Tool!Cardinality(Declared(M, D, i)) \in Nat
         /\ Tool!Cardinality(Declared(M, D, i)) <= Tool!Cardinality(D)
         /\ Tool!Cardinality(Declared(M, D, i)) = Tool!Cardinality(D) <=> Declared(M, D, i) = Declared(M, D, n)
         /\ Tool!Cardinality(D) = 0 <=> D = {}
<1>1. \A S : Tool!Cardinality(S) = Cardinality(S)
  BY DEF Tool!Cardinality, Cardinality
<1>2. PICK J, Ji : J = Declared(M, D, n) /\ Ji = Declared(M, D, i)
  OBVIOUS
<1>3. Ji \subseteq J /\ J \subseteq 1 .. n
  BY <1>2 DEF Declared
<1>4. IsFiniteSet(J) /\ IsFiniteSet(Ji)
  <2>1. IsFiniteSet(1 .. n)
    BY FS_Interval
  <2> QED  BY <1>3, <2>1, FS_Subset
<1>5. Cardinality(J) = Cardinality(D)
  <2> DEFINE g == [j \in J |-> M[j]]
  <2>1. g \in Bijection(J, D)
    <3>1. \A j \in J : j \in 1 .. n /\ M[j] \in D
      BY <1>2 DEF Declared
    <3>2. g \in Injection(J, D)
      BY <3>1 DEF Injection, IsInjective
    <3>3. \A x \in D : \E j \in J : g[j] = x
      <4> SUFFICES ASSUME NEW x \in D PROVE \E j \in J : g[j] = x
        OBVIOUS
      <4>1. PICK j \in 1 .. n : M[j] = x
        OBVIOUS
      <4>2. j \in J
        BY <1>2, <4>1 DEF Declared
      <4> QED  BY <4>1, <4>2
    <3> QED  BY <3>2, <3>3 DEF Bijection, Surjection, Injection
  <2> QED  BY <1>4, <2>1, FS_Bijection DEF ExistsBijection
<1>6. /\ Cardinality(D) \in Nat /\ Cardinality(Ji) \in Nat /\ Cardinality(Ji) <= Cardinality(J)
      /\ Cardinality(Ji) = Cardinality(J) => Ji = J
      /\ Cardinality(D) = 0 <=> D = {}
  BY <1>3, <1>4, FS_Subset, FS_CardinalityType, FS_EmptySet
<1> QED
  BY <1>1, <1>2, <1>5, <1>6

\* In whatever order a class's methods are iterated.
LEMMA MacrosFit ==
  ASSUME hashing \in Tool!Hashings, NEW c \in Classes
  PROVE  MacroFits(Tool!MacroLines(c), c)
<1>1. PICK M, D, t : M = Tool!Methods(c) /\ D = ClassTable[c].declares /\ t = Tool!MacroLines(c)
  OBVIOUS
<1>2. /\ IsFiniteSet(Tool!SlotsOf(c)) /\ "" \notin Tool!SlotsOf(c) /\ Base(c) # "" /\ D \subseteq Tool!SlotsOf(c)
  BY <1>1, GeneratorAssumption DEF Classes, Base, Tool!SlotsOf
<1>3. M \in Tool!SetToSeqs(Tool!SlotsOf(c))
  BY <1>1 DEF Tool!Hashings, Tool!Methods, Classes
<1>4. PICK n \in Nat : n = Cardinality(Tool!SlotsOf(c))
  BY <1>2, FS_CardinalityType
<1>5. M \in [1 .. n -> Tool!SlotsOf(c)] /\ \A j, k \in 1 .. n : j # k => M[j] # M[k]
  <2>1. Tool!Cardinality(Tool!SlotsOf(c)) = n
    <3>1. \A S : Tool!Cardinality(S) = Cardinality(S)
      BY DEF Tool!Cardinality, Cardinality
    <3> QED  BY <1>4, <3>1
  <2> QED  BY <1>3, <2>1 DEF Tool!SetToSeqs
<1>6. \A j, k \in 1 .. n : M[j] = M[k] => j = k
  BY <1>5
<1>7. D \subseteq {M[j] : j \in 1 .. n}
  <2>1. Cardinality(1 .. n) = n /\ IsFiniteSet(1 .. n)
    BY FS_Interval
  <2>2. M \in Injection(1 .. n, Tool!SlotsOf(c))
    BY <1>5 DEF Injection, IsInjective
  <2>3. M \in Surjection(1 .. n, Tool!SlotsOf(c))
    BY <1>2, <1>4, <2>1, <2>2, FS_Injection
  <2> QED  BY <1>2, <2>3 DEF Surjection
<1>8. IsFiniteSet(D)
  BY <1>2, FS_Subset
<1>9. PICK noc \in Nat : noc = Tool!Cardinality(D) /\ (noc = 0 <=> D = {})
  <2>1. \A S : Tool!Cardinality(S) = Cardinality(S)
    BY DEF Tool!Cardinality, Cardinality
  <2>2. Cardinality(D) \in Nat /\ (Cardinality(D) = 0 <=> D = {})
    BY <1>8, FS_CardinalityType, FS_EmptySet
  <2> QED  BY <2>1, <2>2
<1>10. LinesFit(t, c, M, D, n)
  <2>1. DOMAIN Tool!Methods(c) = 1 .. n
    BY <1>1, <1>5
  <2> QED  BY <1>1, <1>4, <2>1, LinesAre
<1> DEFINE name == IF c = Root THEN "base" ELSE Base(c)
<1>11. \A i \in 1 .. n : /\ Text(t, i + 2) = (IF M[i] \in D THEN M[i] ELSE "")
                         /\ (More(t, i + 2) <=> D = {} \/ Declared(M, D, i) # Declared(M, D, n))
  <2> SUFFICES ASSUME NEW i \in 1 .. n
               PROVE  /\ Text(t, i + 2) = (IF M[i] \in D THEN M[i] ELSE "")
                      /\ (More(t, i + 2) <=> D = {} \/ Declared(M, D, i) # Declared(M, D, n))
    OBVIOUS
  <2>1. /\ Text(t, i + 2) = (IF M[i] \in D THEN M[i] ELSE "")
        /\ (More(t, i + 2) <=> noc = 0 \/ Tool!Cardinality(Declared(M, D, i)) <= noc - 1)
    BY <1>9, <1>10 DEF LinesFit
  <2>2. PICK ct \in Nat : /\ ct = Tool!Cardinality(Declared(M, D, i)) /\ ct <= noc
                          /\ (ct = noc <=> Declared(M, D, i) = Declared(M, D, n))
    BY <1>4, <1>6, <1>7, <1>8, <1>9, AllMet
  <2>3. ct <= noc - 1 <=> ct # noc
    BY <1>9, <2>2
  <2> QED  BY <1>9, <2>1, <2>2, <2>3
<1>12. name # ""
  BY <1>2
<1>13. PICK m \in Nat : m = n + 3
  BY <1>4
<1>14. /\ DOMAIN t = 1 .. m /\ Len(t) = m /\ Text(t, m) = "" /\ ~More(t, m)
       /\ Text(t, 1) = "" /\ More(t, 1) /\ Text(t, 2) = name
       /\ (More(t, 2) <=> c = Root \/ D # {})
  <2>1. noc > 0 <=> D # {}
    BY <1>9
  <2> QED  BY <1>9, <1>10, <1>13, <2>1 DEF LinesFit
<1>15. ASSUME NEW e \in 1 .. m, ~More(t, e), \A j \in 1 .. e - 1 : More(t, j),
              {Text(t, i) : i \in 1 .. e} \ {""} = D \cup {name},
              \A i \in e + 1 .. m : Text(t, i) = ""
       PROVE  MacroFits(t, c)
  <2>1. EndFits(t, c, m, e)
    BY <1>1, <1>14, <1>15 DEF EndFits, name
  <2> QED  BY <1>13, <2>1, EndsAt
<1> HIDE DEF name
<1>16. \A j \in 3 .. n + 2 : \E i \in 1 .. n : j = i + 2
  <2> SUFFICES ASSUME NEW j \in 3 .. n + 2 PROVE \E i \in 1 .. n : j = i + 2
    OBVIOUS
  <2>1. j - 2 \in 1 .. n /\ j = (j - 2) + 2
    BY <1>4
  <2> QED  BY <2>1
<1>17. \A j \in 1 .. m : j \in {1, 2, m} \/ j \in 3 .. n + 2
  BY <1>4, <1>13
<1>18. CASE D = {}
  <2>1. \A j \in 3 .. n + 2 : More(t, j) /\ Text(t, j) = ""
    BY <1>11, <1>16, <1>18
  <2>2. \A j \in 1 .. m : j # 2 => Text(t, j) = ""
    BY <1>17, <1>14, <2>1
  <2>3. {1, 2, m} \subseteq 1 .. m
    BY <1>4, <1>13
  <2>4. CASE c # Root
    <3>1. 1 .. 2 = {1, 2} /\ 1 .. 2 - 1 = {1} /\ 2 + 1 .. m \subseteq (1 .. m) \ {2}
      BY <1>13
    <3>2. {Text(t, i) : i \in 1 .. 2} = {"", name}
      BY <1>14, <3>1
    <3>3. {Text(t, i) : i \in 1 .. 2} \ {""} = D \cup {name}
      BY <1>12, <1>18, <3>2
    <3>4. ~More(t, 2) /\ \A j \in 1 .. 2 - 1 : More(t, j)
      BY <1>18, <1>14, <2>4, <3>1
    <3>5. \A i \in 2 + 1 .. m : Text(t, i) = ""
      BY <2>2, <3>1
    <3> QED  BY <1>1, <1>15, <2>3, <3>3, <3>4, <3>5
  <2>5. CASE c = Root
    <3>1. \A j \in 1 .. m - 1 : j \in {1, 2} \/ j \in 3 .. n + 2
      BY <1>4, <1>13
    <3>2. \A j \in 1 .. m - 1 : More(t, j)
      BY <1>14, <2>1, <2>5, <3>1
    <3>3. {Text(t, i) : i \in 1 .. m} \ {""} = {name}
      BY <1>12, <1>14, <2>2, <2>3
    <3>4. m + 1 .. m = {}
      BY <1>13
    <3> QED  BY <1>1, <1>18, <1>14, <1>15, <2>3, <3>2, <3>3, <3>4
  <2> QED  BY <2>4, <2>5
<1>19. CASE D # {}
  <2> DEFINE T == {i \in 1 .. n : Declared(M, D, i) = Declared(M, D, n)}
  <2>1. n \in T
    <3>1. PICK x : x \in D
      BY <1>19
    <3>2. n # 0
      BY <1>7, <3>1
    <3> QED  BY <3>2
  <2>2. PICK e \in T : \A i \in T : e <= i
    <3>1. T \in SUBSET Nat
      OBVIOUS
    <3> HIDE DEF T
    <3> QED  BY <2>1, <3>1, LeastNumber
  <2>3. e \in 1 .. n /\ Declared(M, D, e) = Declared(M, D, n)
    BY <2>2
  <2>4. \A j \in 1 .. n : M[j] \in D => j <= e
    <3> SUFFICES ASSUME NEW j \in 1 .. n, M[j] \in D PROVE j <= e
      OBVIOUS
    <3>1. j \in Declared(M, D, e)
      BY <2>3 DEF Declared
    <3> QED  BY <2>3, <3>1 DEF Declared
  <2>5. \A i \in 1 .. n : i < e => Declared(M, D, i) # Declared(M, D, n)
    BY <2>2
  <2>6. ~More(t, e + 2)
    BY <1>11, <1>19, <2>3
  <2>7. \A i \in 1 .. n : i < e => More(t, i + 2)
    BY <1>11, <1>19, <2>5
  <2>8. PICK k \in Nat : k = e + 2
    BY <2>3
  <2>9. \A j \in 1 .. k - 1 : j \in {1, 2} \/ \E i \in 1 .. n : i < e /\ j = i + 2
    <3> SUFFICES ASSUME NEW j \in 1 .. k - 1, j \notin {1, 2} PROVE \E i \in 1 .. n : i < e /\ j = i + 2
      OBVIOUS
    <3>1. j - 2 \in 1 .. n /\ j - 2 < e /\ j = (j - 2) + 2
      BY <1>4, <2>3, <2>8
    <3> QED  BY <3>1
  <2>10. \A j \in 1 .. k - 1 : More(t, j)
    BY <1>19, <1>14, <2>7, <2>9
  <2>11. \A i \in k + 1 .. m : i = m \/ \E j \in 1 .. n : j > e /\ i = j + 2
    <3> SUFFICES ASSUME NEW i \in k + 1 .. m, i # m PROVE \E j \in 1 .. n : j > e /\ i = j + 2
      OBVIOUS
    <3>1. i - 2 \in 1 .. n /\ i - 2 > e /\ i = (i - 2) + 2
      BY <1>4, <1>13, <2>3, <2>8
    <3> QED  BY <3>1
  <2>12. \A j \in 1 .. n : j > e => M[j] \notin D
    BY <1>4, <2>3, <2>4
  <2>13. \A i \in k + 1 .. m : Text(t, i) = ""
    BY <1>11, <1>14, <2>11, <2>12
  <2>14. \A i \in 1 .. k : i \in {1, 2} \/ \E j \in 1 .. n : i = j + 2
    <3> SUFFICES ASSUME NEW i \in 1 .. k, i \notin {1, 2} PROVE \E j \in 1 .. n : i = j + 2
      OBVIOUS
    <3>1. i - 2 \in 1 .. n /\ i = (i - 2) + 2
      BY <1>4, <2>3, <2>8
    <3> QED  BY <3>1
  <2>15. \A i \in 1 .. k : Text(t, i) \in D \cup {"", name}
    BY <1>11, <1>14, <2>14
  <2>16. ASSUME NEW x \in D PROVE \E i \in 1 .. k : Text(t, i) = x
    <3>1. PICK j \in 1 .. n : M[j] = x
      BY <1>7
    <3>2. j <= e
      BY <2>4, <3>1
    <3>3. j + 2 \in 1 .. k
      BY <1>4, <2>3, <2>8, <3>1, <3>2
    <3>4. Text(t, j + 2) = x
      BY <1>11, <3>1
    <3> QED  BY <3>3, <3>4
  <2>17. 2 \in 1 .. k /\ k \in 1 .. m
    BY <1>4, <1>13, <2>3, <2>8
  <2>18. {Text(t, i) : i \in 1 .. k} \ {""} = D \cup {name}
    <3>1. "" \notin D
      BY <1>2
    <3>2. \A x \in D \cup {name} : x # "" /\ \E i \in 1 .. k : Text(t, i) = x
      BY <1>12, <1>14, <2>16, <2>17, <3>1
    <3> QED  BY <2>15, <3>2
  <2>19. ~More(t, k)
    BY <2>6, <2>8
  <2> QED  BY <1>1, <1>15, <2>10, <2>13, <2>17, <2>18, <2>19
<1> QED
  BY <1>18, <1>19

\* One sequence after another, the first k of them.
Flat(q, k, f) == f = [i \in 1 .. k |-> IF i = 1 THEN q[i] ELSE f[i - 1] \o q[i]]

\* What a next one adds.
LEMMA FlatGrows ==
  ASSUME NEW q, NEW k \in Nat, NEW f, Flat(q, k, f)
  PROVE  \E g : Flat(q, k + 1, g)
<1> DEFINE g == [i \in 1 .. k + 1 |-> IF i \in 1 .. k THEN f[i] ELSE IF i = 1 THEN q[i] ELSE f[i - 1] \o q[i]]
<1>1. \A i \in 1 .. k : f[i] = IF i = 1 THEN q[i] ELSE f[i - 1] \o q[i]
  BY DEF Flat
<1>2. ASSUME NEW i \in 1 .. k + 1
      PROVE  g[i] = IF i = 1 THEN q[i] ELSE g[i - 1] \o q[i]
  <2>1. CASE i = 1
    BY <1>1, <2>1
  <2>2. CASE i # 1
    <3>1. i - 1 \in 1 .. k /\ i - 1 \in 1 .. k + 1
      BY <2>2
    <3>2. g[i - 1] = f[i - 1]
      BY <3>1
    <3>3. g[i] = f[i - 1] \o q[i]
      BY <1>1, <2>2
    <3> QED  BY <2>2, <3>2, <3>3
  <2> QED  BY <2>1, <2>2
<1>3. Flat(q, k + 1, g)
  <2>1. g = [i \in 1 .. k + 1 |-> g[i]]
    OBVIOUS
  <2> HIDE DEF g
  <2> QED  BY <1>2, <2>1 DEF Flat
<1> QED
  BY <1>3

\* There is such a function for every number of them.
LEMMA FlatExists ==
  ASSUME NEW q, NEW n \in Nat
  PROVE  \E f : Flat(q, n, f)
<1> DEFINE T == {k \in Nat : ~\E f : Flat(q, k, f)}
<1> SUFFICES ASSUME T # {} PROVE FALSE
  OBVIOUS
<1>1. PICK k \in T : \A j \in T : k <= j
  <2>1. T \in SUBSET Nat
    OBVIOUS
  <2> HIDE DEF T
  <2> QED  BY <2>1, LeastNumber
<1>2. k # 0
  <2>1. Flat(q, 0, [i \in 1 .. 0 |-> <<>>])
    BY DEF Flat
  <2> QED  BY <1>1, <2>1
<1>3. PICK j \in Nat : k = j + 1
  <2>1. k \in Nat /\ k - 1 \in Nat /\ k = (k - 1) + 1
    BY <1>1, <1>2
  <2> QED  BY <2>1
<1>4. j \notin T
  BY <1>1, <1>3
<1>5. PICK f : Flat(q, j, f)
  BY <1>3, <1>4
<1>6. \E g : Flat(q, j + 1, g)
  BY <1>3, <1>5, FlatGrows
<1> QED
  BY <1>1, <1>3, <1>6

\* It is made of sequences of the same elements.
LEMMA FlatTyped ==
  ASSUME NEW S, NEW n \in Nat, NEW q \in [1 .. n -> Seq(S)], NEW f, Flat(q, n, f)
  PROVE  \A i \in 1 .. n : f[i] \in Seq(S)
<1> DEFINE T == {i \in 1 .. n : f[i] \notin Seq(S)}
<1> SUFFICES ASSUME T # {} PROVE FALSE
  OBVIOUS
<1>1. PICK k \in T : \A j \in T : k <= j
  <2>1. T \in SUBSET Nat
    OBVIOUS
  <2> HIDE DEF T
  <2> QED  BY <2>1, LeastNumber
<1>2. \A i \in 1 .. n : f[i] = IF i = 1 THEN q[i] ELSE f[i - 1] \o q[i]
  BY DEF Flat
<1>3. k \in 1 .. n /\ f[k] \notin Seq(S) /\ q[k] \in Seq(S)
  BY <1>1
<1>4. k # 1
  BY <1>2, <1>3
<1>5. k - 1 \in 1 .. n /\ ~(k <= k - 1)
  BY <1>3, <1>4
<1>6. f[k - 1] \in Seq(S)
  BY <1>1, <1>5
<1>7. f[k] = f[k - 1] \o q[k]
  BY <1>2, <1>3, <1>4
<1> QED
  BY <1>3, <1>6, <1>7

\* So is what FlattenSeq makes of them.
LEMMA FlattenTyped ==
  ASSUME NEW S, NEW n \in Nat, NEW q \in [1 .. n -> Seq(S)]
  PROVE  Tool!FlattenSeq(q) \in Seq(S)
<1>1. q \in Seq(Seq(S)) /\ Len(q) = n
  OBVIOUS
<1>2. CASE n = 0
  <2>1. q = <<>>
    BY <1>1, <1>2
  <2>2. Tool!FlattenSeq(q) = q
    BY <1>1, <1>2 DEF Tool!FlattenSeq
  <2>3. <<>> \in Seq(S)
    OBVIOUS
  <2>4. Tool!FlattenSeq(q) = <<>>
    BY <2>1, <2>2
  <2> QED  BY <2>3, <2>4
<1>3. CASE n # 0
  <2>1. PICK f : f = CHOOSE g : Flat(q, n, g)
    OBVIOUS
  <2>2. Flat(q, n, f)
    BY <2>1, FlatExists
  <2>3. Tool!FlattenSeq(q) = f[n]
    BY <1>1, <1>3, <2>1 DEF Tool!FlattenSeq, Flat
  <2>4. n \in 1 .. n
    BY <1>3
  <2> QED  BY <2>2, <2>3, <2>4, FlatTyped
<1> QED
  BY <1>2, <1>3

\* Files and directories.
Paths == DOMAIN Entries \cup DOMAIN Contents

\* The files found in each entry of a directory.
Inside(l, f, e) == [i \in DOMAIN l[e] |-> f[l[e][i]]]

\* Of the directories in D the files of all entries, of what is in none itself.
FileChain(l, D, f) ==
  f = [e \in Paths |-> IF e \in D THEN Tool!FlattenSeq(Inside(l, f, e)) ELSE <<e>>]

\* A listing has a directory's entries one after the other.
LEMMA ListingOf ==
  ASSUME NEW l \in Tool!Listings, NEW d \in DOMAIN Entries
  PROVE  /\ \E n \in Nat : l[d] \in [1 .. n -> Entries[d]]
         /\ \A i \in DOMAIN l[d] : l[d][i] \in Entries[d] /\ l[d][i] \in Paths
<1>1. l[d] \in Tool!SetToSeqs(Entries[d])
  BY DEF Tool!Listings
<1>2. PICK n \in Nat : n = Tool!Cardinality(Entries[d])
  <2>1. \A S : Tool!Cardinality(S) = Cardinality(S)
    BY DEF Tool!Cardinality, Cardinality
  <2>2. Cardinality(Entries[d]) \in Nat
    BY GeneratorAssumption, FS_CardinalityType
  <2> QED  BY <2>1, <2>2
<1>3. l[d] \in [1 .. n -> Entries[d]]
  BY <1>1, <1>2 DEF Tool!SetToSeqs
<1>4. Entries[d] \subseteq Paths
  BY GeneratorAssumption DEF Paths
<1> QED
  BY <1>2, <1>3, <1>4

\* There is such a function for any directories: of a smallest set without one
\* some directory is in none of the others.
LEMMA FilesExist ==
  ASSUME NEW l \in Tool!Listings, NEW D \in SUBSET DOMAIN Entries
  PROVE  \E f : FileChain(l, D, f)
<1> DEFINE T == {k \in SUBSET DOMAIN Entries : ~\E f : FileChain(l, k, f)}
<1> SUFFICES ASSUME T # {} PROVE FALSE
  OBVIOUS
<1>1. PICK k \in T : \A r \in T : r \subseteq k => r = k
  <2>1. T \in SUBSET (SUBSET DOMAIN Entries) /\ IsFiniteSet(DOMAIN Entries)
    BY GeneratorAssumption
  <2> HIDE DEF T
  <2> QED  BY <2>1, SmallestSet
<1>2. k # {}
  <2>1. FileChain(l, {}, [e \in Paths |-> <<e>>])
    BY DEF FileChain
  <2> QED  BY <1>1, <2>1
<1>3. PICK d \in k : \A e \in k : d \notin Entries[e]
  <2>1. k \in (SUBSET DOMAIN Entries) \ {{}}
    BY <1>1, <1>2
  <2> QED  BY <2>1, GeneratorAssumption
<1>4. PICK f : FileChain(l, k \ {d}, f)
  <2>1. k \ {d} \in SUBSET DOMAIN Entries /\ k \ {d} # k
    BY <1>1, <1>3
  <2>2. k \ {d} \notin T
    BY <1>1, <2>1
  <2> QED  BY <2>1, <2>2
<1> DEFINE g == [e \in Paths |-> IF e = d THEN Tool!FlattenSeq(Inside(l, f, d)) ELSE f[e]]
<1>5. ASSUME NEW e \in k PROVE Inside(l, g, e) = Inside(l, f, e)
  <2>1. \A i \in DOMAIN l[e] : l[e][i] \in Entries[e] /\ l[e][i] \in Paths
    BY <1>1, ListingOf
  <2>2. \A i \in DOMAIN l[e] : g[l[e][i]] = f[l[e][i]]
    BY <1>3, <2>1
  <2> HIDE DEF g
  <2> QED  BY <2>2 DEF Inside
<1>6. \A e \in Paths : f[e] = IF e \in k \ {d} THEN Tool!FlattenSeq(Inside(l, f, e)) ELSE <<e>>
  BY <1>4 DEF FileChain
<1>7. ASSUME NEW e \in Paths
      PROVE  g[e] = IF e \in k THEN Tool!FlattenSeq(Inside(l, g, e)) ELSE <<e>>
  <2>1. CASE e = d
    <3>1. g[e] = Tool!FlattenSeq(Inside(l, f, e))
      BY <2>1
    <3> HIDE DEF g
    <3> QED  BY <1>3, <1>5, <2>1, <3>1
  <2>2. CASE e # d
    <3>1. g[e] = f[e]
      BY <2>2
    <3> HIDE DEF g
    <3> QED  BY <1>5, <1>6, <2>2, <3>1
  <2> QED  BY <2>1, <2>2
<1>8. FileChain(l, k, g)
  <2>1. g = [e \in Paths |-> g[e]]
    OBVIOUS
  <2> HIDE DEF g
  <2> QED  BY <1>7, <2>1 DEF FileChain
<1> QED
  BY <1>1, <1>8

\* What is found below a directory are files.
LEMMA FilesInTyped ==
  ASSUME NEW l \in Tool!Listings, NEW d
  PROVE  Tool!FilesIn(l, d) \in Seq(DOMAIN Contents)
<1>1. PICK f : f = CHOOSE g : FileChain(l, DOMAIN Entries, g)
  OBVIOUS
<1>2. FileChain(l, DOMAIN Entries, f)
  BY <1>1, FilesExist
<1>3. Tool!FilesIn(l, d) = IF d \in DOMAIN Entries THEN f[d] ELSE <<>>
  BY <1>1 DEF Tool!FilesIn, FileChain, Paths, Inside
<1>4. \A e \in Paths : f[e] = IF e \in DOMAIN Entries THEN Tool!FlattenSeq(Inside(l, f, e)) ELSE <<e>>
  BY <1>2 DEF FileChain
<1> DEFINE D == {e \in DOMAIN Entries : f[e] \notin Seq(DOMAIN Contents)}
<1>5. D = {}
  <2> SUFFICES ASSUME D # {} PROVE FALSE
    OBVIOUS
  <2>1. PICK e \in D : Entries[e] \cap D = {}
    <3>1. D \in (SUBSET DOMAIN Entries) \ {{}}
      OBVIOUS
    <3> HIDE DEF D
    <3> QED  BY <3>1, GeneratorAssumption
  <2>2. PICK n \in Nat : l[e] \in [1 .. n -> Entries[e]]
    BY <2>1, ListingOf
  <2>3. \A i \in 1 .. n : l[e][i] \in Entries[e] /\ l[e][i] \in Paths
    BY <2>1, <2>2, ListingOf
  <2>4. \A i \in 1 .. n : f[l[e][i]] \in Seq(DOMAIN Contents)
    <3> SUFFICES ASSUME NEW i \in 1 .. n PROVE f[l[e][i]] \in Seq(DOMAIN Contents)
      OBVIOUS
    <3>1. PICK x : x = l[e][i]
      OBVIOUS
    <3>2. x \in Entries[e] /\ x \in Paths
      BY <2>3, <3>1
    <3>3. CASE x \in DOMAIN Entries
      BY <2>1, <3>1, <3>2, <3>3
    <3>4. CASE x \notin DOMAIN Entries
      <4>1. x \in DOMAIN Contents /\ f[x] = <<x>>
        BY <1>4, <3>2, <3>4 DEF Paths
      <4> QED  BY <3>1, <4>1
    <3> QED  BY <3>3, <3>4
  <2>5. Inside(l, f, e) \in [1 .. n -> Seq(DOMAIN Contents)]
    BY <2>2, <2>4 DEF Inside
  <2>6. Tool!FlattenSeq(Inside(l, f, e)) \in Seq(DOMAIN Contents)
    BY <2>2, <2>5, FlattenTyped
  <2> QED  BY <1>4, <2>1, <2>6 DEF Paths
<1>6. \A e \in DOMAIN Entries : f[e] \in Seq(DOMAIN Contents)
  BY <1>5
<1>7. <<>> \in Seq(DOMAIN Contents)
  OBVIOUS
<1> QED
  BY <1>3, <1>6, <1>7

\* What is still to be read.
Reading == [file : DOMAIN Contents, write : BOOLEAN]

\* A run reads files.
LEMMA ToReadTyped ==
  ASSUME NEW l \in Tool!Listings, NEW r
  PROVE  Tool!ToRead(l, r) \in Seq(Reading)
<1>1. ASSUME NEW d, NEW w \in BOOLEAN
      PROVE  Tool!Files(l, d, w) \in Seq(Reading)
  <2>1. PICK fs : fs = Tool!FilesIn(l, d)
    OBVIOUS
  <2>2. fs \in Seq(DOMAIN Contents)
    BY <2>1, FilesInTyped
  <2>3. PICK n \in Nat : DOMAIN fs = 1 .. n
    BY <2>2, LenProperties
  <2>4. \A i \in 1 .. n : [file |-> fs[i], write |-> w /\ fs[i] \notin Sources] \in Reading
    BY <2>2, <2>3 DEF Reading
  <2>5. Tool!Files(l, d, w) = [i \in 1 .. n |-> [file |-> fs[i], write |-> w /\ fs[i] \notin Sources]]
    BY <2>1, <2>3 DEF Tool!Files
  <2>6. Tool!Files(l, d, w) \in [1 .. n -> Reading]
    BY <2>4, <2>5
  <2> QED  BY <2>3, <2>6
<1>2. \A a, b \in Seq(Reading) : a \o b \in Seq(Reading)
  OBVIOUS
<1>3. <<>> \in Seq(Reading)
  OBVIOUS
<1> QED
  BY <1>1, <1>2, <1>3 DEF Tool!ToRead

\* The classes in the files that are to be read.
ClassesIn(f) == Tool!ToSet(Contents[f])
ClassesOf(q) == UNION {ClassesIn(q[i].file) : i \in DOMAIN q}

\* They are those in the first file and those in the others.
LEMMA ClassesSplit ==
  ASSUME NEW q \in Seq(Reading), q # <<>>
  PROVE  /\ Tail(q) \in Seq(Reading)
         /\ ClassesOf(q) = ClassesIn(Head(q).file) \cup ClassesOf(Tail(q))
<1>1. PICK n \in Nat : n = Len(q) /\ DOMAIN q = 1 .. n
  BY LenProperties
<1>2. n # 0
  BY <1>1
<1>3. PICK t : t = Tail(q)
  OBVIOUS
<1>4. t \in Seq(Reading) /\ Len(t) = n - 1 /\ \A i \in 1 .. n - 1 : t[i] = q[i + 1]
  BY <1>1, <1>2, <1>3
<1>5. DOMAIN t = 1 .. n - 1
  BY <1>1, <1>2, <1>4, LenProperties
<1>6. Head(q) = q[1] /\ 1 \in 1 .. n
  BY <1>1, <1>2
<1>7. ASSUME NEW i \in 1 .. n, i # 1 PROVE \E j \in 1 .. n - 1 : q[i] = t[j]
  <2>1. i - 1 \in 1 .. n - 1 /\ i = (i - 1) + 1
    BY <1>7
  <2>2. t[i - 1] = q[i]
    BY <1>4, <2>1
  <2> QED  BY <2>1, <2>2
<1>8. \A j \in 1 .. n - 1 : j + 1 \in 1 .. n /\ t[j] = q[j + 1]
  BY <1>4
<1>9. \A x \in ClassesOf(q) : x \in ClassesIn(Head(q).file) \cup ClassesOf(t)
  <2> SUFFICES ASSUME NEW i \in 1 .. n, NEW x \in ClassesIn(q[i].file)
               PROVE  x \in ClassesIn(Head(q).file) \cup ClassesOf(t)
    BY <1>1 DEF ClassesOf
  <2>1. CASE i = 1
    BY <1>6, <2>1
  <2>2. CASE i # 1
    BY <1>5, <1>7, <2>2 DEF ClassesOf
  <2> QED  BY <2>1, <2>2
<1>10. \A x \in ClassesIn(Head(q).file) \cup ClassesOf(t) : x \in ClassesOf(q)
  BY <1>1, <1>5, <1>6, <1>8 DEF ClassesOf
<1> QED
  BY <1>3, <1>4, <1>9, <1>10

\* What a run reads are classes.
LEMMA KnownTyped ==
  ASSUME NEW l \in Tool!Listings, NEW r
  PROVE  Known(l, r) = ClassesOf(Tool!ToRead(l, r)) /\ Known(l, r) \subseteq Classes
<1>1. PICK q : q = Tool!ToRead(l, r)
  OBVIOUS
<1>2. Known(l, r) = ClassesOf(q)
  BY <1>1 DEF Known, ClassesOf, ClassesIn
<1>3. ASSUME NEW i \in DOMAIN q PROVE ClassesIn(q[i].file) \subseteq Classes
  <2>1. q \in Seq(Reading)
    BY <1>1, ToReadTyped
  <2>2. PICK n \in Nat : DOMAIN q = 1 .. n
    BY <2>1, LenProperties
  <2>3. q[i].file \in DOMAIN Contents
    <3>1. \A j \in DOMAIN q : q[j] \in Reading
      BY <2>1
    <3>2. \A x \in Reading : x.file \in DOMAIN Contents
      BY DEF Reading
    <3> QED  BY <1>3, <3>1, <3>2
  <2>4. PICK cs : cs = Contents[q[i].file]
    OBVIOUS
  <2>5. cs \in Seq(Classes)
    BY <2>3, <2>4, GeneratorAssumption DEF Classes
  <2>6. \A j \in DOMAIN cs : cs[j] \in Classes
    BY <2>5
  <2> QED  BY <2>4, <2>6 DEF ClassesIn, Tool!ToSet
<1> QED
  BY <1>1, <1>2, <1>3 DEF ClassesOf

\* A vtable that a run wrote.
SlotsFit(o, c) ==
  LET line == Tool!Line(Classes, c)
  IN  /\ DOMAIN o.vtables[c] = UNION {Tool!SlotsOf(d) : d \in Tool!ToSet(line)}
      /\ \A s \in DOMAIN o.vtables[c] : o.vtables[c][s] = line[FirstIndex(line, s)]

\* All that a run wrote.
RunFits(o) ==
  /\ \A c \in DOMAIN o.macros : MacroFits(o.macros[c], c)
  /\ \A c \in DOMAIN o.vtables : SlotsFit(o, c)
  /\ \A p \in o.unreadable : p[2] \in CoreSlots

\* The classes that were read, and those still to be read, are the run's; and
\* all that was written fits.
GenInv ==
  /\ listing \in Tool!Listings /\ hashing \in Tool!Hashings
  /\ run \in Tool!ToSet(RunNames)
  /\ unread \in Seq(Reading)
  /\ DOMAIN classes \cup ClassesOf(unread) = Known(listing, run)
  /\ \A r \in DOMAIN out : RunFits(out[r])

\* What fits is whole.
LEMMA GenInvImplies == GenInv => VtablesWhole
<1> SUFFICES ASSUME GenInv PROVE VtablesWhole
  OBVIOUS
<1>1. \A r \in DOMAIN out : RunFits(out[r])
  BY DEF GenInv
<1>2. Tool!MacroWhole
  BY <1>1 DEF Tool!MacroWhole, RunFits, MacroFits, Base
<1>3. Tool!SlotsInherited
  <2>1. \A r \in DOMAIN out : /\ \A c \in DOMAIN out[r].vtables : SlotsFit(out[r], c)
                              /\ \A p \in out[r].unreadable : p[2] \in CoreSlots
    BY <1>1 DEF RunFits
  <2>2. ASSUME NEW r \in DOMAIN out
        PROVE  Tool!NearestOwns(out[r].vtables)
    <3>1. \A c \in DOMAIN out[r].vtables : SlotsFit(out[r], c)
      BY <2>1
    <3> QED  BY <3>1 DEF Tool!NearestOwns, SlotsFit, FirstIndex, Classes
  <2>3. \A r \in DOMAIN out : \A p \in out[r].unreadable : p[2] \in CoreSlots
    BY <2>1
  <2> QED  BY <2>2, <2>3 DEF Tool!SlotsInherited
<1> QED
  BY <1>2, <1>3 DEF VtablesWhole

\* A run begins with all of its classes still to be read.
LEMMA RunBegins ==
  ASSUME NEW l \in Tool!Listings, NEW r
  PROVE  /\ Tool!ToRead(l, r) \in Seq(Reading)
         /\ DOMAIN <<>> \cup ClassesOf(Tool!ToRead(l, r)) = Known(l, r)
<1>1. DOMAIN <<>> = {}
  OBVIOUS
<1> QED
  BY <1>1, ToReadTyped, KnownTyped

\* It holds at first.
LEMMA GenInvInit == Tool!Init => GenInv
<1> SUFFICES ASSUME Tool!Init PROVE GenInv
  OBVIOUS
<1>1. /\ listing \in Tool!Listings /\ hashing \in Tool!Hashings /\ run = RunNames[1]
      /\ unread = Tool!ToRead(listing, run) /\ classes = <<>> /\ out = <<>>
  BY DEF Tool!Init
<1>2. run \in Tool!ToSet(RunNames)
  <2>1. RunNames # <<>> /\ RunNames \in Seq(Tool!ToSet(RunNames))
    BY GeneratorAssumption
  <2>2. 1 \in DOMAIN RunNames
    BY <2>1
  <2> QED  BY <1>1, <2>2 DEF Tool!ToSet
<1>3. DOMAIN out = {}
  BY <1>1
<1>4. unread \in Seq(Reading) /\ DOMAIN classes \cup ClassesOf(unread) = Known(listing, run)
  BY <1>1, RunBegins
<1> QED
  BY <1>1, <1>2, <1>3, <1>4 DEF GenInv

\* A file that was read leaves the run's classes the same.
LEMMA GenInvReadFile == GenInv /\ Tool!ReadFile => GenInv'
<1> SUFFICES ASSUME GenInv, Tool!ReadFile PROVE GenInv'
  OBVIOUS
<1>1. PICK new : /\ DOMAIN new = ClassesIn(Head(unread).file)
                 /\ classes' = Tool!Over(new, classes)
  <2>1. classes' = Tool!Over([c \in ClassesIn(Head(unread).file) |-> Head(unread).write], classes)
    BY DEF Tool!ReadFile, ClassesIn
  <2> QED  BY <2>1
<1>2. DOMAIN classes' = ClassesIn(Head(unread).file) \cup DOMAIN classes
  BY <1>1 DEF Tool!Over
<1>3. unread # <<>> /\ unread' = Tail(unread) /\ UNCHANGED <<listing, hashing, run, out>>
  BY DEF Tool!ReadFile
<1>4. unread' \in Seq(Reading) /\ ClassesOf(unread) = ClassesIn(Head(unread).file) \cup ClassesOf(unread')
  BY <1>3, ClassesSplit DEF GenInv
<1>5. DOMAIN classes' \cup ClassesOf(unread') = Known(listing, run)
  BY <1>2, <1>4 DEF GenInv
<1> QED
  BY <1>3, <1>4, <1>5 DEF GenInv

\* What is written fits: all the run's classes have been read.
LEMMA GeneratedFits ==
  ASSUME GenInv, unread = <<>>, NEW order, Tool!ToSet(order) \subseteq DOMAIN classes
  PROVE  RunFits(Tool!Generated(order))
<1>1. PICK o, all : /\ o = Tool!Generated(order)
                    /\ all = IF Tool!Unreadable(Tool!ToSet(order)) = {} THEN order ELSE <<>>
  OBVIOUS
<1>2. /\ o.macros = [c \in Tool!ToSet(all) |-> Tool!MacroLines(c)]
      /\ o.vtables = [c \in Tool!ToSet(all) |-> Tool!Vtable(c)]
      /\ o.unreadable = Tool!Unreadable(Tool!ToSet(order))
  BY <1>1 DEF Tool!Generated
<1>6. Tool!ToSet(all) \subseteq Tool!ToSet(order)
  <2>1. CASE all = order
    BY <2>1
  <2>2. CASE all = <<>>
    <3>1. DOMAIN all = {}
      BY <2>2
    <3> QED  BY <3>1 DEF Tool!ToSet
  <2> QED  BY <1>1, <2>1, <2>2
<1>3. DOMAIN classes = Known(listing, run) /\ Known(listing, run) \subseteq Classes
  <2>1. DOMAIN unread = {}
    OBVIOUS
  <2>2. ClassesOf(unread) = {}
    BY <2>1 DEF ClassesOf
  <2> QED  BY <2>2, KnownTyped DEF GenInv
<1>4. ASSUME NEW c \in DOMAIN o.macros PROVE MacroFits(o.macros[c], c)
  <2>1. c \in Classes /\ o.macros[c] = Tool!MacroLines(c)
    BY <1>2, <1>3, <1>6
  <2> QED  BY <2>1, MacrosFit DEF GenInv
<1>5. ASSUME NEW c \in DOMAIN o.vtables PROVE SlotsFit(o, c)
  <2>1. c \in Classes /\ o.vtables[c] = Tool!Vtable(c)
    BY <1>2, <1>3, <1>6
  <2> QED  BY <2>1, SlotIsOwned DEF SlotsFit
<1>7. ASSUME NEW p \in o.unreadable
      PROVE  p[2] \in CoreSlots
  <2> SUFFICES ASSUME p[2] \notin CoreSlots PROVE FALSE
    OBVIOUS
  <2>0. /\ p \in UNION {{<<c, s>> : s \in ClassTable[c].decls} : c \in Tool!ToSet(order)}
        /\ Tool!Signature(p[1], p[2]) # ""
        /\ p[2] \notin ClassTable[Tool!Signature(p[1], p[2])].declares
    BY <1>2 DEF Tool!Unreadable
  <2>1. PICK c \in Tool!ToSet(order) : p \in {<<c, s>> : s \in ClassTable[c].decls}
    BY <2>0
  <2>5. PICK s \in ClassTable[c].decls : p = <<c, s>>
    BY <2>1
  <2>2. Tool!Signature(c, s) # "" /\ s \notin ClassTable[Tool!Signature(c, s)].declares
    BY <2>0, <2>5
  <2>3. c \in Known(listing, run) /\ s \notin CoreSlots
    BY <1>3, <2>1, <2>5
  <2>4. listing \in Tool!Listings /\ run \in Tool!ToSet(RunNames)
    BY DEF GenInv
  <2> QED  BY <1>3, <2>2, <2>3, <2>4, SignatureDeclares
<1> QED
  BY <1>1, <1>4, <1>5, <1>7 DEF RunFits

\* So all does that was written by then.
LEMMA GenInvWrite == GenInv /\ Tool!Write => GenInv'
<1> SUFFICES ASSUME GenInv, Tool!Write PROVE GenInv'
  OBVIOUS
<1>1. /\ unread = <<>> /\ UNCHANGED <<listing, hashing, run, unread, classes>>
      /\ \E order \in Tool!SetToSeqs({c \in DOMAIN classes : classes[c]}) :
           out' = Tool!Over([r \in {run} |-> Tool!Generated(order)], out)
  BY DEF Tool!Write
<1>2. PICK order \in Tool!SetToSeqs({c \in DOMAIN classes : classes[c]}) :
             out' = Tool!Over([r \in {run} |-> Tool!Generated(order)], out)
  BY <1>1
<1>3. Tool!ToSet(order) \subseteq DOMAIN classes
  BY <1>2 DEF Tool!SetToSeqs, Tool!ToSet
<1>4. PICK o : o = Tool!Generated(order)
  OBVIOUS
<1>5. RunFits(o)
  BY <1>1, <1>3, <1>4, GeneratedFits
<1>6. out' = [r \in {run} \cup DOMAIN out |-> IF r \in {run} THEN o ELSE out[r]]
  BY <1>2, <1>4 DEF Tool!Over
<1>7. \A r \in DOMAIN out' : RunFits(out'[r])
  <2>1. \A r \in DOMAIN out : RunFits(out[r])
    BY DEF GenInv
  <2> SUFFICES ASSUME NEW r \in {run} \cup DOMAIN out PROVE RunFits(out'[r])
    BY <1>6
  <2>2. CASE r = run
    <3>1. out'[r] = o
      BY <1>6, <2>2
    <3> QED  BY <1>5, <3>1
  <2>3. CASE r # run
    <3>1. r \in DOMAIN out /\ out'[r] = out[r]
      BY <1>6, <2>3
    <3> QED  BY <2>1, <3>1
  <2> QED  BY <2>2, <2>3
<1> QED
  BY <1>1, <1>7 DEF GenInv

\* The next run begins.
LEMMA GenInvNextRun == GenInv /\ Tool!NextRun => GenInv'
<1> SUFFICES ASSUME GenInv, Tool!NextRun PROVE GenInv'
  OBVIOUS
<1>1. /\ run # Tool!Last(RunNames) /\ run' = RunNames[1 + CHOOSE i \in DOMAIN RunNames : RunNames[i] = run]
      /\ unread' = Tool!ToRead(listing, run') /\ classes' = <<>> /\ UNCHANGED <<listing, hashing, out>>
  BY DEF Tool!NextRun
<1>2. RunNames # <<>> /\ RunNames \in Seq(Tool!ToSet(RunNames))
  BY GeneratorAssumption
<1>3. PICK n \in Nat : n = Len(RunNames) /\ DOMAIN RunNames = 1 .. n
  BY <1>2, LenProperties
<1>4. PICK i \in 1 .. n : RunNames[i] = run /\ run' = RunNames[1 + i]
  <2>1. \E i \in DOMAIN RunNames : RunNames[i] = run
    BY DEF GenInv, Tool!ToSet
  <2> QED  BY <1>1, <1>3, <2>1
<1>5. 1 + i \in 1 .. n
  <2>1. i # n
    BY <1>1, <1>3, <1>4 DEF Tool!Last
  <2> QED  BY <1>3, <1>4, <2>1
<1>6. run' \in Tool!ToSet(RunNames)
  BY <1>3, <1>4, <1>5 DEF Tool!ToSet
<1>7. PICK l, r : l = listing /\ r = run'
  OBVIOUS
<1>8. unread' \in Seq(Reading) /\ DOMAIN classes' \cup ClassesOf(unread') = Known(listing, run')
  <2>1. l \in Tool!Listings
    BY <1>7 DEF GenInv
  <2>2. Tool!ToRead(l, r) \in Seq(Reading) /\ DOMAIN <<>> \cup ClassesOf(Tool!ToRead(l, r)) = Known(l, r)
    BY <2>1, RunBegins
  <2> QED  BY <1>1, <1>7, <2>2
<1>9. Known(listing', run') = Known(listing, run') /\ \A r1 \in DOMAIN out' : RunFits(out'[r1])
  BY <1>1 DEF GenInv
<1> QED
  BY <1>1, <1>6, <1>8, <1>9 DEF GenInv

\* In whatever order directories are listed and tables of methods are iterated,
\* every vtable that write_to_file writes has the slots of all classes from which
\* its class derives, each with the nearest override; its macro has every slot
\* the class declares and then ends; and an override is declared with the
\* signature of a class that declares the slot.
THEOREM VtablesWholeHolds == Tool!Spec => []VtablesWhole
<1>1. GenInv /\ [Tool!Next]_Tool!vars => GenInv'
  <2> SUFFICES ASSUME GenInv, [Tool!Next]_Tool!vars PROVE GenInv'
    OBVIOUS
  <2>1. CASE Tool!ReadFile
    BY <2>1, GenInvReadFile
  <2>2. CASE Tool!Write
    BY <2>2, GenInvWrite
  <2>3. CASE Tool!NextRun
    BY <2>3, GenInvNextRun
  <2>4. CASE UNCHANGED Tool!vars
    <3>1. UNCHANGED <<listing, hashing, run, unread, classes, out>>
      BY <2>4 DEF Tool!vars
    <3> QED  BY <3>1 DEF GenInv
  <2> QED  BY <2>1, <2>2, <2>3, <2>4 DEF Tool!Next
<1> QED
  BY <1>1, GenInvInit, GenInvImplies, PTL DEF Tool!Spec
=============================================================================
