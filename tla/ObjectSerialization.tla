------------------------ MODULE ObjectSerialization ------------------------
(***************************************************************************)
(* Writing an object to a file and reading it back (core/gs_core_object.c). *)
(* The file holds the properties, each with its name, type and size, and   *)
(* the program that reads it may be newer, with another list of properties. *)
(*                                                                         *)
(* A buffer is a sequence of units.  A value of n units leaves n of them;  *)
(* n units that do not belong to one value read as Garbage.                *)
(***************************************************************************)
EXTENDS Integers, Sequences, FiniteSets, SequencesExt, Functions

CONSTANTS
  Versions,    \* the class as one program after the other knows it:
               \* a sequence of [name, type, size]
  Scalars,     \* types both switches have a case for -> units of one value
  Values,      \* values of a property
  Zero,        \* the value a property or component starts with
  Garbage      \* what is read across the bounds of values

VARIABLES
  version,     \* the version of the program that runs
  obj,         \* its object: property -> value
  file,        \* [units, from]: the last file written, and by which version
  saved,       \* what the object was then
  loaded       \* [pos, obj, fault]: what was made of the file since

vars == <<version, obj, file, saved, loaded>>
-----------------------------------------------------------------------------
Names(v) == {Versions[v][i].name : i \in DOMAIN Versions[v]}
Property(v, n) == CHOOSE p \in ToSet(Versions[v]) : p.name = n

Put(val, n) == [i \in 1 .. n |-> <<val, i>>]

\* gs_byte_buffer_readc: n units from pos on; nobody asks where the buffer ends.
Get(units, pos, n) ==
  IF pos + n <= Len(units) /\ \E k \in {units[pos + 1][1]} : SubSeq(units, pos + 1, pos + n) = Put(k, n)
  THEN units[pos + 1][1] ELSE Garbage

\* PROP_WRITE: of an array the first element, of a type without a case nothing.
Payload(p, val) == IF p.type \in DOMAIN Scalars THEN Put(val, Scalars[p.type]) ELSE <<>>

\* gs_core_obj_serialize_impl, one turn.  The size in the header is the
\* property's, not that of what follows.
WriteOne(units, p, val) ==
  units \o Put(p.name, 1) \o Put(p.type, 1) \o Put(p.size, 1) \o Payload(p, val)

Serialized(v, o) ==
  FoldLeft(LAMBDA units, p : WriteOne(units, p, o[p.name]), Put(Len(Versions[v]), 1), Versions[v])

\* Mutant: what does not match is not skipped.
ReadOneNoSkip(v, units, s) ==
  LET name == Get(units, s.pos, 1)
      p    == Property(v, name)
      val  == Get(units, s.pos + 3, Scalars[p.type])
  IN  CASE s.fault \/ name \notin Names(v) -> [s EXCEPT !.fault = TRUE]
        [] ~s.fault /\ name \in Names(v) /\ <<p.type, p.size>> # <<Get(units, s.pos + 1, 1), Get(units, s.pos + 2, 1)>>
           -> [s EXCEPT !.pos = @ + 3]
        [] OTHER -> IF p.type \in DOMAIN Scalars
                    THEN [s EXCEPT !.pos = @ + 3 + Scalars[p.type], !.obj[name] = val]
                    ELSE [s EXCEPT !.pos = @ + 3]

\* gs_core_obj_deserialize_impl, one turn.  Of a name the class does not have,
\* the property is whatever lies outside the table.
ReadOne(v, units, s) ==
  LET name == Get(units, s.pos, 1)
      type == Get(units, s.pos + 1, 1)
      size == Get(units, s.pos + 2, 1)
      p    == Property(v, name)
  IN  CASE s.fault \/ name \notin Names(v) -> [s EXCEPT !.fault = TRUE]
        [] ~s.fault /\ name \in Names(v) /\ (p.type # type \/ p.size # size)
           -> [s EXCEPT !.pos = @ + 3 + size]
        [] OTHER -> IF type \in DOMAIN Scalars
                    THEN [s EXCEPT !.pos = @ + 3 + Scalars[type],
                                   !.obj[name] = Get(units, s.pos + 3, Scalars[type])]
                    ELSE [s EXCEPT !.pos = @ + 3]

Fresh(v) == [n \in Names(v) |-> Zero]
NotLoaded == [pos |-> 0, obj |-> <<>>, fault |-> FALSE]

\* What gs_core_obj_deserialize_impl makes of a new object.
Deserialized(v, units) ==
  FoldLeft(LAMBDA s, i : ReadOne(v, units, s), [pos |-> 1, obj |-> Fresh(v), fault |-> FALSE],
           [i \in 1 .. Get(units, 0, 1) |-> i])
-----------------------------------------------------------------------------
Init ==
  /\ version = 1 /\ obj = Fresh(1)
  /\ file = [units |-> <<>>, from |-> 1] /\ saved = Fresh(1)
  /\ loaded = NotLoaded

SetProperty(n, val) ==
  /\ obj' = [obj EXCEPT ![n] = val]
  /\ UNCHANGED <<version, file, saved, loaded>>

Save ==
  /\ file' = [units |-> Serialized(version, obj), from |-> version]
  /\ saved' = obj
  /\ loaded' = NotLoaded
  /\ UNCHANGED <<version, obj>>

\* The program is built with the next version of its class, and started.
NextVersion ==
  /\ version < Len(Versions)
  /\ version' = version + 1
  /\ obj' = Fresh(version')
  /\ loaded' = NotLoaded
  /\ UNCHANGED <<file, saved>>

Load ==
  /\ file.units # <<>>
  /\ loaded' = Deserialized(version, file.units)
  /\ obj' = IF loaded'.fault THEN obj ELSE loaded'.obj
  /\ UNCHANGED <<version, file, saved>>

Next ==
  \/ \E n \in DOMAIN obj, val \in Values : SetProperty(n, val)
  \/ Save \/ NextVersion \/ Load

Spec == Init /\ [][Next]_vars
-----------------------------------------------------------------------------
Restored ==
  /\ ~loaded.fault
  /\ \A n \in Names(version) \cap Names(file.from) :
       LET p == Property(version, n)
       IN  p = Property(file.from, n) /\ p.type \in DOMAIN Scalars => loaded.obj[n] = saved[n]

\* What the reader can skip: a property it knows, whose written size is the one
\* in its header.  An array's or an untyped property's is not.
Skippable ==
  \A p \in ToSet(Versions[file.from]) :
    /\ p.name \in Names(version)
    /\ p # Property(version, p.name) => p.type \in DOMAIN Scalars /\ Scalars[p.type] = p.size

\* A newer program reads back every value whose property is as it was, in
\* whatever order its class now declares them, wherever new ones stand between
\* them and whatever the types of the others became, as long as what it has to
\* skip is skippable.
LoadsWhatWasSaved == loaded # NotLoaded /\ Skippable => Restored

\* What the comment at core/gs_core_object.c:232 says without that condition.
SkipsWhatDoesNotMatch == loaded # NotLoaded => Restored
=============================================================================
