------------------------------ MODULE Exchange ------------------------------
(***************************************************************************)
(* What one program takes over from another: the vtables of its classes    *)
(* from the generator, the objects in a file from the program that wrote   *)
(* it, and the entities in a packet from the one that sent it.  Here are   *)
(* the constants and variables of the three, and the properties that make  *)
(* them correct under the names they are known by.                         *)
(***************************************************************************)
EXTENDS Naturals, Sequences, FiniteSets

CONSTANTS
  Entries, Contents, ClassTable, Sources, Builtins, Mapped,
  RunNames, Args, Number, Root, CoreSlots,   \* Reflection
  ClassVersions, Scalars,     \* ObjectSerialization
  ComponentClasses, Ids,      \* EntityReplication
  Data, Zero, Garbage         \* both: values of properties

VARIABLES
  listing, hashing, run, unread, classes, customs, out,
  version, obj, file, saved, loaded,
  sendIds, recvIds, sender, receiver, sent, kept

Tool    == INSTANCE Reflection WITH Class <- ClassTable
Saving  == INSTANCE ObjectSerialization WITH Versions <- ClassVersions, Values <- Data
Sending == INSTANCE EntityReplication WITH Components <- ComponentClasses, Values <- Data

\* The classes a run of the generator reads.
Known(l, r) ==
  LET files == Tool!ToRead(l, r) IN UNION {Tool!ToSet(Contents[files[i].file]) : i \in DOMAIN files}

\* Directories do not contain, and classes do not derive from, themselves; of
\* classes that were read, one that overrides a slot and from which another
\* derives has above it one that declares the slot, or the slot is one that every
\* vtable has (a compiler refuses the initialisation of any other).
ASSUME GeneratorAssumption ==
  /\ IsFiniteSet(DOMAIN Entries) /\ IsFiniteSet(DOMAIN ClassTable)
  /\ \A d \in DOMAIN Entries :
       IsFiniteSet(Entries[d]) /\ Entries[d] \subseteq DOMAIN Entries \cup DOMAIN Contents
  /\ \A D \in (SUBSET DOMAIN Entries) \ {{}} :
       /\ \E d \in D : Entries[d] \cap D = {}
       /\ \E d \in D : \A e \in D : d \notin Entries[e]
  /\ \A f \in DOMAIN Contents : Contents[f] \in Seq(DOMAIN ClassTable)
  /\ Root \in DOMAIN ClassTable
  /\ \A c \in DOMAIN ClassTable :
       /\ ClassTable[c].base # "" /\ ClassTable[c].base \in DOMAIN ClassTable \cup {ClassTable[Root].base}
       /\ IsFiniteSet(Tool!SlotsOf(c)) /\ "" \notin Tool!SlotsOf(c)
  /\ \A C \in (SUBSET DOMAIN ClassTable) \ {{}} :
       /\ \E c \in C : ClassTable[c].base \notin C
       /\ \E c \in C : \A d \in C : ClassTable[d].base # c
  /\ RunNames # <<>> /\ RunNames \in Seq(Tool!ToSet(RunNames))
  /\ \A l \in Tool!Listings, r \in Tool!ToSet(RunNames) : \A c \in Known(l, r) :
       LET above == Tool!Line(Known(l, r), ClassTable[c].base)
       IN  \A i \in DOMAIN above : \A s \in ClassTable[above[i]].overrides \ CoreSlots :
             \E j \in i + 1 .. Len(above) : s \in ClassTable[above[j]].declares

\* There is a version of the class, in each a name is the name of one property,
\* and a value of a type the file has takes at least a unit.
ASSUME SavingAssumption ==
  /\ ClassVersions # <<>> /\ ClassVersions \in Seq(Saving!ToSet(ClassVersions))
  /\ Scalars \in [DOMAIN Scalars -> Nat \ {0}]
  /\ \A v \in DOMAIN ClassVersions :
       LET ps == ClassVersions[v]
       IN  /\ ps \in Seq(Saving!ToSet(ps))
           /\ \A i, j \in DOMAIN ps : ps[i].name = ps[j].name => i = j
-----------------------------------------------------------------------------
\* A vtable has all the slots its classes declare, and a slot holds the nearest
\* override, declared with the signature of the class that introduced it; where
\* none did, in a slot of every vtable, the generator may leave its output unfinished.
VtablesWhole == Tool!MacroWhole /\ Tool!SlotsInherited

\* A newer program reads back every value whose property is as it was, as long
\* as what it skips has the size its header gives.
LoadsWhatWasSaved == Saving!LoadsWhatWasSaved

\* With the same ids in both programs the receiver has what the sender had.
EntityReplicates == Sending!EntityReplicates
=============================================================================
