----------------------------- MODULE Reflection -----------------------------
(***************************************************************************)
(* The reflection generator (reflection/reflection.c).  It reads every     *)
(* header and source file of the directories its command line names, keeps *)
(* the classes marked _introspect, and writes the C code that registers    *)
(* them: ids, vtables, properties.  A program links what several runs      *)
(* wrote: the core's own, a project's and an editor's.                     *)
(*                                                                         *)
(* A directory is read in the order readdir returns its entries, and a     *)
(* hash table is written in the order of its slots; both are arbitrary.    *)
(* The lexer is left out: a file is the sequence of the classes it         *)
(* declares.  Console variables, lambdas and the text of the C code are    *)
(* left out, apart from the lines of a vtable's macro.                     *)
(***************************************************************************)
EXTENDS Integers, Sequences, FiniteSets, SequencesExt, Functions

CONSTANTS
  Entries,     \* directory -> the files and directories in it
  Contents,    \* file -> the classes it declares, in their order
  Class,       \* class -> [base, declares, overrides, decls, fields]
  Sources,     \* the files that end in .c
  Builtins,    \* type names is_builtin_type knows
  Mapped,      \* whole types (name and stars) the type map knows
  RunNames,    \* the runs of the tool, in their order
  Args,        \* run -> argv[1], argv[4], argv[5], as far as they are given
  Number,      \* text -> what atoi makes of it
  Root,        \* gs_core_obj_t
  CoreSlots    \* the slots of gs_core_vtable_t that a class may set: ctor, info

VARIABLES
  listing,     \* directory -> its entries in readdir's order
  hashing,     \* set of methods -> the order in which a table of them is iterated
  run,         \* which run of the tool this is
  unread,      \* files still to be read, with should_write_meta
  classes,     \* g_meta.classes: class -> should_write_meta
  customs,     \* g_meta.custom_types
  out          \* run -> what it wrote

vars == <<listing, hashing, run, unread, classes, customs, out>>
-----------------------------------------------------------------------------
\* The orders in which readdir may return the entries of the directories.
Listings ==
  {l \in [DOMAIN Entries -> UNION {SetToSeqs(Entries[d]) : d \in DOMAIN Entries}] :
     \A d \in DOMAIN Entries : l[d] \in SetToSeqs(Entries[d])}

\* iterate_dir: the files below a directory; of one that does not exist, none.
FilesIn(l, d) ==
  LET in[e \in DOMAIN Entries \cup DOMAIN Contents] ==
        IF e \in DOMAIN Entries THEN FlattenSeq([i \in DOMAIN l[e] |-> in[l[e][i]]]) ELSE <<e>>
  IN  IF d \in DOMAIN Entries THEN in[d] ELSE <<>>

\* refl_iterate_dir_cb: what a source file declares is never written.
Files(l, d, write) ==
  LET entry(f) == [file |-> f, write |-> write /\ f \notin Sources]
      fs == FilesIn(l, d)
  IN  [i \in DOMAIN fs |-> entry(fs[i])]

\* Mutant: the project's own directory is read before the one it depends on.
ToReadProjectFirst(l, r) ==
  Files(l, Args[r][1], TRUE) \o (IF Len(Args[r]) > 1 THEN Files(l, Args[r][2], FALSE) ELSE <<>>)

\* main: the directory depended on, whose classes are not written, then the input.
ToRead(l, r) ==
  (IF Len(Args[r]) > 1 THEN Files(l, Args[r][2], FALSE) ELSE <<>>) \o Files(l, Args[r][1], TRUE)

\* The offset of its ids, atoi of the third argument.
IdOffset(r) == IF Len(Args[r]) > 2 THEN Number[Args[r][3]] ELSE 0
-----------------------------------------------------------------------------
\* The type parse_class_property registers: that of the field, or of a
\* container's elements (never that of a table's keys).  Stars do not count.
RegisteredType(f) == IF f.container = "none" \/ f.container = "array" THEN f.type ELSE f.elem
Registers(f) == RegisteredType(f).name # "" /\ RegisteredType(f).name \notin Builtins

\* register_custom_type
WithField(cs, f) ==
  IF Registers(f) /\ RegisteredType(f) \notin ToSet(cs) THEN Append(cs, RegisteredType(f)) ELSE cs

\* parse_class_properties, for the classes of a file.
WithFile(cs, f) ==
  FoldLeft(LAMBDA acc, c : FoldLeft(WithField, acc, Class[c].fields), cs, Contents[f])

\* register_custom_type's id: after GS_META_PROPERTY_TYPE_OBJ (21).
CustomId(cs, t) == 21 + CHOOSE i \in DOMAIN cs : cs[i] = t

\* get_type_info_for_type
TypeId(cs, t) ==
  CASE t.name = "" -> <<>>
    [] t \in Mapped -> <<"mapped", t>>
    [] t \in ToSet(cs) \ Mapped -> <<"custom", CustomId(cs, t)>>
    [] OTHER -> <<"object">>

\* The type a property is registered with: an array's is that of its elements.
PropertyType(cs, f) ==
  IF f.container \in {"none", "array"} THEN TypeId(cs, f.type)
  ELSE <<f.container>> \o TypeId(cs, f.key) \o TypeId(cs, f.elem)
-----------------------------------------------------------------------------
\* A class and what it derives from, the nearest first, as far as it is known.
Line(known, c) ==
  LET up[d \in DOMAIN Class \cup {Class[Root].base}] ==
        IF d \in known THEN <<d>> \o up[Class[d].base] ELSE <<>>
  IN  up[c]

Bases(c) == Line(DOMAIN classes, Class[c].base)

\* meta_class_derives_from: a class it knows may have a base it does not know.
DerivesFrom(c, b) == c = b \/ \E d \in ToSet(Bases(c)) : d = b \/ Class[d].base = b

\* A class's table of methods, and its order.
SlotsOf(c)   == Class[c].declares \cup Class[c].overrides
Methods(c) == hashing[SlotsOf(c)]

\* The orders in which the tables of methods may be iterated.
Hashings ==
  LET tables == {SlotsOf(c) : c \in DOMAIN Class}
  IN  {h \in [tables -> UNION {SetToSeqs(t) : t \in tables}] :
         \A t \in tables : h[t] \in SetToSeqs(t)}

\* Mutant: the search for the signature ends at the first base that has the slot.
NearestSignature(c, s) ==
  LET i == SelectInSeq(Bases(c), LAMBDA b : s \in SlotsOf(b))
  IN  IF i = 0 THEN "" ELSE Bases(c)[i]

\* The class from whose method write_to_file copies the signature of an override
\* that it declares, the farthest that has the slot: none that it knows, and it
\* declares nothing.
Signature(c, s) ==
  LET i == SelectLastInSeq(Bases(c), LAMBDA b : s \in SlotsOf(b))
  IN  IF i = 0 THEN "" ELSE Bases(c)[i]

\* The overrides whose signature would be copied from another override, which has
\* none: the lexer finds no identifier there, and write_to_file returns.
Unreadable(cs) ==
  {p \in UNION {{<<c, s>> : s \in Class[c].decls} : c \in cs} :
     LET from == Signature(p[1], p[2]) IN from # "" /\ p[2] \notin Class[from].declares}

\* The macro with a vtable's slots: each line with its text and whether it ends
\* in a backslash.  Overrides leave a line that is empty but for the backslash;
\* ct and noc - 1 are compared unsigned, so with no slot declared all have one.
MacroLines(c) ==
  LET noc == Cardinality(Class[c].declares)
      own(i) ==
        LET s  == Methods(c)[i]
            ct == Cardinality({j \in 1 .. i : Methods(c)[j] \in Class[c].declares})
        IN  [text |-> IF s \in Class[c].declares THEN s ELSE "",
             more |-> noc = 0 \/ ct <= noc - 1]
  IN  <<[text |-> "", more |-> TRUE],
        [text |-> IF c = Root THEN "base" ELSE Class[c].base, more |-> c = Root \/ noc > 0]>>
        \o [i \in DOMAIN Methods(c) |-> own(i)] \o <<[text |-> "", more |-> FALSE]>>

\* What was assigned last, over what was there.
Over(f, g) == [x \in DOMAIN f \cup DOMAIN g |-> IF x \in DOMAIN f THEN f[x] ELSE g[x]]

\* _vtable_t_init: the base's slots, then the class's own.  Whose function each
\* slot holds; cls_id, cls, init and dtor are set last and are always its own.
Vtable(c) ==
  LET fill[d \in DOMAIN Class \cup {Class[Root].base}] ==
        IF d \in DOMAIN Class THEN Over([s \in SlotsOf(d) |-> d], fill[Class[d].base]) ELSE <<>>
  IN  fill[c]

\* write_to_file, for the classes to be written in the order of the hash table.
\* A header that ends in the middle, without a source file, is of no use.
Generated(all) ==
  LET order    == IF Unreadable(ToSet(all)) = {} THEN all ELSE <<>>
      index(c) == CHOOSE i \in DOMAIN order : order[i] = c
      each(Op(_)) == [c \in ToSet(order) |-> Op(c)]
      types(c) == [i \in DOMAIN Class[c].fields |-> PropertyType(customs, Class[c].fields[i])]
      rpc(c) == {b \in {"reliable", "unreliable"} : DerivesFrom(c, b)}
      id(c) == index(c) + IdOffset(run)
  IN  [ids |-> each(id), statics |-> each(index), macros |-> each(MacroLines),
       vtables |-> each(Vtable), types |-> each(types), delivery |-> each(rpc),
       customs |-> customs, unreadable |-> Unreadable(ToSet(all))]
-----------------------------------------------------------------------------
Init ==
  /\ listing \in Listings /\ hashing \in Hashings
  /\ run = RunNames[1]
  /\ unread = ToRead(listing, run)
  /\ classes = <<>> /\ customs = <<>>
  /\ out = <<>>

\* refl_iterate_dir_cb with parse_class.  A class read again replaces the first.
ReadFile ==
  /\ unread # <<>>
  /\ classes' = Over([c \in ToSet(Contents[Head(unread).file]) |-> Head(unread).write], classes)
  /\ customs' = WithFile(customs, Head(unread).file)
  /\ unread' = Tail(unread)
  /\ UNCHANGED <<listing, hashing, run, out>>

Write ==
  /\ unread = <<>>
  /\ run \notin DOMAIN out
  /\ \E order \in SetToSeqs({c \in DOMAIN classes : classes[c]}) :
       out' = Over([r \in {run} |-> Generated(order)], out)
  /\ UNCHANGED <<listing, hashing, run, unread, classes, customs>>

\* The next run is a new process.
NextRun ==
  /\ run \in DOMAIN out
  /\ run # Last(RunNames)
  /\ run' = RunNames[1 + CHOOSE i \in DOMAIN RunNames : RunNames[i] = run]
  /\ unread' = ToRead(listing, run')
  /\ classes' = <<>> /\ customs' = <<>>
  /\ UNCHANGED <<listing, hashing, out>>

Next == ReadFile \/ Write \/ NextRun

Spec == Init /\ [][Next]_vars
-----------------------------------------------------------------------------
Ended == run \in DOMAIN out /\ run = Last(RunNames)

\* meta_register of each run in turn: info slot -> the class that is in it.
Registry(runs) ==
  LET names(r) == [i \in Range(out[r].ids) |-> CHOOSE c \in DOMAIN out[r].ids : out[r].ids[c] = i]
  IN  FoldLeft(LAMBDA reg, r : Over(names(r), reg), <<>>, runs)

InfoKept(runs) ==
  ToSet(runs) \subseteq DOMAIN out =>
    \A i \in DOMAIN runs : \A c \in DOMAIN out[runs[i]].ids : Registry(runs)[out[runs[i]].ids[c]] = c

\* A program links what two runs wrote, which know nothing of each other.  When
\* both have registered their classes, each class's slot of the registry is its
\* own still, and a type the core registered has the id the core gave it in the
\* project's run too: its files are read first, in the same order.
RunsAgree ==
  /\ InfoKept(<<"core", "project">>)
  /\ {"core", "project"} \subseteq DOMAIN out =>
       \A t \in ToSet(out["core"].customs) :
         CustomId(out["project"].customs, t) = CustomId(out["core"].customs, t)

\* In whatever order the table of methods is iterated, the lines of the macro up
\* to the first that is not continued are the base and every declared slot, and
\* what follows is empty.
MacroWhole ==
  \A r \in DOMAIN out : \A c \in DOMAIN out[r].macros :
    LET lines == out[r].macros[c]
        end   == CHOOSE i \in DOMAIN lines : ~lines[i].more /\ \A j \in 1 .. i - 1 : lines[j].more
        texts == {lines[i].text : i \in 1 .. end} \ {""}
    IN  /\ texts = Class[c].declares \cup {IF c = Root THEN "base" ELSE Class[c].base}
        /\ \A i \in end + 1 .. Len(lines) : lines[i].text = ""

\* A vtable has the slots of the class and of all it derives from, and a slot
\* the function of the nearest class, from the class itself upwards, that
\* declares or overrides it.
NearestOwns(vtables) ==
  \A c \in DOMAIN vtables :
    LET line     == Line(DOMAIN Class, c)
        owner(s) == line[SelectInSeq(line, LAMBDA d : s \in SlotsOf(d))]
    IN  /\ DOMAIN vtables[c] = UNION {SlotsOf(d) : d \in ToSet(line)}
        /\ \A s \in DOMAIN vtables[c] : vtables[c][s] = owner(s)

\* What runs write has the slots of all classes, each with its nearest function.
\* The signature of an override is that of the class that introduced the slot and
\* not of another override, which has none, so that only the slots of
\* gs_core_vtable_t, which no class introduces, make the tool leave its output
\* unfinished.
SlotsInherited ==
  \A r \in DOMAIN out :
    /\ NearestOwns(out[r].vtables)
    /\ \A p \in out[r].unreadable : p[2] \in CoreSlots
=============================================================================
