------------------------------ MODULE ZenPackage ------------------------------
(***************************************************************************)
(* Reading one package: the classes the mappings file declares, the script *)
(* objects a package refers to by name, and the exports it creates and     *)
(* serializes in the order of its bundle entries.  Classes and script      *)
(* objects live in one table by name, GlobalContext::ObjectArray, which is *)
(* filled by the mappings and by every package read in the session.        *)
(***************************************************************************)
EXTENDS Integers, Sequences, SequencesExt

CONSTANTS
  Schemas,        \* the structs of a whole .usmap, in its order: name, super ("" for
                  \* none), own (has it properties of its own) and uses (the
                  \* structs they are of)
  ScriptObjects,  \* names in global.utoc
  Packages        \* by path: exports and bundle (ExportBundleEntries)

(***************************************************************************)
(* An export refers to its template, class and outer by "null", "export",  *)
(* "package" (an import from another package) or a script object's name.   *)
(* values: its property header is not empty; tail: it has bytes behind its *)
(* properties; parts: the set of its BaseCharacterParts, one sequence or none. *)
(***************************************************************************)
\* The game creates an export before it serializes it.
ASSUME ZenAssumption ==
  \A path \in DOMAIN Packages :
    LET exports == Packages[path].exports
        bundled == Packages[path].bundle
    IN  /\ exports \in Seq(ToSet(exports))
        /\ bundled \in Seq([command : {"Create", "Serialize"}, index : DOMAIN exports])
        /\ \A i \in DOMAIN bundled : bundled[i].command = "Serialize" =>
             \E j \in 1 .. i - 1 : bundled[j] = [command |-> "Create", index |-> bundled[i].index]

\* A whole .usmap lists a struct once and its super as well; none is its own ancestor.
Structs == {Schemas[i] : i \in DOMAIN Schemas}
SchemaNames == {schema.name : schema \in Structs}

ASSUME SchemaAssumption ==
  /\ Schemas \in Seq(Structs)
  /\ \A i, j \in DOMAIN Schemas : Schemas[i].name = Schemas[j].name => i = j
  /\ \A schema \in Structs :
       /\ schema.name # "" /\ schema.own \in BOOLEAN /\ schema.uses \in Seq(ToSet(schema.uses))
       /\ schema.super \in SchemaNames \cup {""}
  /\ \E depth \in [SchemaNames -> 1 .. Len(Schemas)] :
       \A schema \in Structs : schema.super # "" => depth[schema.super] < depth[schema.name]

VARIABLES
  Objects,      \* every class and script object: kind, props (whose own properties
                \* it is linked to, "" for none) and super, an index or 0
  ObjectArray,  \* by name: an index into Objects
  bundle,       \* entries still to be processed
  Exports,      \* by export: class (an index or 0) and read, how it was serialized
  aligned,      \* the reader is where the next export's bytes begin
  firstExport   \* the first export that was serialized, or 0

zenVars == <<Objects, ObjectArray, bundle, Exports, aligned, firstExport>>

ZenInit ==
  /\ Objects = <<>> /\ ObjectArray = <<>>
  /\ bundle = <<>> /\ Exports = <<>> /\ aligned = TRUE /\ firstExport = 0

ZenReset ==
  /\ Objects' = <<>> /\ ObjectArray' = <<>>
  /\ bundle' = <<>> /\ Exports' = <<>> /\ aligned' = TRUE /\ firstExport' = 0

ZenTypeOK ==
  /\ \A i \in DOMAIN Objects :
       /\ Objects[i].kind \in {"class", "object"}
       /\ Objects[i].super \in 0 .. Len(Objects)
  /\ \A n \in DOMAIN ObjectArray : ObjectArray[n] \in DOMAIN Objects
  /\ \A i \in DOMAIN Exports :
       Exports[i].class \in 0 .. Len(Objects) /\ Exports[i].read \in {"no", "right", "wrong"}
  /\ aligned \in BOOLEAN
  /\ firstExport \in 0 .. Len(Exports)

-----------------------------------------------------------------------------
(***************************************************************************)
(* Mappings::RegisterTypesFromUsmap.  A super class may come before or     *)
(* after its subclasses: the first to name it creates it.                  *)
(***************************************************************************)
Added(table, name, kind) ==
  [objects |-> Append(table.objects, [kind |-> kind, props |-> "", super |-> 0]),
   array   |-> [n \in DOMAIN table.array \cup {name} |->
                  IF n = name THEN Len(table.objects) + 1 ELSE table.array[n]]]

\* GetOrCreateObject.
Registered(table, name, kind) ==
  IF name \in DOMAIN table.array THEN table ELSE Added(table, name, kind)

\* A struct gets its own properties and its super class.
Linked(table, schema, super) ==
  LET at == table.array[schema.name]
  IN  [table EXCEPT !.objects[at] =
         [kind |-> @.kind, props |-> IF schema.own THEN schema.name ELSE @.props, super |-> super]]

\* Wrong: the super class is always made anew.
RegisterSuperAnew(table, schema) ==
  IF schema.super = "" THEN table ELSE Added(table, schema.super, "class")

RegisterSuper(table, schema) ==
  IF schema.super = "" THEN table ELSE Registered(table, schema.super, "class")

\* After each of the structs that the properties are of.
WithUses(table, uses) ==
  LET after[k \in 0 .. Len(uses)] ==
        IF k = 0 THEN table ELSE Registered(after[k - 1], uses[k], "class")
  IN  after

RegisterStruct(table, schema) ==
  LET both == RegisterSuper(Registered(table, schema.name, "class"), schema)
      linked == Linked(both, schema, IF schema.super = "" THEN 0 ELSE both.array[schema.super])
  IN  IF schema.own THEN WithUses(linked, schema.uses)[Len(schema.uses)] ELSE linked

\* After each of the file's structs.  (A one-element set, so that TLC computes the
\* table before it uses it.)
Declaring ==
  LET after[k \in 0 .. Len(Schemas)] ==
        IF k = 0 THEN [objects |-> <<>>, array |-> <<>>]
        ELSE CHOOSE next \in {RegisterStruct(table, Schemas[k]) : table \in {after[k - 1]}} : TRUE
  IN  after

Declarations == Declaring[Len(Schemas)]

\* A file that is cut or missing registers nothing, and nobody asks.
RegisterTypesFromUsmap(whole) ==
  /\ Objects' = IF whole THEN Declarations.objects ELSE <<>>
  /\ ObjectArray' = IF whole THEN Declarations.array ELSE <<>>

\* A class and its supers, 0 behind the last.
Line(objects, class) ==
  LET super == [c \in 0 .. Len(objects) |-> IF c = 0 THEN 0 ELSE objects[c].super]
      at[n \in 0 .. Len(objects)] == IF n = 0 THEN class ELSE super[at[n - 1]]
  IN  at

\* The property lists a walk over a class goes through, own and supers' ones.
Lists(objects, class) ==
  LET at == Line(objects, class)
  IN  [n \in {m \in 0 .. Len(objects) : at[m] # 0} |-> objects[at[n]].props]

\* The same read off the mappings file.
SchemaOf(name) == CHOOSE schema \in Structs : schema.name = name

SuperName == [name \in SchemaNames \cup {""} |-> IF name = "" THEN "" ELSE SchemaOf(name).super]

Ancestry(name) ==
  LET at[n \in 0 .. Len(Schemas)] == IF n = 0 THEN name ELSE SuperName[at[n - 1]]
  IN  at

Declared(name) ==
  LET at == Ancestry(IF name \in SchemaNames THEN name ELSE "")
  IN  [n \in {m \in 0 .. Len(Schemas) : at[m] # ""} |-> IF SchemaOf(at[n]).own THEN at[n] ELSE ""]

-----------------------------------------------------------------------------
(***************************************************************************)
(* ProcessExports.  All exports exist, blank, before the first entry.      *)
(***************************************************************************)
MakePackage(path) ==
  /\ bundle' = Packages[path].bundle
  /\ Exports' = [i \in DOMAIN Packages[path].exports |-> [class |-> 0, read |-> "no"]]
  /\ aligned' = TRUE /\ firstExport' = 0
  /\ UNCHANGED <<Objects, ObjectArray>>

IsScript(ref) == ref \notin {"null", "export", "package"}

\* CreateScriptObject: unknown names, and names that stand for an object of another
\* type, give a null pointer that IndexToObject then looks into.
Resolvable(table, ref, kind) ==
  IsScript(ref) =>
    /\ ref \in ScriptObjects
    /\ ref \in DOMAIN table.array => kind = "object" \/ table.objects[table.array[ref]].kind = "class"

Resolved(table, ref, kind) ==
  IF IsScript(ref) THEN Registered(table, ref, kind) ELSE table

Known == [objects |-> Objects, array |-> ObjectArray]

\* After its template, a class and an outer; an export without a template is left
\* blank, and the status that says so is the reader's copy, seen by nobody.
CreateExport(export) ==
  LET i     == Head(bundle).index
      third == Resolved(Known, export.template, "object")
      table == Resolved(Resolved(third, export.class, "class"), export.outer, "object")
  IN  /\ Head(bundle).command = "Create"
      /\ bundle' = Tail(bundle)
      /\ \/ /\ export.template = "null"
            /\ UNCHANGED <<Objects, ObjectArray, Exports>>
         \/ /\ export.template # "null"
            /\ Resolvable(Known, export.template, "object")
            /\ Resolvable(third, export.class, "class")
            /\ Resolvable(table, export.outer, "object")
            /\ Objects' = table.objects /\ ObjectArray' = table.array
            /\ Exports' = [Exports EXCEPT ![i] =
                 [class |-> IF IsScript(export.class) THEN table.array[export.class] ELSE 0,
                  read  |-> @.read]]
      /\ UNCHANGED <<aligned, firstExport>>

CreateDies(export) ==
  LET third == Resolved(Known, export.template, "object")
      table == Resolved(Resolved(third, export.class, "class"), export.outer, "object")
  IN  /\ Head(bundle).command = "Create"
      /\ export.template # "null"
      /\ \/ ~Resolvable(Known, export.template, "object")
         \/ ~Resolvable(third, export.class, "class")
         \/ ~Resolvable(table, export.outer, "object")

\* The values are read one export after the other from where the reader is, with
\* the properties of the class; an object without a class is not read at all.
ReadsRight(export, class) ==
  aligned /\ class # 0 /\ Lists(Objects, class) = Declared(export.class)

\* Wrong: the last one.
GetLastExport(first, i) == i

\* Exports.push_back, of which the front is asked for.
GetFirstExport(first, i) == IF first = 0 THEN i ELSE first

TrySerializeExport(export) ==
  LET i     == Head(bundle).index
      class == Exports[i].class
      right == ReadsRight(export, class) \/ (aligned /\ class # 0 /\ ~export.values)
  IN  /\ Head(bundle).command = "Serialize"
      /\ class # 0 /\ export.values => Objects[class].props # ""
      /\ Exports' = [Exports EXCEPT ![i] =
           [class |-> class,
            read  |-> IF class = 0 THEN "no" ELSE IF right THEN "right" ELSE "wrong"]]
      /\ aligned' = (right /\ ~export.tail)
      /\ firstExport' = GetFirstExport(firstExport, i)
      /\ bundle' = Tail(bundle)
      /\ UNCHANGED <<Objects, ObjectArray>>

\* A class without properties of its own has no first property to walk from
\* (PropertyIterator.ixx:10), and what is read from a wrong place can be anything.
SerializeDies(export) ==
  LET class == Exports[Head(bundle).index].class
  IN  /\ Head(bundle).command = "Serialize"
      /\ class # 0
      /\ \/ export.values /\ Objects[class].props = ""
         \/ ~ReadsRight(export, class) /\ ~(aligned /\ ~export.values)

-----------------------------------------------------------------------------
(***************************************************************************)
(* Properties.                                                             *)
(***************************************************************************)

\* Every class of a whole mappings file walks through the lists that file declares
\* for it and its supers, also when a super is declared after its subclass
\* (Mappings.cpp:291-330), and stays so while packages add script objects.
ClassesAreDeclared ==
  \A i \in DOMAIN Schemas :
    LET name == Schemas[i].name IN
      (name \in DOMAIN ObjectArray /\ Objects[ObjectArray[name]].props # "") =>
        Lists(Objects, ObjectArray[name]) = Declared(name)

=============================================================================
