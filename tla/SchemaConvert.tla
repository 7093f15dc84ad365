---------------------------- MODULE SchemaConvert ----------------------------
(* mongodb-schema: the schema that an analyzer finds in some documents, and   *)
(* the JSON schemas made from it, which an accessor converts when they are    *)
(* asked for and remembers.  A value is a record with its BSON type; an array *)
(* has items, a document has fields.                                          *)
EXTENDS Naturals, SequencesExt

CONSTANTS
  SampleDocuments,  \* the documents that may be analyzed
  MaxSamples,       \* bound: how many of them are
  SchemaCalls,      \* calls of the accessor
  NoSchema          \* what is not there yet

ASSUME ConvertAssumption == MaxSamples \in Nat

VARIABLES
  samples,   \* the documents that were analyzed
  internal,  \* the result, once the accessor has it
  memo,      \* what the accessor remembers of each format
  schemaCall \* what each call asks for, where it is and what it returned

convertVars == <<samples, internal, memo, schemaCall>>

Formats == {"standard", "expanded", "mongodb"}
IdleCall == [pc |-> "idle", format |-> "standard", result |-> NoSchema]

ConvertInit ==
  /\ samples = <<>> /\ internal = NoSchema
  /\ memo = [f \in Formats |-> NoSchema]
  /\ schemaCall = [c \in SchemaCalls |-> IdleCall]

-----------------------------------------------------------------------------
(* The analyzer: the types of some values, and the fields of some documents.   *)
(* finalizeSchema() adds Undefined to a field that not all of them have.       *)

BsonType(v) == v.bsonType
Pick(values, type) == SelectSeq(values, LAMBDA v : v.bsonType = type)
Having(docs, name) == SelectSeq(docs, LAMBDA d : name \in DOMAIN d.fields)
ItemsOf(arrays) == FlattenSeq([i \in DOMAIN arrays |-> arrays[i].items])
AllNames(docs) == UNION {DOMAIN docs[i].fields : i \in DOMAIN docs}

RECURSIVE TypesOf(_), FieldsOf(_)
TypesOf(values) ==
  {IF type = "Array"
   THEN [bsonType |-> type, types |-> TypesOf(ItemsOf(Pick(values, type)))]
   ELSE IF type = "Document" THEN [bsonType |-> type, fields |-> FieldsOf(Pick(values, type))]
   ELSE [bsonType |-> type] : type \in {BsonType(v) : v \in ToSet(values)}}
FieldsOf(docs) ==
  [name \in AllNames(docs) |->
     LET with == Having(docs, name)
         types == TypesOf([i \in DOMAIN with |-> with[i].fields[name]])
         always == Len(with) = Len(docs)
     IN [always |-> always,
         types |-> IF always THEN types ELSE types \cup {[bsonType |-> "Undefined"]}]]

-----------------------------------------------------------------------------
(* The converters.  Plain types are those that a schema can list by name; the *)
(* expanded one gives each its own metadata.                                  *)

NameIn(format, type) ==
  CASE type = "Number" -> "Double"
    [] format # "mongodb" /\ type \in {"Int32", "Long"} -> "integer"
    [] OTHER -> type

\* In the standard schema these are references to definitions.
IsReference(format, type) == format = "standard" /\ type \in {"Date", "Number", "Double"}

\* Deviation: what some documents do not have is required too.
AllRequired(fields) == DOMAIN fields

RequiredFields(fields) == {name \in DOMAIN fields : fields[name].always}

IsEmptyList(s) == s.kind = "names" /\ s.names = <<>>

\* Deviation: an array always tells what its items are.
AlwaysItems(format, items) == TRUE

\* "Don't include empty bson type arrays (it's invalid)"
HasItems(format, items) == format # "mongodb" \/ ~IsEmptyList(items)

IsPlain(format, s) ==
  s.kind = "type" /\ ~IsReference(format, s.name)
  /\ s.name # "Document" /\ (s.name = "Array" => ~s.hasItems)

RECURSIVE ParseType(_, _), ParseTypes(_, _), ParseFields(_, _)
ParseType(format, t) ==
  CASE t.bsonType = "Array" ->
         LET items == ParseTypes(format, t.types)
         IN [kind |-> "type", name |-> "Array", items |-> items,
             hasItems |-> HasItems(format, items)]
    [] t.bsonType = "Document" ->
         [kind |-> "type", name |-> "Document", object |-> ParseFields(format, t.fields)]
    [] OTHER -> [kind |-> "type", name |-> NameIn(format, t.bsonType)]
ParseTypes(format, types) ==
  LET defined == SetToSeq({t \in types : t.bsonType # "Undefined"})
      parsed == [i \in DOMAIN defined |-> ParseType(format, defined[i])]
  IN IF Len(parsed) = 1 THEN parsed[1]
     ELSE IF format # "expanded" /\ \A i \in DOMAIN parsed : IsPlain(format, parsed[i])
     THEN [kind |-> "names", names |-> [i \in DOMAIN parsed |-> parsed[i].name]]
     ELSE [kind |-> "anyOf", of |-> parsed]
ParseFields(format, fields) ==
  [required |-> RequiredFields(fields),
   properties |-> [name \in DOMAIN fields |-> ParseTypes(format, fields[name].types)]]

-----------------------------------------------------------------------------
(* InternalSchemaBasedAccessor: `this.x ??= await convert()` looks before it   *)
(* waits, and sets what it looked at when it has waited.                       *)

AnalyzeSample(d) ==
  /\ internal = NoSchema /\ Len(samples) < MaxSamples
  /\ samples' = Append(samples, d)
  /\ UNCHANGED <<internal, memo, schemaCall>>

GetAccessor ==
  /\ internal = NoSchema /\ internal' = FieldsOf(samples)
  /\ UNCHANGED <<samples, memo, schemaCall>>

AskSchema(c, format) ==
  /\ internal # NoSchema /\ schemaCall[c].pc = "idle"
  /\ schemaCall' = [schemaCall EXCEPT ![c] =
       IF memo[format] = NoSchema THEN [pc |-> "convert", format |-> format, result |-> NoSchema]
       ELSE [pc |-> "done", format |-> format, result |-> memo[format]]]
  /\ UNCHANGED <<samples, internal, memo>>

Converted(c) ==
  /\ schemaCall[c].pc = "convert"
  /\ LET format == schemaCall[c].format
         result == ParseFields(format, internal)
     IN /\ memo' = [memo EXCEPT ![format] = result]
        /\ schemaCall' = [schemaCall EXCEPT ![c].pc = "done", ![c].result = result]
  /\ UNCHANGED <<samples, internal>>

\* allowAbort()
ConversionAborts(c) ==
  /\ schemaCall[c].pc = "convert"
  /\ schemaCall' = [schemaCall EXCEPT ![c].pc = "aborted"]
  /\ UNCHANGED <<samples, internal, memo>>

ConvertNext ==
  \/ \E d \in SampleDocuments : AnalyzeSample(d)
  \/ GetAccessor
  \/ \E c \in SchemaCalls :
       \/ \E format \in Formats : AskSchema(c, format)
       \/ Converted(c) \/ ConversionAborts(c)

ConvertSpec == ConvertInit /\ [][ConvertNext]_convertVars

-----------------------------------------------------------------------------
(* Properties.                                                                 *)

\* What a validator makes of a schema.
RECURSIVE Validates(_, _, _), HasFields(_, _, _)
Validates(format, s, v) ==
  CASE s.kind = "names" -> NameIn(format, v.bsonType) \in ToSet(s.names)
    [] s.kind = "anyOf" -> \E i \in DOMAIN s.of : Validates(format, s.of[i], v)
    [] s.kind = "type" ->
         /\ s.name = NameIn(format, v.bsonType)
         /\ s.name = "Document" => HasFields(format, s.object, v)
         /\ s.name = "Array" /\ s.hasItems =>
              \A i \in DOMAIN v.items : Validates(format, s.items, v.items[i])
HasFields(format, object, v) ==
  /\ object.required \subseteq DOMAIN v.fields
  /\ \A name \in DOMAIN v.fields : Validates(format, object.properties[name], v.fields[name])

RECURSIVE IsDefined(_)
IsDefined(v) ==
  /\ v.bsonType # "Undefined"
  /\ v.bsonType = "Array" => \A i \in DOMAIN v.items : IsDefined(v.items[i])
  /\ v.bsonType = "Document" => \A name \in DOMAIN v.fields : IsDefined(v.fields[name])

\* The states of the calls, and nothing is remembered before there is a schema.
ConvertTypeOK ==
  /\ ToSet(samples) \subseteq SampleDocuments /\ Len(samples) <= MaxSamples
  /\ \A c \in SchemaCalls :
       /\ schemaCall[c].pc \in {"idle", "convert", "done", "aborted"}
       /\ schemaCall[c].format \in Formats
  /\ internal = NoSchema => \A f \in Formats : memo[f] = NoSchema

\* A schema is one itself: a list of types, or of alternatives, is not empty, and names no
\* type twice.
RECURSIVE IsSchema(_)
HasSchemas(object) == \A name \in DOMAIN object.properties : IsSchema(object.properties[name])
IsSchema(s) ==
  CASE s.kind = "names" -> s.names # <<>> /\ IsInjective(s.names)
    [] s.kind = "anyOf" -> s.of # <<>> /\ \A i \in DOMAIN s.of : IsSchema(s.of[i])
    [] s.kind = "type" ->
         /\ s.name = "Document" => HasSchemas(s.object)
         /\ s.name = "Array" /\ s.hasItems => IsSchema(s.items)

\* What a format has a schema for: values of some type, no two of them by one name when all
\* are listed by name.  MongoDB's schema says nothing of the items of an empty array.
RECURSIVE Expressible(_, _)
AllExpressible(format, fields) ==
  \A name \in DOMAIN fields : Expressible(format, fields[name].types)
Expressible(format, types) ==
  LET defined == {t \in types : t.bsonType # "Undefined"} IN
  /\ defined # {}
  /\ \/ format = "expanded"
     \/ \E t \in defined : ~IsPlain(format, ParseType(format, t))
     \/ \A t, u \in defined : NameIn(format, t.bsonType) = NameIn(format, u.bsonType) => t = u
  /\ \A t \in defined :
       /\ t.bsonType = "Array" =>
            \/ Expressible(format, t.types)
            \/ format = "mongodb" /\ \A u \in t.types : u.bsonType = "Undefined"
       /\ t.bsonType = "Document" => AllExpressible(format, t.fields)

\* The schema that a call gets, of documents that its format can express, is one, and
\* every document that was analyzed is valid under it, whatever the documents have in
\* common.  Excepted are those with the deprecated type Undefined, which the converters
\* leave out with what is missing (internal-to-standard.ts:317).
SchemaAdmits ==
  \A c \in SchemaCalls :
    schemaCall[c].pc = "done" /\ AllExpressible(schemaCall[c].format, internal) =>
      /\ HasSchemas(schemaCall[c].result)
      /\ \A i \in DOMAIN samples : IsDefined(samples[i]) =>
           HasFields(schemaCall[c].format, schemaCall[c].result, samples[i])
=============================================================================
