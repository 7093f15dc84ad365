------------------------------ MODULE QueryText ------------------------------
(* shell-bson-parser and query-parser: text is parsed into a syntax tree, the *)
(* tree is checked and then executed to a value, and a value is written as    *)
(* text again.  A text is its tree and whether there are comments in it; a    *)
(* value is a record with its type.                                           *)
EXTENDS Integers, SequencesExt

CONSTANTS
  QueryValues,  \* the values that are shown
  QueryTexts,   \* the texts that are typed
  Garbled,      \* a text that is no expression
  BlankText,    \* one without anything in it
  Failure,      \* an exception
  NoValue,      \* no value, no object of a call, no verdict
  Half          \* half of the numbers of 32 bits: those from here on are negative

ASSUME TextAssumption == Half \in Nat \ {0}

VARIABLES
  original,    \* the value the text came from, or was read as first
  queryValue,  \* the value now
  queryText,
  verdict      \* what validate() said of the text

textVars == <<original, queryValue, queryText, verdict>>

Text(tree) == [tree |-> tree, comments |-> FALSE]
Simple(type) == [type |-> type]
Number(n) == [type |-> "Number", n |-> n]
Numeral(n) == [type |-> "Numeral", n |-> n]  \* the string with the digits of n
String(text) == [type |-> "String", text |-> text]
Document(fields) == [type |-> "Document", fields |-> fields]  \* a sequence of [name, value]
Field(name, value) == [name |-> name, value |-> value]
UndefinedValue == Simple("undefined")
Computed == Simple("computed")  \* a number, a string or a truth value
Function == Simple("Function")
Class == Simple("Class")        \* bson's Binary, a function with fields of its own

Literal(v) == [node |-> "Literal", value |-> v]
Name(name) == [node |-> "Identifier", name |-> name]
Tree(elements) == [node |-> "Array", elements |-> elements]
Object(fields) == [node |-> "Object", properties |-> fields]
Unary(op, argument) == [node |-> "Unary", op |-> op, argument |-> argument]
\* A call, with or without `new`, of a name or of a method; "" stands for a method that is
\* no identifier.
Method(object, name, new, args) ==
  [node |-> "Call", object |-> object, name |-> name, new |-> new, args |-> args]
Call(name, args) == Method(NoValue, name, FALSE, args)

-----------------------------------------------------------------------------
(* scope.ts                                                                    *)

Globals == {"Infinity", "NaN", "undefined"}

NumberTypes ==
  [Decimal128 |-> "Decimal128", NumberDecimal |-> "Decimal128", Double |-> "Double",
   Int32 |-> "Int32", NumberInt |-> "Int32", Long |-> "Long", NumberLong |-> "Long",
   Int64 |-> "Long"]
TextTypes == [ObjectID |-> "ObjectId", ObjectId |-> "ObjectId", Symbol |-> "BSONSymbol"]
LegacyUUIDs == {"LegacyJavaUUID", "LegacyCSharpUUID", "LegacyPythonUUID"}

GlobalFunctions ==
  DOMAIN NumberTypes \cup DOMAIN TextTypes \cup LegacyUUIDs
  \cup {"Date", "RegExp", "Binary", "BinData", "UUID", "Code", "DBRef", "Map", "MaxKey",
        "MinKey", "Timestamp", "ISODate"}

\* What any object has.  The other lists are objects without a prototype, that of Binary
\* is looked up together with what it inherits.
Inherited == {"constructor", "toString", "valueOf"}

AllowedMethods(member) ==
  CASE member = "Math" -> {"max", "min"}
    [] member \in {"Date", "ISODate"} -> {"now", "getTime", "toISOString", "valueOf"}
    [] member = "Binary" -> {"createFromHexString", "createFromBase64"} \cup Inherited
    [] OTHER -> {}

\* Those of them that getClass(member) has itself.
ClassMethods(member) == AllowedMethods(member) \ {"getTime", "toISOString"}

Arg(args, i) == IF i \in DOMAIN args THEN args[i] ELSE UndefinedValue
IsNumber(v) == v.type \in {"Number", "Numeral"}

\* new Date(), and the longer form of ISODate() that takes strings of one form only.
DateOf(v) ==
  [type |-> "Date",
   when |-> CASE v.type = "String" /\ v.text \in {"within", "beyond"} -> v.text
              [] v.type \in {"Number", "Date", "undefined", "computed"} -> "within"
              [] OTHER -> "invalid"]
ISODate(v) ==
  IF v.type # "String" THEN DateOf(v)
  ELSE IF v.text = "within" THEN DateOf(v) ELSE Failure

\* External: the patterns and flags that a RegExp can be made of.
Readable(pattern, flags) == pattern # "(?i)a" /\ flags \in {"", "g", "i", "m", "s"}
RegExpOf(pattern, flags) ==
  IF pattern.type # "String" THEN Failure
  ELSE LET f == IF flags = UndefinedValue THEN "" ELSE flags.text
       IN IF Readable(pattern.text, f)
          THEN [type |-> "RegExp", pattern |-> pattern.text, flags |-> f] ELSE Failure

Bytes(subType, v) ==
  IF v.type # "String" THEN Failure
  ELSE [type |-> "Binary", subType |-> subType, bytes |-> v.text]

\* The fields t and i of the argument, or two numbers.
TimestampOf(low, high) ==
  LET Value(doc, name) == SelectSeq(doc.fields, LAMBDA f : f.name = name)[1].value
      Of(t, i) == IF t.type = "Number" /\ i.type = "Number" /\ t.n >= 0 /\ i.n >= 0
                  THEN [type |-> "Timestamp", t |-> t.n, i |-> i.n] ELSE Failure
  IN IF high # UndefinedValue THEN Of(low, high)
     ELSE IF /\ low.type = "Document"
             /\ {low.fields[i].name : i \in DOMAIN low.fields} = {"t", "i"}
     THEN Of(Value(low, "t"), Value(low, "i"))
     ELSE Failure

\* getScopeFunction() and the function, called with the arguments.
Construct(name, new, args) ==
  LET a == Arg(args, 1) b == Arg(args, 2) IN
  CASE name \notin GlobalFunctions -> Failure
    [] name \in DOMAIN NumberTypes ->
         IF IsNumber(a) THEN [type |-> NumberTypes[name], n |-> a.n] ELSE Failure
    [] name \in DOMAIN TextTypes ->
         IF a.type = "String" THEN [type |-> TextTypes[name], text |-> a.text] ELSE Failure
    [] name = "Date" -> IF new THEN DateOf(a) ELSE Computed
    [] name = "ISODate" -> ISODate(a)
    [] name = "RegExp" -> RegExpOf(a, b)
    [] name = "Binary" -> IF b.type = "Number" THEN Bytes(b.n, a) ELSE Bytes(0, a)
    [] name = "BinData" -> IF a.type = "Number" THEN Bytes(a.n, b) ELSE Failure
    [] name = "UUID" -> IF a = UndefinedValue THEN Bytes(4, String("uuid")) ELSE Bytes(4, a)
    [] name \in LegacyUUIDs ->
         IF a = UndefinedValue THEN Bytes(3, String("uuid")) ELSE Bytes(3, a)
    [] name = "Code" ->
         IF a.type # "String" THEN Failure
         ELSE [type |-> "Code", code |-> a.text,
               scope |-> IF b = UndefinedValue THEN NoValue ELSE b]
    [] name = "DBRef" ->
         [type |-> "DBRef", collection |-> a, oid |-> b, db |-> Arg(args, 3),
          fields |-> IF Arg(args, 4) = UndefinedValue THEN Document(<<>>) ELSE Arg(args, 4)]
    [] name = "Timestamp" -> TimestampOf(a, b)
    [] OTHER -> Simple(name)  \* MaxKey, MinKey, and a Map

-----------------------------------------------------------------------------
(* check.ts                                                                    *)

RECURSIVE Safe(_, _)
SafeCall(call, allowMethods) ==
  LET on == call.object IN
  /\ \A i \in DOMAIN call.args : Safe(call.args[i], allowMethods)
  /\ IF on = NoValue THEN call.name \in GlobalFunctions
     ELSE /\ allowMethods
          /\ CASE on.node = "Literal" /\ call.name # "" -> FALSE  \* no type is a member
               [] \/ on.node = "Identifier" /\ call.name # ""
                  \/ on.node = "Call" /\ on.object = NoValue ->
                    call.name \in AllowedMethods(on.name)
               [] OTHER -> Safe(on, allowMethods)
Safe(tree, allowMethods) ==
  CASE tree.node = "Identifier" -> tree.name \in Globals
    [] tree.node = "Literal" -> TRUE
    [] tree.node = "Array" ->
         \A i \in DOMAIN tree.elements : Safe(tree.elements[i], allowMethods)
    [] tree.node = "Unary" -> Safe(tree.argument, allowMethods)
    [] tree.node = "Binary" -> Safe(tree.left, allowMethods) /\ Safe(tree.right, allowMethods)
    [] tree.node = "Call" -> SafeCall(tree, allowMethods)
    [] tree.node = "Object" ->
         \A i \in DOMAIN tree.properties :
           LET v == tree.properties[i].value IN v.node = "Function" \/ Safe(v, allowMethods)
    [] OTHER -> FALSE  \* a function elsewhere, a computed key, anything else

-----------------------------------------------------------------------------
(* eval.ts                                                                     *)

Primitives == {"Number", "Numeral", "String", "computed", "false", "null"} \cup Globals
IsObject(v) == v.type \notin Primitives

UnaryExpression(op, v) ==
  CASE op = "-" /\ v.type = "Number" -> Number(-v.n)
    [] op \in {"-", "+", "!", "~"} -> Computed
    [] OTHER -> Failure

BinaryExpression(op, l, r) ==
  CASE op = "+" /\ l.type = "Number" /\ r.type = "Number" -> Number(l.n + r.n)
    [] op = "instanceof" /\ r.type \notin {"Function", "Class"} -> Failure
    [] op = "in" /\ ~IsObject(r) -> Failure
    [] OTHER -> Computed

\* A method of the class that getClass(member) returns.
OnClass(member, name, args) ==
  CASE name \notin ClassMethods(member) -> Failure
    [] name \in {"createFromHexString", "createFromBase64"} -> Bytes(0, Arg(args, 1))
    [] name = "constructor" -> Function
    [] name = "valueOf" -> IF member = "Binary" THEN Class ELSE Function
    [] OTHER -> Computed

\* The constructor of a value's class, called without `new`: no class of bson's allows that.
ByConstructor(v) ==
  CASE v.type = "Array" -> [type |-> "Array", items |-> <<>>]
    [] v.type = "Document" -> Document(<<>>)
    [] v.type \in {"Function", "Class"} -> Function
    [] v.type = "RegExp" -> [type |-> "RegExp", pattern |-> "(?:)", flags |-> ""]
    [] v.type = "Date" \/ ~IsObject(v) -> Computed
    [] OTHER -> Failure

\* A method of a value.
OnValue(v, name, args) ==
  CASE v.type \in {"undefined", "null"} -> Failure
    [] name = "constructor" -> ByConstructor(v)
    [] name = "valueOf" -> IF v.type \in {"Date", "Double", "Int32"} THEN Computed ELSE v
    [] v.type = "Array" /\ name = "concat" ->
         [v EXCEPT !.items = @ \o FlattenSeq([i \in DOMAIN args |->
            IF args[i].type = "Array" THEN args[i].items ELSE <<args[i]>>])]
    [] \/ name = "toString"
       \/ v.type = "Date" /\ name = "getTime"
       \/ v.type = "Date" /\ name = "toISOString" /\ v.when # "invalid" -> Computed
    [] OTHER -> Failure

RECURSIVE Walk(_)
\* What f makes of the values of some trees, unless one of them fails.
Walked(trees, f(_)) ==
  LET values == [i \in DOMAIN trees |-> Walk(trees[i])]
  IN IF \E i \in DOMAIN values : values[i] = Failure THEN Failure ELSE f(values)
MemberExpression(call) ==
  IF call.object = NoValue
  THEN Walked(call.args, LAMBDA args : Construct(call.name, call.new, args))
  ELSE IF call.object.node = "Identifier"
  THEN Walked(call.args, LAMBDA args : OnClass(call.object.name, call.name, args))
  ELSE Walked(<<call.object>> \o call.args,
              LAMBDA values : OnValue(values[1], call.name, Tail(values)))
Walk(tree) ==
  CASE tree.node = "Identifier" -> IF tree.name \in Globals THEN Simple(tree.name) ELSE Failure
    [] tree.node = "Literal" -> tree.value
    [] tree.node = "Array" ->
         Walked(tree.elements, LAMBDA values : [type |-> "Array", items |-> values])
    [] tree.node = "Unary" ->
         Walked(<<tree.argument>>, LAMBDA values : UnaryExpression(tree.op, values[1]))
    [] tree.node = "Binary" ->
         Walked(<<tree.left, tree.right>>,
                LAMBDA values : BinaryExpression(tree.op, values[1], values[2]))
    [] tree.node = "Call" -> MemberExpression(tree)
    [] tree.node = "Object" ->
         Walked([i \in DOMAIN tree.properties |-> tree.properties[i].value],
                LAMBDA values : Document([i \in DOMAIN values |->
                                            Field(tree.properties[i].name, values[i])]))
    [] tree.node = "Function" -> Computed  \* its source
    [] OTHER -> Failure

-----------------------------------------------------------------------------
(* index.ts of shell-bson-parser.  Both options follow from the mode here:   *)
(* query-parser, the only one that calls it, always asks for the loose mode. *)

ModeOptions(mode) ==
  [allowMethods |-> mode \in {"extended", "loose"}, allowComments |-> mode = "loose"]

TextAccepted(text, options) ==
  (~text.comments \/ options.allowComments) /\ Safe(text.tree, options.allowMethods)

EmptyString == String("")

Parse(text, mode) ==
  IF text \in {Garbled, BlankText} THEN Failure
  ELSE IF TextAccepted(text, ModeOptions(mode)) THEN Walk(text.tree) ELSE EmptyString

-----------------------------------------------------------------------------
(* stringify.ts                                                                *)

Signed(n) == IF n < Half THEN n ELSE n - 2 * Half

NumberText(n) == IF n < 0 THEN Unary("-", Literal(Number(-n))) ELSE Literal(Number(n))

\* JSON.stringify(), of what a scope may hold.
RECURSIVE Json(_)
Json(v) ==
  CASE v.type = "Document" ->
         LET kept == SelectSeq(v.fields, LAMBDA f : f.value # UndefinedValue)
         IN Object([i \in DOMAIN kept |-> Field(kept[i].name, Json(kept[i].value))])
    [] v.type \in {"NaN", "Infinity"} -> Literal(Simple("null"))
    [] v.type = "ObjectId" -> Literal(String(v.text))
    [] v.type = "Number" -> NumberText(v.n)
    [] OTHER -> Literal(v)

RECURSIVE ToJSString(_)
\* Deviation: an undefined db is left out although fields follow.
FieldsInPlaceOfDb(v) ==
  <<Literal(v.collection), ToJSString(v.oid)>>
  \o (IF v.db # UndefinedValue THEN <<Literal(v.db)>> ELSE <<>>)
  \o (IF v.fields.fields # <<>> THEN <<ToJSString(v.fields)>> ELSE <<>>)

\* The db has to be there for the fields to be in their place.
DBRefArgs(v) ==
  <<Literal(v.collection), ToJSString(v.oid)>>
  \o (IF v.db # UndefinedValue THEN <<Literal(v.db)>>
      ELSE IF v.fields.fields # <<>> THEN <<Name("undefined")>> ELSE <<>>)
  \o (IF v.fields.fields # <<>> THEN <<ToJSString(v.fields)>> ELSE <<>>)

WithFlags(name, pattern, flags) ==
  Call(name, <<Literal(String(pattern))>>
             \o (IF flags = "" THEN <<>> ELSE <<Literal(String(flags))>>))

ToJSString(v) ==
  CASE v.type = "Code" ->
         Call("Code", <<Literal(String(v.code))>>
                      \o (IF v.scope = NoValue THEN <<>> ELSE <<Json(v.scope)>>))
    [] v.type = "ObjectId" -> Call("ObjectId", <<Literal(String(v.text))>>)
    [] v.type = "Binary" ->
         IF v.subType = 4 /\ v.bytes = "uuid" THEN Call("UUID", <<Literal(String(v.bytes))>>)
         ELSE Call("BinData", <<NumberText(v.subType), Literal(String(v.bytes))>>)
    [] v.type = "DBRef" -> Call("DBRef", DBRefArgs(v))
    [] v.type = "Timestamp" ->
         Call("Timestamp", <<Object(<<Field("t", NumberText(Signed(v.t))),
                                      Field("i", NumberText(Signed(v.i)))>>)>>)
    [] v.type = "Long" -> Call("NumberLong", <<Literal(Numeral(v.n))>>)
    [] v.type = "Decimal128" -> Call("NumberDecimal", <<Literal(Numeral(v.n))>>)
    [] v.type = "Double" -> Call("Double", <<Literal(Numeral(v.n))>>)
    [] v.type = "Int32" -> Call("NumberInt", <<Literal(Numeral(v.n))>>)
    [] v.type \in {"MaxKey", "MinKey"} -> Call(v.type, <<>>)
    [] v.type = "Date" -> Call("ISODate", <<Literal(String(v.when))>>)
    [] v.type = "RegExp" ->
         WithFlags("RegExp", v.pattern, IF v.flags \in {"g", "i", "m"} THEN v.flags ELSE "")
    [] v.type = "BSONRegExp" ->
         WithFlags(IF Readable(v.pattern, v.flags) THEN "RegExp" ELSE "BSONRegExp",
                   v.pattern, v.flags)
    [] v.type = "BSONSymbol" -> Object(<<Field("value", Literal(String(v.text)))>>)
    [] v.type = "Document" ->
         Object([i \in DOMAIN v.fields |->
                   Field(v.fields[i].name, ToJSString(v.fields[i].value))])
    [] v.type = "Array" -> Tree([i \in DOMAIN v.items |-> ToJSString(v.items[i])])
    [] v.type = "Number" -> NumberText(v.n)
    [] v.type \in Globals -> Name(v.type)
    [] v.type \in {"Function", "Class"} -> [node |-> v.type]  \* the source
    [] OTHER -> Literal(v)

-----------------------------------------------------------------------------
(* index.ts of query-parser                                                    *)

False == Simple("false")
Null == Simple("null")

IsEmptyText(text) == text \in {BlankText, Text(Object(<<>>))}
IsEmptyValue(v) == v \in {Null, UndefinedValue, EmptyString, [type |-> "Array", items |-> <<>>]}

SortDocumentValue(v) ==
  \/ v \in {Number(1), Number(-1), String("asc"), String("desc")}
  \/ v.type = "Document" /\ \E i \in DOMAIN v.fields : v.fields[i].name = "$meta"

\* What _.every() goes through: in objects that are no documents nothing, or no sort values.
SortOK(v) ==
  IF v.type = "Array"
  THEN \A i \in DOMAIN v.items :
         LET pair == v.items[i] IN
         /\ pair.type = "Array" /\ Len(pair.items) = 2
         /\ pair.items[1].type \in {"String", "Numeral"} /\ SortDocumentValue(pair.items[2])
  ELSE IF v.type = "Document"
  THEN \A i \in DOMAIN v.fields : SortDocumentValue(v.fields[i].value)
  ELSE v.type \in {"Date", "RegExp", "MaxKey", "MinKey", "Map", "Function"}

CollationOptions ==
  [locale |-> {String("simple"), String("de")}, strength |-> {Number(1), Number(2)}]

\* The entries of a number are none, those of a string its letters.
CollationOK(v) ==
  CASE v.type = "Document" ->
         \A i \in DOMAIN v.fields :
           /\ v.fields[i].name \in DOMAIN CollationOptions
           /\ v.fields[i].value \in CollationOptions[v.fields[i].name]
    [] v.type = "Array" -> v.items = <<>>
    [] OTHER -> v = EmptyString \/ v.type \in {"Number", "false", "Infinity", "NaN", "Date",
                                              "RegExp", "MaxKey", "MinKey", "Map", "Function"}

Default(what) ==
  CASE what = "filter" -> Document(<<>>)
    [] what = "maxTimeMS" -> Number(60000)
    [] what \in {"skip", "limit"} -> Number(0)
    [] OTHER -> Null

DocumentFields == {"filter", "project", "sort", "hint", "collation"}
NumberFields == {"skip", "limit", "maxTimeMS"}

FitFor(what, v) ==
  /\ v # Failure
  /\ CASE what = "filter" -> TRUE
       [] what = "project" -> IsObject(v)
       [] what = "sort" -> SortOK(v)
       [] what = "hint" -> v.type \in {"String", "Numeral"} \/ (IsObject(v) /\ v.type # "Array")
       [] what = "collation" -> CollationOK(v)

\* Numbers are read from their digits.
IsDigits(text) ==
  text \notin {Garbled, BlankText} /\ ~text.comments /\ text.tree.node = "Literal"
  /\ text.tree.value.type = "Number"

\* validate()
Verdict(what, text) ==
  LET v == Parse(text, "loose") IN
  CASE IsEmptyText(text) -> Default(what)
    [] what \in NumberFields -> IF IsDigits(text) THEN text.tree.value ELSE False
    [] what = "sort" /\ v # Failure /\ IsEmptyValue(v) -> Default(what)
    [] OTHER -> IF FitFor(what, v) THEN v ELSE False

-----------------------------------------------------------------------------
(* An editor, empty at first: a value is shown as text, and the text is read *)
(* again; or a text is typed.                                                *)

TextInit ==
  original = NoValue /\ queryValue = NoValue /\ queryText = BlankText /\ verdict = NoValue

OpenValue(v) ==
  /\ queryText = BlankText
  /\ original' = v /\ queryValue' = v
  /\ queryText' = BlankText /\ verdict' = NoValue

Show ==
  /\ queryValue \notin {NoValue, Failure}
  /\ queryText' = Text(ToJSString(queryValue)) /\ verdict' = NoValue
  /\ UNCHANGED <<original, queryValue>>

Type(text) ==
  /\ queryText = BlankText
  /\ queryText' = text /\ original' = NoValue /\ queryValue' = NoValue /\ verdict' = NoValue

\* parseFilter()
ReadText ==
  /\ queryText # BlankText
  /\ LET v == IF IsEmptyText(queryText) THEN Default("filter") ELSE Parse(queryText, "loose")
     IN /\ queryValue' = v
        /\ original' = IF original = NoValue /\ v # Failure THEN v ELSE original
  /\ UNCHANGED <<queryText, verdict>>

Validate(what) ==
  /\ verdict' = [what |-> what, result |-> Verdict(what, queryText)]
  /\ UNCHANGED <<original, queryValue, queryText>>

TextNext ==
  \/ \E v \in QueryValues : OpenValue(v)
  \/ Show \/ ReadText
  \/ \E text \in QueryTexts : Type(text)
  \/ \E what \in DocumentFields \cup NumberFields : Validate(what)

TextSpec == TextInit /\ [][TextNext]_textVars

TextTypeOK ==
  /\ \A v \in {original, queryValue} : v \in {NoValue, Failure} \/ "type" \in DOMAIN v
  /\ queryText \in {Garbled, BlankText} \/ DOMAIN queryText = {"tree", "comments"}
  /\ verdict = NoValue \/ DOMAIN verdict = {"what", "result"}

-----------------------------------------------------------------------------
(* What is shown is what was meant.                                           *)

\* The values that their text stands for: not symbols, which are shown as documents, not
\* patterns that only a server can read, not a flag that is left out (at once, or the next
\* time), not what JSON makes something else of in a scope, nor functions, nor dates that
\* ISODate() refuses, nor timestamps one half of which has its highest bit set.
RECURSIVE Lossless(_)
Lossless(v) ==
  CASE v.type = "Document" -> \A i \in DOMAIN v.fields : Lossless(v.fields[i].value)
    [] v.type = "Array" -> \A i \in DOMAIN v.items : Lossless(v.items[i])
    [] v.type = "DBRef" -> Lossless(v.oid) /\ Lossless(v.fields) /\ ~IsObject(v.collection)
    [] v.type = "Code" ->
         v.scope = NoValue \/ \A i \in DOMAIN v.scope.fields :
           LET held == v.scope.fields[i].value IN ~IsObject(held) /\ held.type \notin Globals
    [] v.type = "Timestamp" -> v.t < Half /\ v.i < Half
    [] v.type = "Date" -> v.when = "within"
    [] v.type \in {"RegExp", "BSONRegExp"} ->
         Readable(v.pattern, v.flags) /\ v.flags \in {"", "g", "i", "m"}
    [] OTHER -> v.type \notin {"BSONSymbol", "Map", "Function", "Class"}

\* A pattern is read as one of JavaScript's.
RECURSIVE Canonical(_)
Canonical(v) ==
  CASE v.type = "Document" ->
         Document([i \in DOMAIN v.fields |->
                     Field(v.fields[i].name, Canonical(v.fields[i].value))])
    [] v.type = "Array" -> [v EXCEPT !.items = [i \in DOMAIN @ |-> Canonical(@[i])]]
    [] v.type = "DBRef" -> [v EXCEPT !.oid = Canonical(@), !.fields = Canonical(@)]
    [] v.type = "BSONRegExp" -> [v EXCEPT !.type = "RegExp"]
    [] OTHER -> v

\* A value stays what it is however often it is shown and read.
ShownIsRead ==
  original # NoValue /\ Lossless(original) => queryValue \in {original, Canonical(original)}

\* A tree without calls, and without the operators that are not executed.
RECURSIVE Calm(_)
Calm(tree) ==
  CASE tree.node \in {"Literal", "Identifier", "Function"} -> TRUE
    [] tree.node = "Array" -> \A i \in DOMAIN tree.elements : Calm(tree.elements[i])
    [] tree.node = "Unary" -> tree.op \in {"-", "+", "!", "~"} /\ Calm(tree.argument)
    [] tree.node = "Binary" ->
         tree.op \notin {"in", "instanceof"} /\ Calm(tree.left) /\ Calm(tree.right)
    [] tree.node = "Object" -> \A i \in DOMAIN tree.properties : Calm(tree.properties[i].value)
    [] OTHER -> FALSE

\* What the check lets through can be executed.
AcceptedRuns ==
  /\ queryText \notin {Garbled, BlankText}
  /\ TextAccepted(queryText, ModeOptions("loose")) /\ Calm(queryText.tree)
  => Walk(queryText.tree) # Failure

\* A text is valid as what it is read as, or as what stands for an empty one; a text that the
\* check rejects is read as an empty string, which is valid in some places and no sort.
VerdictIsRight ==
  verdict # NoValue =>
    LET read == Parse(queryText, "loose") IN
    \/ verdict.result = False
    \/ verdict.result = read /\ read # Failure
    \/ verdict.result = Default(verdict.what)
       /\ \/ IsEmptyText(queryText)
          \/ verdict.what = "sort" /\ read # Failure /\ IsEmptyValue(read)

QueriesAreRead == ShownIsRead /\ AcceptedRuns /\ VerdictIsRight
=============================================================================
