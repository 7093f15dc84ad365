--------------------------- MODULE SchemaAnalyzer ---------------------------
(* mongodb-schema: one analyzer that counts the fields and types of documents. *)
(* analyzeDoc() awaits before every field and type, so that other calls, and   *)
(* getResult(), run in between.  The tree of fields and types is a set of      *)
(* nodes; a document is the sequence of the nodes it visits.                   *)
EXTENDS Integers, Sequences, FiniteSets

CONSTANTS Fields,     \* the fields that documents may have, nested ones too
          Types,      \* the types of the fields
          Parent,     \* the field of a type; the type a field is in, or Root
          Documents,  \* the calls of analyzeDoc()
          Visits,     \* the nodes that each document visits
          Limit,      \* distinctFieldsAbortThreshold
          Root        \* the root of the schema

Nodes == Fields \cup Types
ChildrenOf(n) == {m \in Nodes : Parent[m] = n}

\* The visits of a document are the walk of a tree: after a field comes the type of its
\* value, and there alone; a document has a field once, at the top and in each value that is
\* a document.
IsWalk(v) ==
  \A i \in DOMAIN v :
    /\ v[i] \in Fields => /\ i + 1 \in DOMAIN v /\ v[i + 1] \in Types
                          /\ Parent[v[i + 1]] = v[i]
    /\ Parent[v[i]] \in Fields => i > 1 /\ v[i - 1] = Parent[v[i]]
    /\ v[i] \in Fields /\ Parent[v[i]] = Root => \A j \in DOMAIN v : v[j] = v[i] => j = i
    /\ v[i] \in Fields /\ Parent[v[i]] # Root =>
         \E k \in 1..i - 1 : v[k] = Parent[v[i]] /\ \A j \in k + 1..i - 1 : v[j] # v[i]

ASSUME SchemaAssumption ==
  /\ Fields \cap Types = {} /\ Root \notin Nodes
  /\ Parent \in [Nodes -> Nodes \cup {Root}]
  /\ Visits \in [Documents -> Seq(Nodes)] /\ \A d \in Documents : IsWalk(Visits[d])
  /\ Limit \in Nat \ {0}

VARIABLES
  counts,      \* count of each field and type, and under Root the root's
  known,       \* the fields that are in the schema
  fieldsCount, \* the field of that name
  finalized,   \* the field of that name
  schema,      \* schemaResult: the counts it was made from
  doc,         \* the next visit of each call, 0 before it
  broken,      \* the calls that threw
  premature    \* was schemaResult made while a document was being analyzed?

schemaVars == <<counts, known, fieldsCount, finalized, schema, doc, broken, premature>>

Nothing == [n \in Nodes \cup {Root} |-> 0]

SchemaInit ==
  /\ counts = Nothing /\ known = {} /\ fieldsCount = 0
  /\ finalized = TRUE /\ schema = Nothing
  /\ doc = [d \in Documents |-> 0]
  /\ broken = {} /\ premature = FALSE

Analyzed(d) == doc[d] > Len(Visits[d]) + 1
Underway == {d \in Documents : doc[d] > 0 /\ ~Analyzed(d)} \ broken

\* Deviation: the result is kept.
NotReset == finalized

Reset == FALSE

AnalyzeDoc(d) ==
  /\ doc[d] = 0
  /\ doc' = [doc EXCEPT ![d] = 1]
  /\ finalized' = Reset
  /\ premature' = (premature /\ finalized')
  /\ UNCHANGED <<counts, known, fieldsCount, schema, broken>>

\* allowAbort(): the signal ends the call between two visits.
AbortAnalysis(d) ==
  /\ d \in Underway /\ doc[d] <= Len(Visits[d])
  /\ broken' = broken \cup {d}
  /\ UNCHANGED <<counts, known, fieldsCount, finalized, schema, doc, premature>>

\* increaseFieldCount() throws after the field was put into the schema.
AboveLimit(n) == n \in Fields \ known /\ fieldsCount + 1 > Limit

\* addToField and addToType.
Visit(d) ==
  /\ d \in Underway /\ doc[d] <= Len(Visits[d])
  /\ LET n == Visits[d][doc[d]]
     IN /\ known' = known \cup ({n} \cap Fields)
        /\ fieldsCount' = IF n \in Fields \ known THEN fieldsCount + 1 ELSE fieldsCount
        /\ IF AboveLimit(n) THEN broken' = broken \cup {d} /\ UNCHANGED <<counts, doc>>
           ELSE /\ counts' = [counts EXCEPT ![n] = @ + 1]
                /\ doc' = [doc EXCEPT ![d] = @ + 1]
                /\ UNCHANGED broken
  /\ UNCHANGED <<finalized, schema, premature>>

\* The root is counted when everything in the document was.
FinishDoc(d) ==
  /\ d \in Underway /\ doc[d] = Len(Visits[d]) + 1
  /\ doc' = [doc EXCEPT ![d] = @ + 1]
  /\ counts' = [counts EXCEPT ![Root] = @ + 1]
  /\ UNCHANGED <<known, fieldsCount, finalized, schema, broken, premature>>

GetResult ==
  /\ ~finalized
  /\ finalized' = TRUE
  /\ schema' = counts
  /\ premature' = (Underway # {})
  /\ UNCHANGED <<counts, known, fieldsCount, doc, broken>>

SchemaNext ==
  \/ \E d \in Documents :
       AnalyzeDoc(d) \/ AbortAnalysis(d) \/ Visit(d) \/ FinishDoc(d)
  \/ GetResult

SchemaSpec == SchemaInit /\ [][SchemaNext]_schemaVars

-----------------------------------------------------------------------------
(* What finalizeSchema() makes of the counts: a field is there with         *)
(* probability count / count of its parent, Undefined is the rest, and the  *)
(* probabilities of its types add up with that.                             *)

\* The sum is the number of all that was counted.
CountedTypes(c, f) == UNION {{t} \X (1..c[t]) : t \in ChildrenOf(f)}
SumOfTypes(c, f) == Cardinality(CountedTypes(c, f))
Undefined(c, f) == c[Parent[f]] - c[f]

\* The types of the variables.
SchemaTypeOK ==
  /\ counts \in [Nodes \cup {Root} -> Nat] /\ schema \in [Nodes \cup {Root} -> Nat]
  /\ known \subseteq Fields /\ fieldsCount \in Nat
  /\ finalized \in BOOLEAN /\ premature \in BOOLEAN
  /\ doc \in [Documents -> Nat] /\ broken \subseteq Documents

\* When no document is being analyzed, what getResult() would return is about
\* all of them (unless it was called too early and nothing came after), and as
\* long as no analysis was broken off no probability exceeds 1, a field's types
\* and Undefined cover its parent, and the limit on fields is kept.
ResultIsTrue ==
  /\ finalized /\ Underway = {} => schema = counts \/ premature
  /\ broken = {} =>
       /\ fieldsCount <= Limit
       /\ finalized /\ ~premature =>
            \A f \in Fields : Undefined(schema, f) >= 0
                              /\ SumOfTypes(schema, f) = schema[f]
=============================================================================
