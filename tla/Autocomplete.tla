---------------------------- MODULE Autocomplete ----------------------------
(* mongodb-ts-autocomplete: overlapping calls of autocomplete(), what they    *)
(* know of the collections and their schemas, the cache in front of the       *)
(* server, and the files the TypeScript language service completes from.      *)
EXTENDS Naturals

CONSTANTS
  Completions,  \* calls of autocomplete()
  Connections, Databases, Collections,
  Schemas,      \* schemas of collections that have documents
  Unset,        \* nothing
  MaxEvents     \* bound of the model: questions, changes of the server and of the
                \* database in use, and entries of the cache that expire

ConnectionDBs == Connections \X Databases

\* What a call was asked and what the server said.
CallAnswers ==
  [at : ConnectionDBs, coll : Collections, schema : Schemas, names : SUBSET Collections]

ASSUME AutoAssumption ==
  Unset \notin ConnectionDBs \cup Collections \cup Schemas \cup CallAnswers

VARIABLES
  names, serverSchema,        \* the server: the collections of a database, their schemas
  inUse,                      \* currentDatabaseAndConnection(), or Unset
  cachedNames, cachedSchema,  \* the NodeCache; None where it has nothing
  connectionSchemas,          \* for each database its collections, with their schema or
                  \* Unset
  previousConnectionDB, previousCollectionName,
  schemaFile,     \* the last text of <connection>-schema.ts
  globals,        \* the database current-globals.ts refers to
  ask,            \* the calls
  last,           \* ghost: the last call, if it was answered alone, or Unset
  events          \* how many of them there were

serverVars == <<names, serverSchema, inUse>>
cacheVars == <<cachedNames, cachedSchema>>
askedVars == <<previousConnectionDB, previousCollectionName>>
fileVars == <<schemaFile, globals>>
autoVars == <<serverVars, cacheVars, askedVars, connectionSchemas, fileVars, ask, last,
              events>>

Tables == UNION {[S -> Schemas \cup {Unset}] : S \in SUBSET Collections}

\* A call: what it was asked, what it noticed on the way (the flags are those of
\* autocomplete()), and what the server said; fetched tells if that is still on
\* its way or came from the cache.  Ghosts: was it asked while no other was
\* running, before and after, and what was the last one before.
NotAsked == [pc |-> "idle", at |-> Unset, coll |-> Unset, fetched |-> FALSE,
         schema |-> Unset, names |-> {}, isConnectionDBChanged |-> FALSE,
         isCollectionNameChanged |-> FALSE, isSchemaChanged |-> FALSE,
         alone |-> FALSE, before |-> Unset]

Waiting(p) == ask[p].pc \in {"schema", "names"}

\* A call that waits for what the cache has goes on before anything else happens.
Quiescent == \A p \in Completions : Waiting(p) => ask[p].fetched

\* Deviation: a list of names where a table of schemas is expected.
NameOf(table, c) == IF c \in DOMAIN table THEN table[c] ELSE c

\* A lookup in an object without a prototype: a missing entry is undefined.
Entry(table, c) == IF c \in DOMAIN table THEN table[c] ELSE Unset

\* Schemas of different collections are never compared: they may start alike.
AutoInit ==
  /\ names \in [ConnectionDBs -> (SUBSET Collections) \ {{}}]
  /\ \E s \in Schemas : serverSchema = [n \in ConnectionDBs \X Collections |-> s]
  /\ inUse \in ConnectionDBs
  /\ cachedNames = [d \in ConnectionDBs |-> Unset]
  /\ cachedSchema = [n \in ConnectionDBs \X Collections |-> Unset]
  /\ connectionSchemas = [d \in ConnectionDBs |-> [c \in {} |-> Unset]]
  /\ previousConnectionDB = Unset /\ previousCollectionName = Unset
  /\ schemaFile = [k \in Connections |-> Unset] /\ globals = Unset
  /\ ask = [p \in Completions |-> NotAsked]
  /\ last = Unset
  /\ events = 0

-----------------------------------------------------------------------------
(* The world around.                                                          *)

\* Somebody creates or drops a collection, or stores documents of another shape.
ServerChanges ==
  /\ Quiescent /\ events < MaxEvents
  /\ events' = events + 1
  /\ \/ \E d \in ConnectionDBs, S \in SUBSET Collections :
          names' = [names EXCEPT ![d] = S] /\ UNCHANGED serverSchema
     \/ \E n \in ConnectionDBs \X Collections, s \in Schemas :
          serverSchema' = [serverSchema EXCEPT ![n] = s] /\ UNCHANGED names
  /\ UNCHANGED <<inUse, cacheVars, askedVars, connectionSchemas, fileVars, ask, last>>

\* The user changes the database or disconnects.
Use ==
  /\ Quiescent /\ events < MaxEvents
  /\ events' = events + 1
  /\ inUse' \in (ConnectionDBs \cup {Unset}) \ {inUse}
  /\ UNCHANGED <<names, serverSchema, cacheVars, askedVars, connectionSchemas, fileVars,
                 ask, last>>

\* A time to live has passed.
CacheExpires ==
  /\ Quiescent /\ events < MaxEvents
  /\ events' = events + 1
  /\ \/ \E d \in ConnectionDBs : /\ cachedNames[d] # Unset
                          /\ cachedNames' = [cachedNames EXCEPT ![d] = Unset]
                          /\ UNCHANGED cachedSchema
     \/ \E n \in ConnectionDBs \X Collections :
          /\ cachedSchema[n] # Unset
          /\ cachedSchema' = [cachedSchema EXCEPT ![n] = Unset]
          /\ UNCHANGED cachedNames
  /\ UNCHANGED <<serverVars, askedVars, connectionSchemas, fileVars, ask, last>>

-----------------------------------------------------------------------------
(* autocomplete().                                                            *)

\* isEqual() tells that nothing changed, where the name says the contrary.
ConnectionDBChanged(d) == previousConnectionDB = d

\* Deviations: the flag is the comparison with the schema alone; only new
\* collections count; collections that are gone are kept.
NeverTheSame(table, c, s) == FALSE
NewCollections(table, S) == \E c \in S : c \notin DOMAIN table
ListedAndOld(table, S) == [c \in S \cup DOMAIN table |-> Entry(table, c)]

SchemaChanged(table, c, s) == Entry(table, c) = s

\* setCollectionNames(): a collection without a schema counts as a new one.
CollectionsChanged(table, S) ==
  (\E c \in S : Entry(table, c) = Unset) \/ (\E c \in DOMAIN table : c \notin S)

ListedOnly(table, S) == [c \in S |-> Entry(table, c)]

\* The text of the schema file: all that is known of the connection, and which
\* collection's schema queries have.
SchemaCode(d, table, c, S) ==
  [tables |-> [b \in Databases |->
                 IF b = d[2] THEN table ELSE connectionSchemas[<<d[1], b>>]],
   schemaType |-> IF c \in S THEN <<d[2], c>> ELSE Unset]

\* schemaInformationForCollection(): from the cache or from the server, which
\* may answer at any later time.
Ask(p, c) ==
  /\ Quiescent /\ ~Waiting(p) /\ events < MaxEvents
  /\ events' = events + 1
  /\ inUse # Unset
  /\ LET hit == cachedSchema[<<inUse, c>>] # Unset IN
     ask' = [q \in Completions |->
       IF q # p THEN [ask[q] EXCEPT !.alone = FALSE]
       ELSE [pc |-> "schema", at |-> inUse, coll |-> c, fetched |-> ~hit,
             schema |-> IF hit THEN cachedSchema[<<inUse, c>>]
                        ELSE serverSchema[<<inUse, c>>],
             names |-> {}, isConnectionDBChanged |-> ConnectionDBChanged(inUse),
             isCollectionNameChanged |-> previousCollectionName # c,
             isSchemaChanged |-> FALSE,
             alone |-> \A r \in Completions : ~Waiting(r), before |-> last]]
  /\ last' = Unset
  /\ previousConnectionDB' = inUse /\ previousCollectionName' = c
  /\ UNCHANGED <<serverVars, cacheVars, connectionSchemas, fileVars>>

\* Without a connection there is nothing to complete.
AskOffline(p) ==
  /\ Quiescent /\ ~Waiting(p) /\ events < MaxEvents
  /\ events' = events + 1
  /\ inUse = Unset
  /\ previousConnectionDB' = Unset /\ previousCollectionName' = Unset
  /\ ask' = [q \in Completions |-> IF q = p THEN NotAsked ELSE [ask[q] EXCEPT !.alone = FALSE]]
  /\ last' = Unset
  /\ UNCHANGED <<serverVars, cacheVars, connectionSchemas, fileVars>>

\* The schema is there: addCollectionSchema(), then collectionsForDatabase().
GotSchema(p) ==
  LET r == ask[p]  d == r.at  hit == cachedNames[d] # Unset IN
  /\ r.pc = "schema" /\ (r.fetched => Quiescent)
  /\ cachedSchema' = IF r.fetched THEN [cachedSchema EXCEPT ![<<d, r.coll>>] = r.schema]
                     ELSE cachedSchema
  /\ connectionSchemas' = [connectionSchemas EXCEPT ![d] =
       [c \in DOMAIN @ \cup {r.coll} |-> IF c = r.coll THEN r.schema ELSE @[c]]]
  /\ ask' = [ask EXCEPT ![p] =
       [r EXCEPT !.pc = "names", !.fetched = ~hit,
                 !.names = IF hit THEN cachedNames[d] ELSE names[d],
                 !.isSchemaChanged = SchemaChanged(connectionSchemas[d], r.coll, r.schema)]]
  /\ UNCHANGED <<serverVars, cachedNames, askedVars, fileVars, last, events>>

WritesSchema(p) ==
  ask[p].isSchemaChanged \/ CollectionsChanged(connectionSchemas[ask[p].at], ask[p].names)

WritesGlobals(p) ==
  WritesSchema(p) \/ ask[p].isConnectionDBChanged \/ ask[p].isCollectionNameChanged

\* The collections are there: setCollectionNames(), the files, and the answer.
GotNames(p) ==
  LET r == ask[p]  d == r.at  table == ListedOnly(connectionSchemas[d], r.names) IN
  /\ r.pc = "names" /\ (r.fetched => Quiescent)
  /\ cachedNames' = IF r.fetched THEN [cachedNames EXCEPT ![d] = r.names] ELSE cachedNames
  /\ connectionSchemas' = [connectionSchemas EXCEPT ![d] = table]
  /\ schemaFile' = IF WritesSchema(p)
                   THEN [schemaFile EXCEPT ![d[1]] = SchemaCode(d, table, r.coll, r.names)]
                   ELSE schemaFile
  /\ globals' = IF WritesGlobals(p) THEN d ELSE globals
  /\ ask' = [ask EXCEPT ![p] = NotAsked]
  /\ last' = IF r.alone
             THEN [at |-> d, coll |-> r.coll, schema |-> r.schema, names |-> r.names]
             ELSE Unset
  /\ UNCHANGED <<serverVars, cachedSchema, askedVars, events>>

\* The server does not answer: the call is rejected, what it noted stays.
Fails(p) ==
  /\ Waiting(p) /\ ask[p].fetched /\ Quiescent
  /\ ask' = [ask EXCEPT ![p] = NotAsked]
  /\ UNCHANGED <<serverVars, cacheVars, askedVars, connectionSchemas, fileVars, last, events>>

AutoNext ==
  \/ ServerChanges \/ Use \/ CacheExpires
  \/ \E p \in Completions :
       \/ \E c \in Collections : Ask(p, c)
       \/ AskOffline(p) \/ GotSchema(p) \/ GotNames(p) \/ Fails(p)

AutoSpec == AutoInit /\ [][AutoNext]_autoVars

-----------------------------------------------------------------------------
(* Properties.                                                                *)

\* The types of the variables, and a call that waits for names has a schema.
AutoTypeOK ==
  /\ inUse \in ConnectionDBs \cup {Unset}
  /\ cachedNames \in [ConnectionDBs -> (SUBSET Collections) \cup {Unset}]
  /\ cachedSchema \in [ConnectionDBs \X Collections -> Schemas \cup {Unset}]
  /\ connectionSchemas \in [ConnectionDBs -> Tables]
  /\ globals \in ConnectionDBs \cup {Unset}
  /\ \A p \in Completions :
       /\ ask[p].pc \in {"idle", "schema", "names"}
       /\ Waiting(p) => /\ ask[p].at \in ConnectionDBs /\ ask[p].coll \in Collections
                        /\ ask[p].schema \in Schemas /\ ask[p].names \subseteq Collections

\* Collections that were dropped are forgotten: while a list of collections is
\* cached and nobody asks about its database, exactly those are known, whichever
\* of several lists under way arrived last and whoever failed in between.
KnownAsListed ==
  \A d \in ConnectionDBs :
    cachedNames[d] # Unset /\ (\A p \in Completions : Waiting(p) => ask[p].at # d)
      => DOMAIN connectionSchemas[d] = cachedNames[d]

\* What call p is answered from says what is known at that moment, of the
\* database and the collection it asked about.
FromCurrentFiles(p) ==
  LET r == ask[p] IN
  /\ globals' = r.at
  /\ schemaFile'[r.at[1]] =
       [tables |-> [b \in Databases |-> connectionSchemas'[<<r.at[1], b>>]],
        schemaType |-> IF r.coll \in r.names THEN <<r.at[2], r.coll>> ELSE Unset]

\* Call p was asked before, nobody asked anything else in between, and it gets
\* the same from the server.
IsRepeated(p) ==
  /\ ask[p].alone
  /\ ask[p].before = [at |-> ask[p].at, coll |-> ask[p].coll,
                      schema |-> ask[p].schema, names |-> ask[p].names]

\* Some collection of the database was never asked about.
IsPartlyKnown(p) == \E c \in ask[p].names : connectionSchemas'[ask[p].at][c] = Unset

\* "hit the same collection & schema and everythign twice" (the test at
\* autocompleter.spec.ts:268): a question that is asked again is answered from
\* current files, whatever the first time was answered from.  And as long as
\* some collection of the database is unknown, every answer is from current
\* files, however calls overlap, fail, and change the database:
\* setCollectionNames() always reports a change then.  All the while what is
\* known is what is listed.
AnswersAreCurrent ==
  [][/\ KnownAsListed'
     /\ \A p \in Completions :
          GotNames(p) /\ (IsRepeated(p) \/ IsPartlyKnown(p)) => FromCurrentFiles(p)]_autoVars
=============================================================================
