------------------------------ MODULE Database ------------------------------
(***************************************************************************)
(* The database interface of a program: rows and fields                    *)
(* (src/raddatabase.c), the plug-ins for PostgreSQL and MySQL              *)
(* (src/database) and SQLite (src/radsqlite.c).  The servers are external: *)
(* a statement is a record, that a server executes whole or refuses.  The  *)
(* SQLite file may be locked by another program, or by a statement of this *)
(* one that has answered a row and is not finalized.                       *)
(***************************************************************************)
EXTENDS Integers, Sequences, SequencesExt, Functions

CONSTANTS
  Connection,    \* connections the program opens, 1 .. their number
  Column, Text,  \* the columns of the table, and those of strings
  MaxResults,    \* result sets ever allocated
  MaxRows,       \* rows of the table
  MaxTries,      \* SQLITE_MAX_QUERY_TRIES
  MaxStatements, \* statements of the program, at most
  MaxEdits,      \* calls that change its row description, at most
  MaxLocks       \* times that another program locks the SQLite file, while
                 \* sqlite3_prepare or sqlite3_step is tried

ASSUME DatabaseAssumption ==
  /\ Connection \subseteq Nat /\ Text \subseteq Column
  /\ MaxTries \in Nat \ {0} /\ MaxResults \in Nat

Engine == {"sqlite", "postgresql", "mysql"}
Value == {0, 1}
NewValue == 1
Null == 2
Row == [Column -> Value \cup {Null}]
ResultId == 1 .. MaxResults
NoSet == 0
NoCall == [phase |-> "none"]
NoTable == [exists |-> FALSE, notNull |-> {}, rows |-> <<>>]
NoDescription == [exists |-> FALSE, block |-> FALSE, fields |-> <<>>]
Closed == [open |-> FALSE, resSet |-> NoSet, statement |-> "none"]

VARIABLES
  engine,    \* the plug-in that the program is linked with
  table,     \* the table in the database
  handle,    \* per connection: the result set it answers, the direct statement
  results,   \* result sets allocated so far: their connection, query and rows
  kept,      \* result sets the program was given, and has not released
  freed,     \* result sets released, how often
  descr,     \* the row description of the program
  call,      \* the call to SQLite in progress
  locked,    \* does another program lock the SQLite file
  abandoned, \* connections with a statement nobody will finalize, that read
  crashed,   \* is the program gone
  allowance  \* what is left of MaxStatements and MaxEdits

dbVars == <<engine, table, handle, results, kept, freed, descr, call, locked, abandoned,
            crashed, allowance>>

DbInit ==
  /\ engine \in Engine
  /\ table = [exists |-> TRUE, notNull |-> Column \ Text, rows |-> <<[c \in Column |-> 0]>>]
  /\ handle = [h \in Connection |-> Closed]
  /\ results = <<>> /\ kept = {} /\ freed = [s \in ResultId |-> 0]
  /\ descr = NoDescription
  /\ call = NoCall
  /\ locked = FALSE /\ abandoned = {} /\ crashed = FALSE
  /\ allowance = [statements |-> MaxStatements, edits |-> MaxEdits]

(* The program makes one call after the other; none while another program  *)
(* locks the file, but that an earlier call met (a bound).                 *)
Running == ~ crashed /\ call = NoCall /\ ~ locked
Uses(h) ==
  /\ Running /\ handle[h].open /\ allowance.statements > 0
  /\ allowance' = [allowance EXCEPT !.statements = @ - 1]

(* A bound: the statements that need no row description are made by a      *)
(* program without one.                                                    *)
UsesAlone(h) == Uses(h) /\ ~ descr.exists

-----------------------------------------------------------------------------
(* Row descriptions.  A bound: a program makes its own while it has no     *)
(* connection, and changes later only one that it got from SQLite.         *)
DescriptionOnly ==
  /\ allowance.edits > 0 /\ (descr.block \/ \A h \in Connection : ~ handle[h].open)
  /\ allowance' = [allowance EXCEPT !.edits = @ - 1]
  /\ UNCHANGED <<engine, table, handle, results, kept, freed, call, locked, abandoned, crashed>>

CreatesDescription ==
  /\ Running /\ ~ descr.exists
  /\ descr' = [exists |-> TRUE, block |-> FALSE, fields |-> <<>>]
  /\ DescriptionOnly

Fields == DOMAIN descr.fields

AddsField(c) ==
  /\ Running /\ descr.exists /\ c \notin Fields
  /\ descr' = [descr EXCEPT !.fields =
                 (c :> [null |-> FALSE, notNull |-> c \notin Text, value |-> 0]) @@ @]
  /\ DescriptionOnly

RemovesField(c) ==
  /\ Running /\ c \in Fields
  /\ descr' = [descr EXCEPT !.fields = Restrict(@, Fields \ {c})]
  /\ DescriptionOnly

DeletesDescription ==
  /\ Running /\ descr.exists
  /\ descr' = NoDescription
  /\ DescriptionOnly

(* FIELD_TYPE_CLEAR clears the traits too, so a field that gets a value or *)
(* a type forgets that it is NOT NULL.                                     *)
SetsField(c, field) ==
  /\ Running /\ c \in Fields
  /\ descr' = [descr EXCEPT !.fields[c] = field]
  /\ DescriptionOnly

SetsValue(c, v) == SetsField(c, [null |-> FALSE, notNull |-> FALSE, value |-> v])
SetsType(c) == c \in Fields /\ SetsField(c, [descr.fields[c] EXCEPT !.notNull = FALSE])
SetsNull(c, null) == c \in Fields /\ SetsField(c, [descr.fields[c] EXCEPT !.null = null])

(* radsqlite.c has these calls and raddatabase.c, for the other plug-ins.  *)
(* SQLite allocates the rows it answers in one block, that it cannot       *)
(* change.                                                                 *)
Generic == engine # "sqlite"
raddatabaseRowDescriptionCreate == Generic /\ CreatesDescription
raddatabaseRowDescriptionAddField(c) == Generic /\ AddsField(c)
raddatabaseRowDescriptionRemoveField(c) == Generic /\ RemovesField(c)
raddatabaseRowDescriptionDelete == Generic /\ DeletesDescription
raddatabaseFieldSetValue(c, v) == Generic /\ SetsValue(c, v)
raddatabaseFieldSetType(c) == Generic /\ SetsType(c)
raddatabaseFieldSetToNull(c, null) == Generic /\ SetsNull(c, null)

Sqlite == engine = "sqlite"
Pg == engine = "postgresql"
My == engine = "mysql"
radsqliteRowDescriptionCreate == Sqlite /\ CreatesDescription
radsqliteRowDescriptionAddField(c) == Sqlite /\ ~ descr.block /\ AddsField(c)
radsqliteRowDescriptionRemoveField(c) == Sqlite /\ ~ descr.block /\ RemovesField(c)
radsqliteRowDescriptionDelete == Sqlite /\ DeletesDescription
radsqliteFieldSetValue(c, v) == Sqlite /\ SetsValue(c, v)
radsqliteFieldSetType(c) == Sqlite /\ SetsType(c)
radsqliteFieldSetToNull(c, null) == Sqlite /\ SetsNull(c, null)

-----------------------------------------------------------------------------
(* Statements.  The populated fields of a description make the WHERE       *)
(* clause.                                                                 *)
Populated(fields) == {c \in DOMAIN fields : ~ fields[c].null}

Where(fields) == [c \in Populated(fields) |-> fields[c].value]

Satisfies(row, where) == \A c \in DOMAIN where : row[c] = where[c]
Matching(where) == SelectSeq(table.rows, LAMBDA row : Satisfies(row, where))

Statement(op, where, fields) == [op |-> op, where |-> where, fields |-> fields]

Inserted(fields) == [c \in Column |-> IF c \in Populated(fields) THEN fields[c].value ELSE Null]

(* A field that is NULL is assigned twice, first NULL and then the value   *)
(* that it still has: the last counts.                                     *)
Assigned(row, fields) == [c \in Column |-> IF c \in DOMAIN fields THEN fields[c].value ELSE row[c]]

(* What no server prepares: a table that is missing or there already, and  *)
(* an empty clause.                                                        *)
Malformed(q) ==
  \/ q.op # "info" /\ table.exists = (q.op = "create")
  \/ q.op \in {"select", "delete", "update"} /\ q.where = <<>>
  \/ q.op = "insert" /\ Populated(q.fields) = {}

(* And what it does not execute: NULL in a column that is NOT NULL. *)
Violates(q) ==
  q.op = "insert" /\ \E c \in table.notNull : Inserted(q.fields)[c] = Null

Refused(q) == Malformed(q) \/ Violates(q)

Executed(q) ==
  CASE q.op = "insert"   -> [table EXCEPT !.rows = Append(@, Inserted(q.fields))]
    [] q.op = "delete"   -> [table EXCEPT !.rows = SelectSeq(@, LAMBDA r : ~ Satisfies(r, q.where))]
    [] q.op = "update"   -> [table EXCEPT !.rows = [i \in DOMAIN @ |->
                               IF Satisfies(@[i], q.where) THEN Assigned(@[i], q.fields) ELSE @[i]]]
    [] q.op = "truncate" -> [table EXCEPT !.rows = <<>>]
    [] q.op = "drop"     -> NoTable
    [] q.op = "create"   -> [exists |-> TRUE, rows |-> <<>>,
                             notNull |-> {c \in DOMAIN q.fields : q.fields[c].notNull}]
    [] OTHER             -> table

-----------------------------------------------------------------------------
(* Result sets. *)
SetAllocated(h, q, rows) == Append(results, [of |-> h, query |-> q, rows |-> rows])
NewSet == Len(results) + 1

(* Mutant: the connection goes on answering the set. *)
ReleasedOnly(h, s) ==
  /\ freed' = [freed EXCEPT ![s] = @ + 1]
  /\ kept' = kept \ {s}
  /\ UNCHANGED handle

(* ReleaseResults: the connection forgets its result set, be it this one   *)
(* or a later one.                                                         *)
Released(h, s) ==
  /\ freed' = [freed EXCEPT ![s] = @ + 1]
  /\ kept' = kept \ {s}
  /\ handle' = [handle EXCEPT ![h].resSet = NoSet]

ReleasesResults(h, s) ==
  /\ Running /\ handle[h].open /\ s \in kept /\ results[s].of = h
  /\ Released(h, s)
  /\ UNCHANGED <<engine, table, results, descr, call, locked, abandoned, crashed, allowance>>

radsqliteReleaseResults(h, s) == Sqlite /\ ReleasesResults(h, s)
PgReleaseResults(h, s) == Pg /\ ReleasesResults(h, s)
MyReleaseResults(h, s) == My /\ ReleasesResults(h, s)

(* Of each plug-in; the rows are read where they are.                      *)
raddatabaseGetResults(h) ==
  /\ Running /\ handle[h].open /\ handle[h].resSet # NoSet
  /\ kept' = kept \cup {handle[h].resSet}
  /\ UNCHANGED <<engine, table, handle, results, freed, descr, call, locked, abandoned, crashed,
                 allowance>>

(* What a select answers; "info" asks the catalog for the table. *)
Answer(q) ==
  CASE q.op = "select" -> Matching(q.where)
    [] q.op = "info"   -> IF table.exists THEN <<[c \in Column |-> 0]>> ELSE <<>>
    [] OTHER           -> <<>>

-----------------------------------------------------------------------------
(* PostgreSQL refuses the quotes that the plug-in puts around the strings  *)
(* of a clause, and a double assignment.                                   *)
PgRefuses(q) ==
  \/ q.op \in {"select", "delete", "update"} /\ DOMAIN q.where \cap Text # {}
  \/ /\ q.op = "update"
     /\ DOMAIN q.fields \cap Text # {} \/ Populated(q.fields) # DOMAIN q.fields

(* PostgreSQL and MySQL execute a statement at once, or it fails. *)
QueryFails(h) ==
  /\ handle' = [handle EXCEPT ![h].resSet = NoSet]
  /\ UNCHANGED <<table, results, kept, freed>>

Executes(h, q) ==
  /\ ~ Refused(q)
  /\ table' = Executed(q)
  /\ handle' = [handle EXCEPT ![h].resSet = NoSet]
  /\ UNCHANGED <<results, kept, freed>>

(* The answer becomes the result set of the connection; QueryRow gives it  *)
(* to its caller.                                                          *)
AnswerSet(h, q, then) ==
  /\ ~ Refused(q) /\ NewSet \in ResultId
  /\ results' = SetAllocated(h, q, Answer(q))
  /\ handle' = [handle EXCEPT ![h].resSet = NewSet]
  /\ kept' = kept \cup (IF then = "give" THEN {NewSet} ELSE {})
  /\ UNCHANGED <<table, freed>>

(* processResults: a value it does not know, or no memory; the set is      *)
(* released again.                                                         *)
PgResultsFail(h, q) ==
  /\ ~ Refused(q) /\ NewSet \in ResultId /\ Answer(q) # <<>>
  /\ results' = SetAllocated(h, q, <<>>)
  /\ freed' = [freed EXCEPT ![NewSet] = @ + 1]
  /\ handle' = [handle EXCEPT ![h].resSet = NoSet]
  /\ UNCHANGED <<table, kept>>

PgQuery(h, q, createResults, then) ==
  /\ Pg
  /\ \/ QueryFails(h)
     \/ ~ PgRefuses(q) /\ ~ createResults /\ Executes(h, q)
     \/ ~ PgRefuses(q) /\ createResults /\ (AnswerSet(h, q, then) \/ PgResultsFail(h, q))
  /\ UNCHANGED call

(* MySQL takes any value for a string if nothing else. *)
MyQuery(h, q, createResults, then) ==
  /\ My
  /\ \/ QueryFails(h)
     \/ ~ createResults /\ Executes(h, q)
     \/ createResults /\ AnswerSet(h, q, then)
  /\ UNCHANGED call

(* radsqliteQuery: a result set, that is empty at first, for the answer.   *)
SqliteQuery(h, q, createResults, then) ==
  /\ Sqlite
  /\ IF createResults
     THEN /\ NewSet \in ResultId
          /\ results' = SetAllocated(h, q, <<>>)
          /\ handle' = [handle EXCEPT ![h].resSet = NewSet]
     ELSE /\ handle' = [handle EXCEPT ![h].resSet = NoSet]
          /\ UNCHANGED results
  /\ call' = [phase |-> "prepare", of |-> h, query |-> q, set |-> createResults, then |-> then,
              tries |-> 0, locks |-> MaxLocks, rows |-> <<>>]
  /\ UNCHANGED <<table, kept, freed>>

(* What the calls below end with: the plug-in's query. *)
Queries(h, q, createResults, then) ==
  /\ PgQuery(h, q, createResults, then) \/ MyQuery(h, q, createResults, then)
       \/ SqliteQuery(h, q, createResults, then)
  /\ UNCHANGED <<engine, locked, abandoned, crashed>>

-----------------------------------------------------------------------------
(* The calls of SQLite, on the way: sqlite3_prepare reads the schema.      *)
Preparing == ~ crashed /\ call.phase = "prepare"
Return == call' = NoCall
SqliteOnly == UNCHANGED <<engine, table, descr, locked, allowance>>

Prepared ==
  /\ Preparing /\ ~ locked /\ ~ Malformed(call.query)
  /\ IF call.then = "direct"
     THEN handle' = [handle EXCEPT ![call.of].statement = "ready"] /\ Return
     ELSE call' = [call EXCEPT !.phase = "step", !.tries = 0, !.locks = MaxLocks]
          /\ UNCHANGED handle
  /\ UNCHANGED <<results, kept, freed, abandoned, crashed>> /\ SqliteOnly

(* The statement is refused: the result set is forgotten, not released. *)
PrepareError ==
  /\ Preparing /\ ~ locked /\ Malformed(call.query)
  /\ Return
  /\ handle' = [handle EXCEPT ![call.of].resSet = NoSet]
  /\ UNCHANGED <<results, kept, freed, abandoned, crashed>> /\ SqliteOnly

(* SQLITE_BUSY: again after 100 ms, but not for ever.  The last time the   *)
(* result set is released, and without one the program uses NULL.          *)
PrepareBusy ==
  /\ Preparing /\ locked
  /\ IF call.tries + 1 < MaxTries
     THEN call' = [call EXCEPT !.tries = @ + 1] /\ UNCHANGED <<handle, freed, kept, crashed>>
     ELSE /\ Return
          /\ IF call.set THEN Released(call.of, handle[call.of].resSet)
             ELSE UNCHANGED <<handle, freed, kept>>
          /\ crashed' = (~ call.set /\ call.then # "direct")
  /\ UNCHANGED <<results, abandoned>> /\ SqliteOnly

(* Statements of this program that read the file, by connection. *)
Direct == {h \in Connection : handle[h].statement = "row"} \cup {a[1] : a \in {b \in abandoned : b[2] = "direct"}}
Readers == Direct \cup {a[1] : a \in abandoned}

(* Mutant: a query that fails does not finalize its statement. *)
FinalizeForgotten == abandoned' = abandoned \cup {<<call.of, "query">>}

(* sqlite3_finalize, when a query fails. *)
Finalize == UNCHANGED abandoned

(* sqlite3_step of a statement that changes the database; while others     *)
(* read or lock the file it is SQLITE_BUSY, and tried again for ever.      *)
StepChange ==
  /\ ~ crashed /\ call.phase = "step" /\ call.query.op \notin {"select", "info"}
  /\ ~ locked /\ Readers \subseteq {call.of}
  /\ IF Violates(call.query) THEN UNCHANGED table /\ Finalize
     ELSE table' = Executed(call.query) /\ UNCHANGED abandoned
  /\ Return
  /\ UNCHANGED <<engine, handle, results, kept, freed, descr, locked, crashed, allowance>>

StepFirst ==
  /\ ~ crashed /\ call.phase = "step" /\ call.query.op \in {"select", "info"}
  /\ ~ locked
  /\ call' = [call EXCEPT !.phase = "rows", !.locks = 0, !.rows = Answer(call.query)]
  /\ UNCHANGED <<handle, results, kept, freed, abandoned, crashed>> /\ SqliteOnly

(* processResultRow. *)
StepRow ==
  /\ call.phase = "rows" /\ call.rows # <<>>
  /\ call' = [call EXCEPT !.rows = Tail(@)]
  /\ results' = IF call.set
                THEN [results EXCEPT ![handle[call.of].resSet].rows = Append(@, Head(call.rows))]
                ELSE results
  /\ UNCHANGED <<handle, kept, freed, abandoned, crashed>> /\ SqliteOnly

(* A row that cannot be read, or for which there is no memory. *)
StepFails ==
  /\ call.phase = "rows" /\ call.rows # <<>>
  /\ Return /\ Finalize
  /\ IF call.set THEN Released(call.of, handle[call.of].resSet)
     ELSE UNCHANGED <<handle, freed, kept>>
  /\ UNCHANGED <<results, crashed>> /\ SqliteOnly

BlockDescription ==
  [exists |-> TRUE, block |-> TRUE,
   fields |-> [c \in Column |-> [null |-> TRUE, notNull |-> FALSE, value |-> 0]]]

(* SQLITE_DONE.  Without a row the answer is ERROR, and the set stays with *)
(* the connection; else the caller takes it, or is done with it.           *)
StepDone ==
  /\ call.phase = "rows" /\ call.rows = <<>>
  /\ Return
  /\ LET s == handle[call.of].resSet
         found == call.set /\ results[s].rows # <<>>
     IN  /\ descr' = IF found /\ call.then = "describe" THEN BlockDescription ELSE descr
         /\ \/ found /\ call.then \in {"exists", "describe"} /\ Released(call.of, s)
            \/ /\ ~ (found /\ call.then \in {"exists", "describe"})
               /\ kept' = kept \cup (IF found /\ call.then = "give" THEN {s} ELSE {})
               /\ UNCHANGED <<handle, freed>>
  /\ UNCHANGED <<engine, table, results, locked, abandoned, crashed, allowance>>

-----------------------------------------------------------------------------
(* Connections.  A bound: with one, a program that has no description may  *)
(* change one field of what SQLite describes.                              *)
OpensDatabase(h) ==
  /\ Running /\ ~ handle[h].open /\ allowance.statements > 0
  /\ h - 1 \in Connection => handle[h - 1].open  \* a bound: the order does not matter
  /\ handle' = [handle EXCEPT ![h] = [Closed EXCEPT !.open = TRUE]]
  /\ allowance' = [allowance EXCEPT !.edits = IF descr.exists \/ Generic \/ @ = 0 THEN 0 ELSE 1]
  /\ UNCHANGED <<engine, table, results, kept, freed, descr, call, locked, abandoned, crashed>>

radsqliteOpen(h) == Sqlite /\ OpensDatabase(h)
PgOpen(h) == Pg /\ OpensDatabase(h)
MyOpen(h) == My /\ OpensDatabase(h)

(* A direct statement of a connection that is not finalized keeps it open: *)
(* sqlite3_close fails, and the statement goes on reading.                 *)
Lost(h) ==
  IF handle[h].statement = "row" THEN abandoned \cup {<<h, "direct">>} ELSE abandoned

(* The connection releases the result set it last answered, even one that  *)
(* the program still uses.                                                 *)
ClosesDatabase(h) ==
  /\ Running /\ handle[h].open
  /\ handle' = [handle EXCEPT ![h] = Closed]
  /\ IF handle[h].resSet = NoSet THEN UNCHANGED <<freed, kept>>
     ELSE /\ freed' = [freed EXCEPT ![handle[h].resSet] = @ + 1]
          /\ kept' = kept \ {handle[h].resSet}
  /\ abandoned' = Lost(h)
  /\ UNCHANGED <<engine, table, results, descr, call, locked, crashed, allowance>>

radsqliteClose(h) == Sqlite /\ ClosesDatabase(h)
PgClose(h) == Pg /\ ClosesDatabase(h)
MyClose(h) == My /\ ClosesDatabase(h)

-----------------------------------------------------------------------------
(* The calls that make a statement from the description. *)
CreatesTable(h) ==
  /\ Uses(h) /\ Fields = Column
  /\ Queries(h, Statement("create", <<>>, descr.fields), FALSE, "none") /\ UNCHANGED descr

DropsTable(h) ==
  Uses(h) /\ Queries(h, Statement("drop", <<>>, <<>>), FALSE, "none") /\ UNCHANGED descr

EmptiesTable(h) ==
  Uses(h) /\ Queries(h, Statement("truncate", <<>>, <<>>), FALSE, "none") /\ UNCHANGED descr

(* A field that is NULL and still knows that it must not be is an error.   *)
InsertsRow(h) ==
  /\ Uses(h) /\ descr.exists /\ Len(table.rows) < MaxRows
  /\ \A c \in Fields : ~ (descr.fields[c].null /\ descr.fields[c].notNull)
  /\ Queries(h, Statement("insert", <<>>, descr.fields), FALSE, "none") /\ UNCHANGED descr

(* The new data of one column, in a description of its own. *)
NewData(c) == {[d \in {c} |-> [null |-> n, notNull |-> FALSE, value |-> NewValue]] : n \in BOOLEAN}

(* Without a populated field the clause is what the stack holds: nothing   *)
(* of use, or a clause of an earlier call.                                 *)
Clauses == IF Populated(descr.fields) # {} THEN {Where(descr.fields)}
           ELSE {<<>>} \cup [Column \ Text -> Value]

ModifiesRows(h) ==
  /\ Uses(h) /\ descr.exists
  /\ \E where \in Clauses, c \in Column : \E new \in NewData(c) :
       Queries(h, Statement("update", where, new), FALSE, "none")
  /\ UNCHANGED descr

DeletesRows(h) ==
  /\ Uses(h) /\ descr.exists
  /\ Queries(h, Statement("delete", Where(descr.fields), <<>>), FALSE, "none") /\ UNCHANGED descr

QueriesRow(h) ==
  /\ Uses(h) /\ descr.exists
  /\ \E where \in Clauses : Queries(h, Statement("select", where, <<>>), TRUE, "give")
  /\ UNCHANGED descr

(* A select of the program, whose results it may want or not, and may get  *)
(* with GetResults.                                                        *)
QueriesTable(h) ==
  /\ UsesAlone(h)
  /\ \E where \in [Column \ Text -> Value], createResults \in BOOLEAN :
       Queries(h, Statement("select", where, <<>>), createResults, "none")
  /\ UNCHANGED descr

(* Each plug-in has these calls, and words the statements for its server.  *)
radsqliteTableCreate(h) == Sqlite /\ CreatesTable(h)
radsqliteTableDelete(h) == Sqlite /\ DropsTable(h)
radsqliteTableTruncate(h) == Sqlite /\ EmptiesTable(h)
radsqliteTableInsertRow(h) == Sqlite /\ InsertsRow(h)
radsqliteTableModifyRows(h) == Sqlite /\ ModifiesRows(h)
radsqliteTableDeleteRows(h) == Sqlite /\ DeletesRows(h)
radsqliteTableQueryRow(h) == Sqlite /\ QueriesRow(h)
radsqliteQuery(h) == Sqlite /\ QueriesTable(h)

PgTableCreate(h) == Pg /\ CreatesTable(h)
PgTableDelete(h) == Pg /\ DropsTable(h)
PgTableTruncate(h) == Pg /\ EmptiesTable(h)
PgTableInsertRow(h) == Pg /\ InsertsRow(h)
PgTableModifyRows(h) == Pg /\ ModifiesRows(h)
PgTableDeleteRows(h) == Pg /\ DeletesRows(h)
PgTableQueryRow(h) == Pg /\ QueriesRow(h)
PgSelectQuery(h) == Pg /\ QueriesTable(h)

MyTableCreate(h) == My /\ CreatesTable(h)
MyTableDelete(h) == My /\ DropsTable(h)
MyTableTruncate(h) == My /\ EmptiesTable(h)
MyTableInsertRow(h) == My /\ InsertsRow(h)
MyTableModifyRows(h) == My /\ ModifiesRows(h)
MyTableDeleteRows(h) == My /\ DeletesRows(h)
MyTableQueryRow(h) == My /\ QueriesRow(h)
MySelectQuery(h) == My /\ QueriesTable(h)

(* The set is released, and its query made again: with SQLite here, ... *)
radsqliteRefreshResults(h, s) ==
  /\ Sqlite /\ Uses(h) /\ s \in kept /\ results[s].of = h /\ NewSet \in ResultId
  /\ freed' = [freed EXCEPT ![s] = @ + 1]
  /\ kept' = kept \ {s}
  /\ results' = SetAllocated(h, results[s].query, <<>>)
  /\ handle' = [handle EXCEPT ![h].resSet = NewSet]
  /\ call' = [phase |-> "prepare", of |-> h, query |-> results[s].query, set |-> TRUE,
              then |-> "give", tries |-> 0, locks |-> MaxLocks, rows |-> <<>>]
  /\ UNCHANGED <<engine, table, descr, locked, abandoned, crashed>>

(* ... and with a server, where it fails or answers.                       *)
RefreshesResults(h, s) ==
  LET q == results[s].query
  IN  /\ Uses(h) /\ s \in kept /\ results[s].of = h
      /\ freed' = [freed EXCEPT ![s] = @ + 1]
      /\ \/ /\ handle' = [handle EXCEPT ![h].resSet = NoSet]
            /\ kept' = kept \ {s} /\ UNCHANGED results
         \/ /\ ~ Refused(q) /\ NewSet \in ResultId
            /\ results' = SetAllocated(h, q, Answer(q))
            /\ handle' = [handle EXCEPT ![h].resSet = NewSet]
            /\ kept' = (kept \ {s}) \cup {NewSet}
      /\ UNCHANGED <<engine, table, descr, call, locked, abandoned, crashed>>

PgRefreshResults(h, s) == Pg /\ RefreshesResults(h, s)
MyRefreshResults(h, s) == My /\ RefreshesResults(h, s)

radsqliteTableIfExists(h) ==
  /\ UsesAlone(h) /\ Sqlite
  /\ Queries(h, Statement("info", <<>>, <<>>), TRUE, "exists") /\ UNCHANGED descr

radsqliteTableDescriptionGet(h) ==
  /\ UsesAlone(h) /\ Sqlite
  /\ Queries(h, Statement("info", <<>>, <<>>), TRUE, "describe") /\ UNCHANGED descr

(* PostgreSQL tells which columns are NOT NULL; the result set of the      *)
(* connection is forgotten.                                                *)
PgTableDescriptionGet(h) ==
  /\ UsesAlone(h) /\ Pg
  /\ handle' = [handle EXCEPT ![h].resSet = NoSet]
  /\ descr' = IF ~ table.exists THEN descr
              ELSE [exists |-> TRUE, block |-> FALSE,
                    fields |-> [c \in Column |-> [null |-> TRUE, notNull |-> c \in table.notNull,
                                                  value |-> 0]]]
  /\ UNCHANGED <<engine, table, results, kept, freed, call, locked, abandoned, crashed>>

(* MySQL answers NO where the plug-in looks for NULL: no column is NOT     *)
(* NULL.                                                                   *)
MyTableDescriptionGet(h) ==
  /\ UsesAlone(h) /\ My
  /\ descr' = IF ~ table.exists THEN descr ELSE [BlockDescription EXCEPT !.block = FALSE]
  /\ UNCHANGED <<engine, table, handle, results, kept, freed, call, locked, abandoned, crashed>>

-----------------------------------------------------------------------------
(* Direct queries of SQLite, row by row; a statement there was is lost. *)
radsqlitedirectQuery(h) ==
  /\ UsesAlone(h) /\ Sqlite
  /\ handle' = [handle EXCEPT ![h].resSet = NoSet, ![h].statement = "none"]
  /\ abandoned' = Lost(h)
  /\ call' = [phase |-> "prepare", of |-> h, query |-> Statement("info", <<>>, <<>>), set |-> FALSE,
              then |-> "direct", tries |-> 0, locks |-> MaxLocks, rows |-> <<>>]
  /\ UNCHANGED <<engine, table, results, kept, freed, descr, locked, crashed>>

(* A row, while the statement reads; or there is none, and it reads no     *)
(* more.  The first row is waited for, while the file is locked.           *)
radsqlitedirectGetRow(h) ==
  /\ Running /\ handle[h].statement \in {"ready", "row"}
  /\ \E s \in {"row", "done"} : handle' = [handle EXCEPT ![h].statement = s]
  /\ UNCHANGED <<engine, table, results, kept, freed, descr, call, locked, abandoned, crashed,
                 allowance>>

radsqlitedirectReleaseResults(h) ==
  /\ Running /\ handle[h].statement # "none"
  /\ handle' = [handle EXCEPT ![h].statement = "none"]
  /\ UNCHANGED <<engine, table, results, kept, freed, descr, call, locked, abandoned, crashed,
                 allowance>>

(* Another program changes the database, when no one reads it.  Only the   *)
(* locks that a call of this program meets matter.                         *)
Lock ==
  /\ ~ locked /\ Readers = {} /\ call.phase \in {"prepare", "step"} /\ call.locks > 0
  /\ locked' = TRUE /\ call' = [call EXCEPT !.locks = @ - 1]
  /\ UNCHANGED <<engine, table, handle, results, kept, freed, descr, abandoned, crashed, allowance>>

Unlock ==
  /\ locked
  /\ locked' = FALSE
  /\ UNCHANGED <<engine, table, handle, results, kept, freed, descr, call, abandoned, crashed,
                 allowance>>

-----------------------------------------------------------------------------
SqliteStep ==
  Prepared \/ PrepareError \/ PrepareBusy \/ StepChange \/ StepFirst \/ StepRow \/ StepFails
    \/ StepDone

DescriptionCall ==
  \/ raddatabaseRowDescriptionCreate \/ raddatabaseRowDescriptionDelete
  \/ radsqliteRowDescriptionCreate \/ radsqliteRowDescriptionDelete
  \/ \E c \in Column :
       \/ raddatabaseRowDescriptionAddField(c) \/ raddatabaseRowDescriptionRemoveField(c)
       \/ raddatabaseFieldSetValue(c, NewValue) \/ raddatabaseFieldSetType(c)
       \/ radsqliteRowDescriptionAddField(c) \/ radsqliteRowDescriptionRemoveField(c)
       \/ radsqliteFieldSetValue(c, NewValue) \/ radsqliteFieldSetType(c)
       \/ \E null \in BOOLEAN : raddatabaseFieldSetToNull(c, null) \/ radsqliteFieldSetToNull(c, null)

SqliteCall(h) ==
  \/ radsqliteOpen(h) \/ radsqliteClose(h)
  \/ radsqliteTableCreate(h) \/ radsqliteTableDelete(h) \/ radsqliteTableTruncate(h)
  \/ radsqliteTableInsertRow(h) \/ radsqliteTableModifyRows(h) \/ radsqliteTableDeleteRows(h)
  \/ radsqliteTableQueryRow(h) \/ radsqliteQuery(h) \/ radsqliteTableIfExists(h)
  \/ radsqliteTableDescriptionGet(h)
  \/ \E s \in kept : radsqliteReleaseResults(h, s) \/ radsqliteRefreshResults(h, s)
  \/ radsqlitedirectQuery(h) \/ radsqlitedirectGetRow(h) \/ radsqlitedirectReleaseResults(h)

PgCall(h) ==
  \/ PgOpen(h) \/ PgClose(h)
  \/ PgTableCreate(h) \/ PgTableDelete(h) \/ PgTableTruncate(h) \/ PgTableInsertRow(h)
  \/ PgTableModifyRows(h) \/ PgTableDeleteRows(h) \/ PgTableQueryRow(h) \/ PgSelectQuery(h)
  \/ PgTableDescriptionGet(h)
  \/ \E s \in kept : PgReleaseResults(h, s) \/ PgRefreshResults(h, s)

MyCall(h) ==
  \/ MyOpen(h) \/ MyClose(h)
  \/ MyTableCreate(h) \/ MyTableDelete(h) \/ MyTableTruncate(h) \/ MyTableInsertRow(h)
  \/ MyTableModifyRows(h) \/ MyTableDeleteRows(h) \/ MyTableQueryRow(h) \/ MySelectQuery(h)
  \/ MyTableDescriptionGet(h)
  \/ \E s \in kept : MyReleaseResults(h, s) \/ MyRefreshResults(h, s)

DatabaseCall(h) == SqliteCall(h) \/ PgCall(h) \/ MyCall(h) \/ raddatabaseGetResults(h)

DbNext ==
  SqliteStep \/ DescriptionCall \/ (\E h \in Connection : DatabaseCall(h)) \/ Lock \/ Unlock

DbSpec == DbInit /\ [][DbNext]_dbVars /\ WF_dbVars(SqliteStep) /\ WF_dbVars(Unlock)

-----------------------------------------------------------------------------
(* A result set that the program was given lasts until the program         *)
(* releases or refreshes it or closes the connection that last answered    *)
(* it, whatever queries are made and fail in between; a connection answers *)
(* no set that is released, and none is released twice.                    *)
ResultsKept ==
  /\ \A s \in ResultId : freed[s] <= 1
  /\ \A s \in kept : freed[s] = 0
  /\ \A h \in Connection : handle[h].open /\ handle[h].resSet # NoSet => freed[handle[h].resSet] = 0

(* A query of SQLite returns, although it is tried again for as long as    *)
(* the file is locked: unless a direct statement of another connection of  *)
(* this program reads the file, which nobody can release then.             *)
QueriesReturn ==
  call # NoCall /\ Direct \subseteq {call.of} ~> call = NoCall \/ crashed
=============================================================================
