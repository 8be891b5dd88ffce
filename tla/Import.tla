------------------------------- MODULE Import -------------------------------
(***************************************************************************)
(* The admin import (packages/broker/src/import): what a file must be like *)
(* to be accepted (validate.ts), what is proposed for one that is not yet  *)
(* described (infer.ts), and a run of an import against data_live (run.ts) *)
(* beside other runs: its transaction, statement by statement under read   *)
(* committed, and then, outside that transaction, the terms, the change    *)
(* feed and the audit row.                                                 *)
(*                                                                         *)
(* A file is its headers and its rows, a row a function from header to     *)
(* cell. A blank cell is BlankCell; how a text parses as a type is a CONSTANT. *)
(* A workspace stands for all of them: row level security keeps them apart.*)
(***************************************************************************)
EXTENDS Naturals, Sequences, FiniteSets, SequencesExt, Absent

CONSTANTS
  Importers,  \* who runs an import: an admin at the console, a job at the command line
  ImportFiles,      \* the files that they import
  Sheets,     \* the files that are only looked at: import map, import validate
  Workbooks,  \* likewise, as workbooks
  Importable, \* name -> [chunked, fields, columns]; a field is [pk, nullable, derived, vocab, type]
  Source,     \* the collection and the field that the vocabulary is derived from
  YamlTerms,  \* the terms of a vocabulary that the YAML lists
  Slug,       \* text -> its slug, None where nothing of it is slug-safe
  BlankCell, Parsed, \* the empty cell; type -> text -> what coerce makes of it, None where it refuses
  Shapes,     \* text -> the types whose pattern infer.ts recognises in it
  FieldName,  \* header -> fieldNameFor
  MaxErrors, MaxRows, \* 50 and 10000 in the code
  MaxRuns, MaxMishaps \* BOUND: runs of an importer; failed statements and stops of a process

Modes == {"append", "upsert", "delete"}

VARIABLES
  desk,      \* a sheet that import map or import validate has answered about
  tables,    \* collection -> document -> its revisions, the current one last
  run,       \* importer -> its run
  slugs,     \* app.terms of the vocabulary, None while the database does not know it
  feedRows,  \* app.change_log, in order
  auditRows, \* the trail
  ends,      \* what became of the runs that are over
  undisturbed, \* importers since whose preview nobody else has had a transaction
  mishaps    \* how many crashes and failures

importVars == <<desk, tables, run, slugs, feedRows, auditRows, ends, undisturbed, mishaps>>

-----------------------------------------------------------------------------
(* validate.ts *)

PkOf(c) == IF \E f \in DOMAIN c.fields : c.fields[f].pk
           THEN CHOOSE f \in DOMAIN c.fields : c.fields[f].pk ELSE None
Storable(c) == {f \in DOMAIN c.fields : ~c.fields[f].derived}
\* A header is the field that import.columns says, else the field of its name.
FieldOf(c, h) == IF h \in DOMAIN c.columns THEN c.columns[h] ELSE h
ColumnsOf(c, file) == [k \in 1..Len(file.headers) |-> FieldOf(c, file.headers[k])]

Problem(row, column, reason, scope) == [row |-> row, column |-> column, reason |-> reason, scope |-> scope]
Where(holds, e) == IF holds THEN <<e>> ELSE << >>

\* The errors are listed up to MaxErrors; the tally has them all.
Nothing == [errors |-> << >>, tally |-> << >>, rows |-> {}]

Push(acc, e) ==
  LET key == <<e.scope, e.column, e.reason>>
  IN [errors |-> IF Len(acc.errors) < MaxErrors THEN Append(acc.errors, e) ELSE acc.errors,
      tally |-> IF key \in DOMAIN acc.tally
                THEN [acc.tally EXCEPT ![key].count = @ + 1, ![key].first = IF e.row < @ THEN e.row ELSE @]
                ELSE acc.tally @@ (key :> [count |-> 1, first |-> e.row]),
      rows |-> IF e.scope = "row" THEN acc.rows \cup {e.row} ELSE acc.rows]
Refusal(problems) == [ok |-> FALSE] @@ FoldLeft(Push, Nothing, problems)

HeaderProblems(c, file, terms, k) ==
  LET h == file.headers[k]
      f == FieldOf(c, h)
  IN IF f \notin DOMAIN c.fields THEN <<Problem(0, h, "unknown_column", "column")>>
     ELSE Where(\E j \in 1..k - 1 : FieldOf(c, file.headers[j]) = f, Problem(0, h, "duplicate_column", "column"))
          \o Where(c.fields[f].derived, Problem(0, h, "derived_column", "column"))
          \o Where(c.fields[f].vocab = "dataset" /\ terms = None, Problem(0, h, "unvalidatable_term", "column"))

\* Which columns a mode needs: an append creates documents, the others address them.
MissingColumns(c, file, mode) ==
  LET needed == IF mode = "append" THEN {f \in Storable(c) : ~c.fields[f].nullable} ELSE {PkOf(c)}
  IN needed \ ToSet(ColumnsOf(c, file))

Ragged(file, row) == DOMAIN row # ToSet(file.headers)
Empty(v) == v \in {None, BlankCell}

\* A column whose terms are known is held to them, any other one to its type.
Bound(field, terms) == field.vocab = "yaml" \/ (field.vocab = "dataset" /\ terms # None)
TermsFor(field, terms) == IF field.vocab = "yaml" THEN YamlTerms ELSE terms

CellFault(c, f, v, mode, terms) ==
  LET field == c.fields[f]
  IN IF Empty(v) THEN IF (IF mode = "delete" THEN f = PkOf(c) ELSE ~field.nullable) THEN "missing_required" ELSE None
     ELSE IF Bound(field, terms) THEN IF v \in TermsFor(field, terms) THEN None ELSE "unknown_term"
     ELSE IF Parsed[field.type][v] = None THEN "invalid" ELSE None
CellValue(c, f, v, mode, terms) ==
  IF Empty(v) \/ CellFault(c, f, v, mode, terms) # None THEN None
  ELSE IF Bound(c.fields[f], terms) THEN v ELSE Parsed[c.fields[f].type][v]

\* What a row says of the document it is about; seenPk is about the parsed value.
PkHeader(c, file) == IF PkOf(c) \in ToSet(ColumnsOf(c, file))
                     THEN CHOOSE h \in ToSet(file.headers) : FieldOf(c, h) = PkOf(c) ELSE None
PkValue(c, file, row, mode, terms) == CellValue(c, PkOf(c), row[PkHeader(c, file)], mode, terms)

Repeats(c, file, k, mode, terms) ==
  LET pk(j) == PkValue(c, file, file.rows[j], mode, terms)
  IN /\ PkHeader(c, file) # None /\ pk(k) # None
     /\ \E j \in 1..k - 1 : ~Ragged(file, file.rows[j]) /\ pk(j) = pk(k)

RowProblems(c, file, mode, terms, k) ==
  LET row == file.rows[k]
      fault(h) == CellFault(c, FieldOf(c, h), row[h], mode, terms)
  IN IF Ragged(file, row) THEN <<Problem(k - 1, None, "ragged_rows", "row")>>
     ELSE FlattenSeq([j \in 1..Len(file.headers) |->
                        LET h == file.headers[j] IN Where(fault(h) # None, Problem(k - 1, h, fault(h), "row"))])
          \o Where(Repeats(c, file, k, mode, terms), Problem(k - 1, PkHeader(c, file), "duplicate_pk", "row"))

FileProblem(c, file) ==
  IF c.chunked THEN "file_collection"
  ELSE IF Len(file.rows) > MaxRows THEN "too_many_rows"
  ELSE IF file.rows = << >> THEN "no_rows" ELSE None

\* terms is None where the caller has no bindings.
ValidateRows(c, file, mode, terms) ==
  LET whole == FileProblem(c, file)
      heads == FlattenSeq([k \in 1..Len(file.headers) |-> HeaderProblems(c, file, terms, k)])
      lacks == SetToSeq(MissingColumns(c, file, mode))
      cells == FlattenSeq([k \in 1..Len(file.rows) |-> RowProblems(c, file, mode, terms, k)])
  IN IF whole # None THEN Refusal(<<Problem(None, None, whole, "file")>>)
     ELSE IF heads # << >> THEN Refusal(heads)
     ELSE IF lacks # << >> THEN Refusal([k \in 1..Len(lacks) |-> Problem(0, lacks[k], "missing_required", "column")])
     ELSE IF cells # << >> THEN Refusal(cells)
     ELSE [ok |-> TRUE,
           docs |-> [k \in 1..Len(file.rows) |->
                       [f \in ToSet(ColumnsOf(c, file)) |->
                          LET h == CHOOSE x \in ToSet(file.headers) : FieldOf(c, x) = f
                          IN CellValue(c, f, file.rows[k][h], mode, terms)]]]

-----------------------------------------------------------------------------
(* sheet.ts: a workbook is its sheets, a sheet its rows, a row its cells *)

HasContent(cells) == \E k \in 1..Len(cells) : cells[k] # BlankCell
WithData(book) == {g \in 1..Len(book) : \E k \in 1..Len(book[g]) : HasContent(book[g][k])}
\* A sheet that is asked for by its place, else the only one with data; anything else is refused.
SelectSheet(book, asked) ==
  IF asked # None THEN IF asked \in 1..Len(book) THEN asked ELSE None
  ELSE IF Cardinality(WithData(book)) = 1 THEN CHOOSE g \in WithData(book) : TRUE ELSE None

\* The header without the blanks that it ends in.
HeaderOf(grid, headerRow) ==
  LET header == grid[headerRow]
      last == CHOOSE k \in 1..Len(header) : header[k] # BlankCell /\ \A j \in k + 1..Len(header) : header[j] = BlankCell
  IN SubSeq(header, 1, last)

Legible(names) == BlankCell \notin ToSet(names) /\ \A j, k \in 1..Len(names) : names[j] = names[k] => j = k

\* None where it is refused; a row that is blank under the header is no document.
RowsFromSheet(grid, headerRow) ==
  IF headerRow > Len(grid) \/ ~HasContent(grid[headerRow]) \/ ~Legible(HeaderOf(grid, headerRow)) THEN None
  ELSE LET names == HeaderOf(grid, headerRow)
           width == Len(names)
           body == SelectSeq(SubSeq(grid, headerRow + 1, Len(grid)), LAMBDA cells : HasContent(SubSeq(cells, 1, width)))
           column(h) == CHOOSE k \in 1..width : names[k] = h /\ \A j \in k + 1..width : names[j] # h
       IN [k \in 1..Len(body) |-> [h \in ToSet(names) |-> body[k][column(h)]]]

-----------------------------------------------------------------------------
(* infer.ts *)

\* inferMapping, one header after another: what the config maps and what is a field's own name is
\* settled, what normalises to a field nobody has claimed is proposed.
MatchHeader(c, acc, h) ==
  LET guess == FieldName[h]
  IN IF h \in DOMAIN c.columns THEN [acc EXCEPT !.matched = @ \cup {c.columns[h]}]
     ELSE IF h \in Storable(c) THEN [acc EXCEPT !.matched = @ \cup {h}]
     ELSE IF guess \in Storable(c) /\ guess \notin acc.matched
          THEN [acc EXCEPT !.columns = @ @@ (h :> guess), !.matched = @ \cup {guess}]
     ELSE [acc EXCEPT !.unmatched = Append(@, h)]
InferMapping(c, headers) ==
  FoldLeft(LAMBDA acc, h : MatchHeader(c, acc, h), [columns |-> << >>, matched |-> {}, unmatched |-> << >>], headers)
MissingRequired(c, mapping) == {f \in Storable(c) : ~c.fields[f].nullable /\ f \notin mapping.matched}

\* The narrowest type that every text of the sample has the pattern of; zeros and ones are numbers.
Patterns == <<"uuid", "bit", "boolean", "timestamptz", "date", "int", "numeric">>
InferType(present) ==
  LET fits == SelectSeq(Patterns, LAMBDA shape : \A v \in present : shape \in Shapes[v])
  IN IF present = {} \/ fits = << >> THEN "text" ELSE IF Head(fits) = "bit" THEN "int" ELSE Head(fits)

\* A name that two headers normalise to gets a number.
Unused(name, used) ==
  LET numbered(n) == name \o "_" \o ToString(n)
      free(n) == numbered(n) \notin used
  IN IF name \notin used THEN name
     ELSE numbered(CHOOSE n \in 2..Cardinality(used) + 2 : free(n) /\ \A m \in 2..n - 1 : ~free(m))

\* One column of the sample: complete and unique texts make the first such column the pk.
InferField(file, acc, h) ==
  LET field == Unused(FieldName[h], DOMAIN acc.fields)
      texts == [k \in 1..Len(file.rows) |-> file.rows[k][h]]
      present == {v \in ToSet(texts) : ~Empty(v)}
      complete == present = ToSet(texts) /\ file.rows # << >>
      unique == \A j, k \in 1..Len(texts) : j # k /\ ~Empty(texts[j]) => texts[j] # texts[k]
      pk == complete /\ unique /\ \A f \in DOMAIN acc.fields : ~acc.fields[f].pk
  IN [fields |-> acc.fields @@ (field :> [pk |-> pk, nullable |-> ~complete, derived |-> FALSE, vocab |-> None,
                                          type |-> InferType(present)]),
      columns |-> IF h = field THEN acc.columns ELSE acc.columns @@ (h :> field),
      chunked |-> FALSE]
InferCollection(file) ==
  FoldLeft(LAMBDA acc, h : InferField(file, acc, h), [fields |-> << >>, columns |-> << >>, chunked |-> FALSE], file.headers)

-----------------------------------------------------------------------------
(* The commands that write nothing: import map and import validate, each of a sheet. *)

NoRun == [pc |-> "idle", file |-> None, mode |-> None, dry |-> FALSE, n |-> 0, row |-> 0,
         read |-> None, docs |-> << >>, staged |-> << >>, answer |-> None]
ImportInit ==
  /\ desk = None
  /\ tables = [t \in DOMAIN Importable |-> << >>]
  /\ run = [i \in Importers |-> NoRun]
  /\ slugs \in {None, {}}
  /\ feedRows = << >> /\ auditRows = {} /\ ends = {} /\ undisturbed = {}
  /\ mishaps = [crashes |-> 0, fails |-> 0]

\* A sheet is looked at where nothing else goes on: it reads no state.
Untouched == desk = None /\ \A i \in Importers : run[i] = NoRun

\* import map: a mapping for a collection that exists, a collection for a name that does not.
MapSheet(file) ==
  /\ file.rows # << >>
  /\ desk' = IF file.coll \in DOMAIN Importable
             THEN [kind |-> "mapping", file |-> file, answer |-> InferMapping(Importable[file.coll], file.headers)]
             ELSE [kind |-> "collection", file |-> file, answer |-> InferCollection(file)]
  /\ UNCHANGED <<tables, run, slugs, feedRows, auditRows, ends, undisturbed, mishaps>>

\* parseImport of a workbook, with the sheet and the row of the headers that were asked for.
ReadWorkbook(book, asked, headerRow) ==
  LET g == SelectSheet(book, asked)
  IN /\ desk' = [kind |-> "workbook", file |-> book, asked |-> asked, headerRow |-> headerRow,
                 answer |-> IF g = None THEN None ELSE RowsFromSheet(book[g], headerRow)]
     /\ UNCHANGED <<tables, run, slugs, feedRows, auditRows, ends, undisturbed, mishaps>>

\* import validate without --live: no bindings.
CheckSheet(file, mode) ==
  /\ file.coll \in DOMAIN Importable
  /\ desk' = [kind |-> mode, file |-> file, answer |-> ValidateRows(Importable[file.coll], file, mode, None)]
  /\ UNCHANGED <<tables, run, slugs, feedRows, auditRows, ends, undisturbed, mishaps>>

-----------------------------------------------------------------------------
(* run.ts *)

AtPc(i, pc) == run[i].pc = pc
InTx(i) == run[i].pc \in {"sweep", "read", "write", "commit"}
Config(i) == Importable[run[i].file.coll]
Table(i) == tables[run[i].file.coll]
DocOf(i) == run[i].docs[run[i].row][PkOf(Config(i))]
Current(t, d) == IF d \in DOMAIN t THEN Last(t[d]) ELSE None
RowStep(mode) == IF mode = "append" THEN "write" ELSE "read"
Fails == mishaps' = [mishaps EXCEPT !.fails = @ + 1]
MayFail == mishaps.crashes + mishaps.fails < MaxMishaps

\* What an importer is left with: a refusal that stands to be audited, or the next step.
Refuses(i, reason) ==
  run' = [run EXCEPT ![i].pc = "audit", ![i].answer = reason, ![i].staged = << >>, ![i].read = None]
EndsRun(i, outcome, more) ==
  /\ run' = [run EXCEPT ![i].pc = "over", ![i].staged = << >>, ![i].read = None, ![i].docs = << >>, ![i].answer = outcome]
  /\ ends' = ends \cup {[by |-> <<i, run[i].n>>, rows |-> Len(run[i].file.rows), dry |-> run[i].dry, outcome |-> outcome] @@ more}

\* The gates before the first await. Those of an unknown mode and a missing import role write nothing.
GateImport(file, mode) ==
  IF file.coll \notin DOMAIN Importable THEN "unknown_collection"
  ELSE IF mode # "append" /\ PkOf(Importable[file.coll]) = None THEN "no_primary_key"
  ELSE IF ~file.readable THEN "parse_failed" ELSE None

Starts(i, file, mode, dry, n) ==
  LET gate == GateImport(file, mode)
  IN run' = [run EXCEPT ![i] = [NoRun EXCEPT !.pc = IF gate = None THEN "bind" ELSE "audit", !.answer = gate,
                                            !.file = file, !.mode = mode, !.dry = dry, !.n = n]]

BeginImport(i, file, mode, dry) ==
  /\ desk = None /\ AtPc(i, "idle") /\ Starts(i, file, mode, dry, 1)
  /\ UNCHANGED <<desk, tables, slugs, feedRows, auditRows, ends, undisturbed, mishaps>>

\* The console applies what it has previewed; who got no answer tries the same again.
Again(i) ==
  /\ AtPc(i, "over") /\ run[i].n < MaxRuns
  /\ \/ run[i].dry /\ run[i].answer = "ok" /\ Starts(i, run[i].file, run[i].mode, FALSE, run[i].n + 1)
     \/ run[i].answer \in {"threw", "stopped"} /\ Starts(i, run[i].file, run[i].mode, run[i].dry, run[i].n + 1)
  /\ UNCHANGED <<desk, tables, slugs, feedRows, auditRows, ends, undisturbed, mishaps>>

\* A transaction disturbs the previews of the others, and its own is disturbed by one that is open.
Opens(i) ==
  undisturbed' = IF \E j \in Importers \ {i} : InTx(j) THEN {}
                 ELSE (undisturbed \cap {i}) \cup (IF run[i].dry THEN {i} ELSE {})

\* loadTaxonomyBindings, the validation, and the begin of the transaction.
Bind(i) ==
  LET r == run[i]
      v == ValidateRows(Config(i), r.file, r.mode, slugs)
  IN /\ AtPc(i, "bind")
     /\ IF v.ok
        THEN /\ run' = [run EXCEPT ![i].pc = IF r.mode = "delete" THEN "sweep" ELSE RowStep(r.mode),
                                    ![i].docs = v.docs, ![i].row = 1]
             /\ Opens(i)
        ELSE Refuses(i, "validation_failed") /\ UNCHANGED undisturbed
     /\ UNCHANGED <<desk, tables, slugs, feedRows, auditRows, ends, mishaps>>
BindFails(i) ==
  /\ AtPc(i, "bind") /\ MayFail /\ Fails /\ Refuses(i, "taxonomy_unavailable")
  /\ UNCHANGED <<desk, tables, slugs, feedRows, auditRows, ends, undisturbed>>

\* A delete looks for all of its documents before it retires one.
SweepDelete(i) ==
  /\ AtPc(i, "sweep")
  /\ IF \A k \in 1..Len(run[i].docs) : Current(Table(i), run[i].docs[k][PkOf(Config(i))]) # None
     THEN run' = [run EXCEPT ![i].pc = "read"]
     ELSE Refuses(i, "validation_failed")
  /\ UNCHANGED <<desk, tables, slugs, feedRows, auditRows, ends, undisturbed, mishaps>>

ReadCurrent(i) ==
  /\ AtPc(i, "read")
  /\ run' = [run EXCEPT ![i].pc = "write", ![i].read = Current(Table(i), DocOf(i))]
  /\ UNCHANGED <<desk, tables, slugs, feedRows, auditRows, ends, undisturbed, mishaps>>

\* The fields that a revision claims, and the document it is: a create has nulls where the file has
\* no column, a revision carries on what the file does not set, a tombstone everything.
NewRevision(i) ==
  LET r == run[i]
      c == Config(i)
      doc == r.docs[r.row]
      stated == DOMAIN doc \ {PkOf(c)}
  IN IF r.read = None
     THEN [seq |-> 1, op |-> "create", fields |-> DOMAIN doc, by |-> <<i, r.n>>,
           vals |-> [f \in Storable(c) |-> IF f \in DOMAIN doc THEN doc[f] ELSE None]]
     ELSE IF r.mode = "delete"
     THEN [seq |-> r.read.seq + 1, op |-> "delete", fields |-> {}, by |-> <<i, r.n>>, vals |-> r.read.vals]
     ELSE [seq |-> r.read.seq + 1, op |-> "update", fields |-> stated, by |-> <<i, r.n>>,
           vals |-> [f \in Storable(c) |-> IF f \in stated THEN doc[f] ELSE r.read.vals[f]]]

\* An upsert that finds no document is a create, and a create needs every required column.
LacksRequired(i) ==
  /\ run[i].mode = "upsert" /\ run[i].read = None
  /\ LET doc == run[i].docs[run[i].row]
     IN \E f \in Storable(Config(i)) : ~Config(i).fields[f].nullable /\ (f \notin DOMAIN doc \/ doc[f] = None)

\* Who has written a revision of a document holds it until the end of the transaction: the row
\* that is no longer current, the entry of the unique index on what is.
HoldsRow(j, coll, d) == InTx(j) /\ run[j].file.coll = coll /\ \E k \in 1..Len(run[j].staged) : run[j].staged[k].doc = d
Awaits(i, j) == i # j /\ AtPc(i, "write") /\ ~LacksRequired(i) /\ HoldsRow(j, run[i].file.coll, DocOf(i))

\* Mutant: no unique index on what is current
NoConflict(i) == FALSE

\* demoteRevision and insertRevision. The index admits one current revision of a document: what has
\* been written since the read, or since before an append, is a conflict.
Conflicts(i) == Current(Table(i), DocOf(i)) # run[i].read

WriteRevision(i) ==
  LET r == run[i]
  IN /\ AtPc(i, "write") /\ \A j \in Importers : ~Awaits(i, j)
     /\ IF LacksRequired(i) THEN Refuses(i, "validation_failed")
        ELSE IF Conflicts(i) THEN Refuses(i, "constraint_violation")
        ELSE run' = [run EXCEPT ![i].staged = Append(@, [doc |-> DocOf(i), rev |-> NewRevision(i)]), ![i].read = None,
                                ![i].row = IF @ = Len(r.docs) THEN @ ELSE @ + 1,
                                ![i].pc = IF r.row = Len(r.docs) THEN "commit" ELSE RowStep(r.mode)]
     /\ UNCHANGED <<desk, tables, slugs, feedRows, auditRows, ends, undisturbed, mishaps>>

\* Two that wait for each other: the server ends one of them.
Deadlock(i) ==
  /\ \E j \in Importers : Awaits(i, j) /\ Awaits(j, i)
  /\ Refuses(i, "write_failed")
  /\ UNCHANGED <<desk, tables, slugs, feedRows, auditRows, ends, undisturbed, mishaps>>
StatementFails(i) ==
  /\ InTx(i) /\ MayFail /\ Fails /\ Refuses(i, "write_failed")
  /\ UNCHANGED <<desk, tables, slugs, feedRows, auditRows, ends, undisturbed>>

\* A preview throws its transaction away; the rest commits.
WithStaged(t, staged) ==
  LET mine(d) == SelectSeq(staged, LAMBDA x : x.doc = d)
  IN [d \in DOMAIN t \cup {staged[k].doc : k \in 1..Len(staged)} |->
        (IF d \in DOMAIN t THEN t[d] ELSE << >>) \o [k \in 1..Len(mine(d)) |-> mine(d)[k].rev]]

CommitImport(i) ==
  LET r == run[i]
  IN /\ AtPc(i, "commit")
     /\ IF r.dry THEN /\ run' = [run EXCEPT ![i].pc = "audit", ![i].answer = "ok"]
                      /\ UNCHANGED tables
        ELSE /\ tables' = [tables EXCEPT ![r.file.coll] = WithStaged(@, r.staged)]
             /\ run' = [run EXCEPT ![i].pc = "terms", ![i].answer = "ok"]
     /\ UNCHANGED <<desk, slugs, feedRows, auditRows, ends, undisturbed, mishaps>>

\* syncDatasetTerms: the slugs of the distinct values that the view of the source shows. Each is
\* written by itself, and two values of one slug, or one that has none, throw.
LiveValues ==
  LET t == tables[Source.coll]
  IN {Last(t[d]).vals[Source.field] : d \in {x \in DOMAIN t : Last(t[x]).op # "delete"}} \ {None}
Throws(values) == \E v, w \in values : Slug[v] = None \/ (v # w /\ Slug[v] = Slug[w])
SlugsNow == {Slug[v] : v \in LiveValues} \ {None}
Known == IF slugs = None THEN {} ELSE slugs

Written(i) == [what |-> run[i].staged]
SyncTermsLive(i) ==
  /\ AtPc(i, "terms")
  /\ IF Throws(LiveValues)
     THEN (\E some \in SUBSET SlugsNow : slugs' = Known \cup some) /\ EndsRun(i, "threw", Written(i))
     ELSE slugs' = Known \cup SlugsNow /\ run' = [run EXCEPT ![i].pc = "feed"] /\ UNCHANGED ends
  /\ UNCHANGED <<desk, tables, feedRows, auditRows, undisturbed, mishaps>>
SyncFails(i) ==
  /\ AtPc(i, "terms") /\ MayFail /\ Fails /\ EndsRun(i, "threw", Written(i))
  /\ UNCHANGED <<desk, tables, slugs, feedRows, auditRows, undisturbed>>

\* appendToFeed: all entries in a transaction of their own, or none and nothing said of it.
Entries(i) ==
  [k \in 1..Len(run[i].staged) |->
     [coll |-> run[i].file.coll, doc |-> run[i].staged[k].doc, rev |-> run[i].staged[k].rev]]
AppendToFeed(i) ==
  /\ AtPc(i, "feed")
  /\ feedRows' = feedRows \o Entries(i)
  /\ run' = [run EXCEPT ![i].pc = "audit"]
  /\ UNCHANGED <<desk, tables, slugs, auditRows, ends, undisturbed, mishaps>>
FeedFails(i) ==
  /\ AtPc(i, "feed") /\ MayFail /\ Fails
  /\ run' = [run EXCEPT ![i].pc = "audit"]
  /\ UNCHANGED <<desk, tables, slugs, feedRows, auditRows, ends, undisturbed>>

\* The audit row, of every outcome that gets here, and the answer with it or without.
AuditRow(i) ==
  [by |-> <<i, run[i].n>>, allowed |-> run[i].answer = "ok", dry |-> run[i].dry,
   ops |-> [k \in 1..Len(run[i].staged) |-> run[i].staged[k].rev.op]]
AuditImport(i) ==
  /\ AtPc(i, "audit")
  /\ auditRows' = auditRows \cup {AuditRow(i)}
  /\ EndsRun(i, run[i].answer, Written(i))
  /\ UNCHANGED <<desk, tables, slugs, feedRows, undisturbed, mishaps>>
ImportAuditFails(i) ==
  /\ AtPc(i, "audit") /\ MayFail /\ Fails /\ EndsRun(i, run[i].answer, Written(i))
  /\ UNCHANGED <<desk, tables, slugs, feedRows, auditRows, undisturbed>>

\* The process stops. What its transaction had not committed is gone.
StopImport(i) ==
  /\ run[i].pc \notin {"idle", "over"} /\ MayFail
  /\ mishaps' = [mishaps EXCEPT !.crashes = @ + 1]
  /\ EndsRun(i, "stopped", IF run[i].pc \in {"terms", "feed", "audit"} THEN Written(i) ELSE [what |-> << >>])
  /\ UNCHANGED <<desk, tables, slugs, feedRows, auditRows, undisturbed>>

ImportStep(i) ==
  \/ Bind(i) \/ SweepDelete(i) \/ ReadCurrent(i) \/ WriteRevision(i) \/ Deadlock(i) \/ CommitImport(i)
  \/ SyncTermsLive(i) \/ AppendToFeed(i) \/ AuditImport(i)

ImportNext ==
  \/ Untouched /\ slugs = None /\ \E file \in Sheets : MapSheet(file) \/ \E mode \in Modes : CheckSheet(file, mode)
  \/ Untouched /\ slugs = None /\ \E book \in Workbooks, asked \in {None, 1}, headerRow \in {1, 2} : ReadWorkbook(book, asked, headerRow)
  \/ \E i \in Importers :
       \/ \E file \in ImportFiles, mode \in Modes, dry \in BOOLEAN : BeginImport(i, file, mode, dry)
       \/ Again(i) \/ ImportStep(i)
       \/ BindFails(i) \/ StatementFails(i) \/ SyncFails(i) \/ FeedFails(i) \/ ImportAuditFails(i) \/ StopImport(i)

ImportSpec == ImportInit /\ [][ImportNext]_importVars

-----------------------------------------------------------------------------
ImportTypeOK ==
  /\ DOMAIN tables = DOMAIN Importable /\ DOMAIN run = Importers
  /\ \A i \in Importers : /\ run[i].pc \in {"idle", "bind", "sweep", "read", "write", "commit", "terms", "feed", "audit", "over"}
                           /\ run[i].n \in 0..MaxRuns /\ Len(run[i].staged) <= MaxRows
  /\ \A e \in auditRows : e.by[1] \in Importers /\ e.allowed \in BOOLEAN
  /\ mishaps.crashes + mishaps.fails \in 0..MaxMishaps
  /\ \A i \in Importers : AtPc(i, "commit") => Len(run[i].staged) = Len(run[i].file.rows)

RevisionsBy(by) ==
  UNION {{<<t, d, k>> : k \in {x \in 1..Len(tables[t][d]) : tables[t][d][x].by = by}} :
           <<t, d>> \in UNION {{<<u, x>> : x \in DOMAIN tables[u]} : u \in DOMAIN tables}}

\* However runs come between each other's statements, a document's revisions are numbered without a
\* gap, it is created once, and a revision changes no field but those it claims: no run writes over
\* what it has not read (reviseDocument, the unique index on what is current).
LineageUnbroken ==
  \A t \in DOMAIN tables : \A d \in DOMAIN tables[t] :
    LET revs == tables[t][d]
    IN \A k \in 1..Len(revs) :
         /\ revs[k].seq = k /\ (revs[k].op = "create" <=> k = 1)
         /\ k > 1 => \A f \in DOMAIN revs[k].vals \ revs[k].fields : revs[k].vals[f] = revs[k - 1].vals[f]

\* A file is applied whole or not at all: a run that is refused, or that only previews, leaves no
\* revision, one that says ok leaves one for each row, one that stops or throws all or none (run.ts,
\* "a partially applied file is worse than a rejected one").
AllOrNothing ==
  \A e \in ends :
    LET n == Cardinality(RevisionsBy(e.by))
    IN CASE e.dry \/ e.outcome \notin {"ok", "threw", "stopped"} -> n = 0
         [] ~e.dry /\ e.outcome = "ok" -> n = e.rows
         [] OTHER -> n \in {0, e.rows}

\* The trail does not lie: a run has one row at most, an allowed one counts the revisions that the
\* run has committed, and nobody who is refused in the trail has changed anything.
TrailMatches ==
  \A a \in auditRows :
    /\ \A b \in auditRows : a.by = b.by => a = b
    /\ Cardinality(RevisionsBy(a.by)) = (IF a.allowed /\ ~a.dry THEN Len(a.ops) ELSE 0)

\* The feed names what is there: revisions that are committed, each of them once, and with one
\* revision of a run all of them.
FeedMatches ==
  /\ \A j, k \in 1..Len(feedRows) : feedRows[j] = feedRows[k] => j = k
  /\ \A k \in 1..Len(feedRows) :
       LET e == feedRows[k]
       IN /\ \E x \in 1..Len(tables[e.coll][e.doc]) : tables[e.coll][e.doc][x] = e.rev
          /\ Cardinality(RevisionsBy(e.rev.by)) = Cardinality({j \in 1..Len(feedRows) : feedRows[j].rev.by = e.rev.by})

\* What a preview says is what will happen, provided that nothing else writes in between: the run
\* that follows it commits the same operations, unless a statement fails or its process stops
\* (ImportForm.tsx; run.ts, DryRunRollback).
PreviewHolds ==
  \A a \in auditRows, e \in ends :
    a.dry /\ a.allowed /\ e.by = <<a.by[1], a.by[2] + 1>> /\ e.by[1] \in undisturbed
      => \/ a.ops = [k \in 1..Len(e.what) |-> e.what[k].rev.op]
         \/ mishaps.crashes + mishaps.fails > 0

\* When no run is between its commit and its sync, and none was cut short there, what the source of a
\* vocabulary shows are terms; and no document of a bound collection ever names one that is not: no
\* grant could match it.
TermsFollow ==
  /\ (\A i \in Importers : ~AtPc(i, "terms")) /\ mishaps.crashes + mishaps.fails = 0 /\ ~Throws(LiveValues)
       => SlugsNow \subseteq Known
  /\ \A t \in DOMAIN tables : \A d \in DOMAIN tables[t] :
       LET vals == Last(tables[t][d]).vals
       IN \A f \in DOMAIN vals : Importable[t].fields[f].vocab = "dataset" => vals[f] \in Known \cup {None}

\* What a sheet is told when it is refused for its rows.
RefusedRows == desk # None /\ desk.kind \in Modes /\ ~desk.answer.ok /\ desk.answer.rows # {}
CheckedSheet == desk # None /\ desk.kind \in Modes
DeskConfig == Importable[desk.file.coll]
Affected == desk.answer.rows
CountOf(key) == IF key \in DOMAIN desk.answer.tally THEN desk.answer.tally[key].count ELSE 0

\* The summary counts every faulty cell, however few errors are listed (validate.ts: "the counts here
\* are complete"), and names the first row of each kind.
SummaryComplete ==
  RefusedRows =>
    \A h \in ToSet(desk.file.headers), reason \in {"missing_required", "unknown_term", "invalid"} :
      LET key == <<"row", h, reason>>
          faulty == {k \in 1..Len(desk.file.rows) :
                       /\ ~Ragged(desk.file, desk.file.rows[k])
                       /\ CellFault(DeskConfig, FieldOf(DeskConfig, h), desk.file.rows[k][h], desk.kind, None) = reason}
      IN /\ CountOf(key) = Cardinality(faulty)
         /\ faulty # {} => desk.answer.tally[key].first + 1 \in faulty
                           /\ \A k \in faulty : desk.answer.tally[key].first + 1 <= k

\* "n of m rows are ready to import" (report.ts): the file without its affected rows is accepted.
ReadyRowsImport ==
  RefusedRows =>
    LET ready == SelectSeq([k \in 1..Len(desk.file.rows) |-> k], LAMBDA k : k - 1 \notin Affected)
        file == [desk.file EXCEPT !.rows = [j \in 1..Len(ready) |-> desk.file.rows[ready[j]]]]
    IN ready # << >> => ValidateRows(DeskConfig, file, desk.kind, None).ok

\* What is accepted can be written: no value for a derived field, no document twice, whatever way its
\* key is spelled, none without a key, and no create that lacks a required value.
AcceptedFits ==
  CheckedSheet /\ desk.answer.ok =>
    LET docs == desk.answer.docs
        pk == PkOf(DeskConfig)
    IN /\ \A k \in 1..Len(docs) :
            /\ DOMAIN docs[k] \subseteq Storable(DeskConfig) /\ docs[k][pk] # None
            /\ desk.kind = "append" => \A f \in Storable(DeskConfig) :
                                        DeskConfig.fields[f].nullable \/ (f \in DOMAIN docs[k] /\ docs[k][f] # None)
       /\ \A j, k \in 1..Len(docs) : docs[j][pk] = docs[k][pk] => j = k

\* import validate without --live is blind only where it says so: what it accepts the live layer does
\* not refuse for the file's sake, and it wrongly refuses only a column whose terms it cannot read.
StaticLayerAgrees ==
  CheckedSheet =>
    \A terms \in SUBSET {"acme", "beta"} :
      LET live == ValidateRows(DeskConfig, desk.file, desk.kind, terms)
      IN IF desk.answer.ok THEN live.ok
         ELSE live.ok => \A key \in DOMAIN desk.answer.tally : key[3] = "unvalidatable_term"

\* Nothing that stands under a header is lost, and no sheet is passed over that has data: what is read
\* has every cell of the table, in the order of its rows (sheet.ts: "ambiguity is refused").
WorkbookRead ==
  desk # None /\ desk.kind = "workbook" /\ desk.answer # None =>
    LET g == IF desk.asked = None THEN CHOOSE x \in WithData(desk.file) : TRUE ELSE desk.asked
        grid == desk.file[g]
        under == {<<j, k>> \in (desk.headerRow + 1..Len(grid)) \X (1..Len(grid[desk.headerRow])) :
                    grid[desk.headerRow][k] # BlankCell /\ grid[j][k] # BlankCell}
        read == {<<j, h>> \in (1..Len(desk.answer)) \X ToSet(grid[desk.headerRow]) : h # BlankCell /\ desk.answer[j][h] # BlankCell}
    IN /\ desk.asked = None => WithData(desk.file) = {g}
       /\ Cardinality(under) = Cardinality(read)
       /\ \A j \in 1..Len(desk.answer) : \E x \in desk.headerRow + 1..Len(grid) :
            \A k \in 1..Len(grid[x]) : grid[desk.headerRow][k] # BlankCell => desk.answer[j][grid[desk.headerRow][k]] = grid[x][k]

\* A mapping that is proposed claims no field twice and none that an earlier header has; and with it the
\* append that misses a required column is the one that was foretold (inferMapping).
ProposalImports ==
  desk # None /\ desk.kind = "mapping" =>
    LET c == DeskConfig
        mapped == [c EXCEPT !.columns = @ @@ desk.answer.columns]
        hs == desk.file.headers
        kept == [desk.file EXCEPT !.headers = SelectSeq(hs, LAMBDA h : FieldOf(mapped, h) \in DOMAIN c.fields)]
    IN /\ \A j, k \in 1..Len(hs) :
            j < k /\ hs[k] \in DOMAIN desk.answer.columns => FieldOf(mapped, hs[j]) # FieldOf(mapped, hs[k])
       /\ MissingColumns(mapped, kept, "append") = MissingRequired(c, desk.answer)

\* A collection that is proposed accepts the sheet it was read from, unless a text only looks like one
\* of its type, or two texts of the key are one value (inferCollection).
InferredAccepts ==
  desk # None /\ desk.kind = "collection" =>
    LET c == desk.answer
        cells(f) == {desk.file.rows[k][h] : k \in 1..Len(desk.file.rows), h \in {x \in ToSet(desk.file.headers) : FieldOf(c, x) = f}}
        texts(f) == {v \in cells(f) : ~Empty(v)}
        honest(f) == /\ \A v \in texts(f) : Parsed[c.fields[f].type][v] # None
                     /\ f = PkOf(c) => \A v, w \in texts(f) : Parsed[c.fields[f].type][v] = Parsed[c.fields[f].type][w] => v = w
    IN (\A f \in DOMAIN c.fields : honest(f)) => ValidateRows(c, desk.file, "append", None).ok

\* "Audited on every outcome, through the app pool" (run.ts): while no statement fails, every run that
\* has an answer, an error included, has its row.
EveryOutcomeAudited ==
  \A e \in ends : e.outcome = "stopped" \/ mishaps.fails > 0 \/ \E a \in auditRows : a.by = e.by

\* The promises of an import, together: of the sheet, of the transaction, and of the terms, the
\* feed and the trail that come after it.
ImportCorrect ==
  /\ ImportTypeOK /\ LineageUnbroken /\ AllOrNothing /\ TrailMatches /\ FeedMatches
  /\ PreviewHolds /\ TermsFollow /\ SummaryComplete /\ ReadyRowsImport /\ AcceptedFits
  /\ StaticLayerAgrees /\ ProposalImports /\ InferredAccepts /\ WorkbookRead
=============================================================================
