------------------------------- MODULE Schema -------------------------------
(***************************************************************************)
(* From warehousd.yml to the tables: the plan that compares a config with  *)
(* the database or with the last deploy's snapshot (apply/plan.ts), the    *)
(* migration it is written out as (apply/migration-sql.ts), the runner of  *)
(* the project's migrations (db/project-migrations.ts), and applyConfig    *)
(* (apply/apply.ts) with the DDL of both kinds (apply/ddl.ts), run by      *)
(* containers that boot at the same time and stop at any step.             *)
(*                                                                         *)
(* A column is its Postgres type, a view the columns it selects, a file of *)
(* migrations/ the set of its statements, with the ones left commented.    *)
(***************************************************************************)
EXTENDS Naturals, Sequences, FiniteSets, SequencesExt, Absent

CONSTANTS
  Names,       \* the collections
  Projects,    \* BOUND: the configs of the operator, one after the other: name -> declaration, None when not in it
  Boots,       \* the containers
  LiveRows,
  MaxTurns,    \* BOUND
  MaxStarts,   \* BOUND
  MaxStops     \* BOUND

ASSUME SchemaAssumption ==
  /\ MaxTurns \in Nat /\ MaxStarts \in Nat /\ MaxStops \in Nat /\ Len(Projects) > 0
  /\ None \notin Names \cup Boots \cup LiveRows

VARIABLES
  database,  \* tab: [side, table] -> what it holds; view: [side, collection] -> columns; reg: app.collections
  applied,   \* app.collection_migrations: version -> the file as it was when it ran
  ran,       \* version -> how often its statements have run
  project,   \* the operator's warehousd.yml, a number of Projects
  migrations, \* the operator's migrations/
  guard,     \* who holds the advisory lock 87220002
  boot,      \* what each container is doing
  destroyed, \* live rows that a boot's own drop took although it had seen them
  turns, starts, stops

schemaState == <<database, applied, ran, project, migrations, guard, boot, destroyed>>
schemaVars == <<schemaState, turns, starts, stops>>

Sides == {"synth", "live"}
Own(c) == <<c, "own">>
FilesTable(c) == <<c, "files">>
Chunked(c) == <<c, "documents">>
TableNames == Names \X {"own", "files", "documents"}

NamesOf(cfg) == {c \in Names : cfg[c] # None}

---------------------------------------------------------------------------
(* What a config declares, and how it differs *)

\* fileDeclaredTables, datasetDeclaredTables: the columns the YAML owns, of each table.
DeclaredTables(c, e) ==
  IF e.kind = "file"
  THEN {[id |-> FilesTable(c), cols |-> e.fields], [id |-> Chunked(c), cols |-> << >>]}
  ELSE {[id |-> Own(c), cols |-> e.fields]}

\* declaredPkField: a file collection declares none.
PkField(e) == IF e.kind = "file" THEN None ELSE e.pk

SchemaChange(c, side, t, kind, field, from, to) ==
  [coll |-> c, side |-> side, table |-> t, kind |-> kind, field |-> field, from |-> from, to |-> to]

IsDestructive(ch) == ch.kind \in {"type_change", "drop_column", "pk_change", "drop_collection"}

Lossless ==
  {<<"integer", "numeric">>, <<"integer", "text">>, <<"numeric", "text">>, <<"uuid", "text">>,
   <<"boolean", "text">>, <<"date", "text">>, <<"timestamptz", "text">>, <<"jsonb", "text">>,
   <<"date", "timestamptz">>, <<"text", "text[]">>}

\* classifyCast
ReviewRequired(ch) == ch.kind # "type_change" \/ <<ch.from, ch.to>> \notin Lossless

\* addColumn, typeChange and dropColumn, for a table with the columns `have`.
ColumnChanges(side, c, t, have) ==
  LET want == DOMAIN t.cols  held == DOMAIN have IN
  {SchemaChange(c, side, t.id, "add_column", f, None, t.cols[f]) : f \in want \ held}
    \cup {SchemaChange(c, side, t.id, "type_change", f, have[f], t.cols[f]) :
            f \in {f \in want \cap held : have[f] # t.cols[f]}}
    \cup {SchemaChange(c, side, t.id, "drop_column", f, have[f], None) : f \in held \ want}

KeyChange(side, c, e, key) ==
  {SchemaChange(c, side, Own(c), "pk_change", k, key, k) :
     k \in {k \in {PkField(e)} : k # None /\ key # None /\ k # key}}

\* reflectIndexes sees only the indexes that a config declared.
IndexChanges(side, c, e, ixs) ==
  {SchemaChange(c, side, Own(c), "add_index", i, None, i) : i \in e.indexes \ ixs}
    \cup {SchemaChange(c, side, Own(c), "drop_index", i, i, None) : i \in ixs \ e.indexes}

\* planFromSchema. A table that does not exist is no change; a registered name without one is none.
PlanFromSchema(d, cfg) ==
  LET Of(side, c) == UNION {
        LET held == d.tab[side, t.id] IN
        IF held = None THEN {}
        ELSE ColumnChanges(side, c, t, held.cols)
               \cup (IF t.id = Own(c) THEN KeyChange(side, c, cfg[c], held.key)
                                             \cup IndexChanges(side, c, cfg[c], held.ixs) ELSE {}) :
        t \in DeclaredTables(c, cfg[c])}
      Left(side, c) ==
        {SchemaChange(c, side, t, "drop_collection", None, t, None) :
           t \in {t \in {Own(c), FilesTable(c)} : d.tab[side, t] # None}}
  IN UNION ({Of(side, c) : <<side, c>> \in Sides \X NamesOf(cfg)}
              \cup {Left(side, c) : <<side, c>> \in Sides \X {c \in Names \ NamesOf(cfg) : d.reg[c] # None}})

\* planFromConfigs: no database, so a change is one of data_live, and no index is compared.
PlanFromConfigs(prev, next) ==
  LET Of(c) ==
        UNION {ColumnChanges("live", c, t, b.cols) :
                 <<t, b>> \in {p \in DeclaredTables(c, next[c]) \X DeclaredTables(c, prev[c]) : p[1].id = p[2].id}}
          \cup KeyChange("live", c, next[c], PkField(prev[c]))
  IN UNION {Of(c) : c \in NamesOf(prev) \cap NamesOf(next)}
       \cup {SchemaChange(c, "live", Own(c), "drop_collection", None, Own(c), None) : c \in NamesOf(prev) \ NamesOf(next)}

---------------------------------------------------------------------------
(* The migration that is written for a plan, and what Postgres makes of it *)

Statement(what, ch) == [what |-> what, coll |-> ch.coll, table |-> ch.table, field |-> ch.field, type |-> ch.to]
Line(s, on) == [s |-> s, on |-> on]

\* renderMigrationSql: `on` is FALSE for a statement that is written commented out.
Render(changes) ==
  LET live == {ch \in changes : ch.side = "live" /\ (IsDestructive(ch) \/ ch.kind = "drop_index")}
      LinesFor(ch) ==
        CASE ch.kind = "drop_index" -> {Line(Statement("drop index concurrently", ch), FALSE)}
          [] ch.kind = "drop_collection" ->
               {Line(Statement("drop table", ch), FALSE), Line(Statement("unregister", ch), FALSE)}
          [] ch.kind = "pk_change" -> {Line(Statement("drop key", ch), FALSE)}
          [] ch.kind = "drop_column" -> {Line(Statement("drop column", ch), FALSE)}
          [] OTHER -> {Line(Statement("drop tsv", ch), TRUE), Line(Statement("alter", ch), ~ReviewRequired(ch))}
  IN UNION {LinesFor(ch) \cup (IF IsDestructive(ch) THEN {Line(Statement("drop view", ch), TRUE)} ELSE {}) :
              ch \in live}

Worked(d) == [ok |-> TRUE, d |-> d]
Threw == [ok |-> FALSE]

\* The live views that select column f of table t.
ReadersOf(d, t, f) == {c \in Names : d.view["live", c] # None /\ <<t, f>> \in d.view["live", c]}
WithoutColumn(tb, f) ==
  [tb EXCEPT !.cols = [g \in DOMAIN @ \ {f} |-> @[g]], !.key = IF @ = f THEN None ELSE @, !.ixs = @ \ {f}]
WithoutViewsOf(v, side, t) ==
  [x \in DOMAIN v |-> IF x[1] = side /\ v[x] # None /\ (\E u \in v[x] : u[1] = t) THEN None ELSE v[x]]

\* What Postgres does with one statement on data_live, inside the transaction of its file.
Run(d, s) ==
  LET held == d.tab["live", s.table]
      free == held # None /\ ReadersOf(d, s.table, s.field) = {}
  IN CASE s.what = "drop view" -> Worked([d EXCEPT !.view["live", s.coll] = None])
       [] s.what = "unregister" -> Worked([d EXCEPT !.reg[s.coll] = None])
       [] s.what = "drop table" ->
            Worked([d EXCEPT !.tab["live", s.table] = None, !.view = WithoutViewsOf(@, "live", s.table)])
       [] s.what = "drop key" ->
            IF held = None THEN Worked(d) ELSE Worked([d EXCEPT !.tab["live", s.table].key = None])
       [] s.what = "drop tsv" ->
            IF held = None THEN Threw ELSE Worked([d EXCEPT !.tab["live", s.table].tsv = @ \ {s.field}])
       [] s.what = "drop column" ->
            IF free THEN Worked([d EXCEPT !.tab["live", s.table] = WithoutColumn(@, s.field)]) ELSE Threw
       [] s.what = "alter" ->
            IF free /\ s.field \in DOMAIN held.cols \ held.tsv
            THEN Worked([d EXCEPT !.tab["live", s.table].cols[s.field] = s.type]) ELSE Threw
       [] OTHER -> Threw  \* drop index concurrently: not in a transaction

\* The file from top to bottom: the views go first, a tsv column before the cast that needs it gone.
RunFile(d, lines) ==
  LET first == <<"drop view", "drop tsv", "alter", "drop column", "drop key", "drop table", "unregister",
                 "drop index concurrently">>
      Of(what) == SetToSeq({l.s : l \in {l \in lines : l.on /\ l.s.what = what}})
      all == FoldLeft(LAMBDA acc, what : acc \o Of(what), << >>, first)
  IN FoldLeft(LAMBDA acc, s : IF acc.ok THEN Run(acc.d, s) ELSE acc, Worked(d), all)

---------------------------------------------------------------------------
(* The DDL that apply issues, each string one transaction *)

\* datasetTableDDL: the table, the key's index, the declared indexes, and only then the new columns.
\* The pk is never among those.
CreateDataset(d, side, c, t, e) ==
  LET held == d.tab[side, t.id]
      base == IF held = None
              THEN [cols |-> t.cols, key |-> None, ixs |-> {}, tsv |-> {}, dims |-> 0, rows |-> {}]
              ELSE held
      key == IF base.key # None THEN base.key ELSE IF e.pk = None THEN "id" ELSE e.pk
      new == (DOMAIN t.cols \ DOMAIN base.cols) \ {e.pk}
  IN IF {key} \cup e.indexes \subseteq DOMAIN base.cols
     THEN Worked([d EXCEPT !.tab[side, t.id] =
            [base EXCEPT !.cols = [f \in DOMAIN @ \cup new |-> IF f \in new THEN t.cols[f] ELSE @[f]],
                         !.key = key, !.ixs = @ \cup e.indexes, !.tsv = @ \cup e.searchable]])
     ELSE Threw

\* fileTableDDL: both tables, the new metadata columns, and the index on the embedding, which
\* nothing puts back on a table that has lost it.
CreateFiles(d, side, c, e) ==
  LET files == d.tab[side, FilesTable(c)]
      chunks == d.tab[side, Chunked(c)]
      blank == [cols |-> << >>, key |-> "id", ixs |-> {}, tsv |-> {}, dims |-> 0, rows |-> {}]
      base == IF files = None THEN blank ELSE files
  IN IF chunks # None /\ chunks.dims = 0 THEN Threw
     ELSE Worked([d EXCEPT
            !.tab[side, FilesTable(c)] =
               [base EXCEPT !.cols = [f \in DOMAIN @ \cup DOMAIN e.fields |-> IF f \in DOMAIN @ THEN @[f] ELSE e.fields[f]]],
            !.tab[side, Chunked(c)] = IF chunks = None THEN [blank EXCEPT !.dims = e.dims] ELSE chunks])

\* tableDDL
CreateTables(d, side, c, e) ==
  IF e.kind = "file" THEN CreateFiles(d, side, c, e)
  ELSE CreateDataset(d, side, c, CHOOSE t \in DeclaredTables(c, e) : TRUE, e)

\* applyOn: a column of another width is dropped, so that it is made again at the width of the model.
Resize(d, side, c, e) ==
  LET held == d.tab[side, Chunked(c)] IN
  IF e.kind # "file" \/ held = None THEN Worked(d)
  ELSE IF held.dims \in {0, e.dims} THEN Worked(d)
  ELSE IF \E n \in Names : d.view[side, n] # None /\ <<Chunked(c), "embedding">> \in d.view[side, n] THEN Threw
  ELSE Worked([d EXCEPT !.tab[side, Chunked(c)].dims = 0])

\* datasetViewDDL, fileViewDDL: what the view selects, a joined collection's key and column included.
ViewColumns(c, e) ==
  IF e.kind = "file" THEN {<<FilesTable(c), f>> : f \in DOMAIN e.fields} \cup {<<Chunked(c), "embedding">>}
  ELSE {<<Own(c), f>> : f \in DOMAIN e.fields}
         \cup UNION {{<<Own(j.coll), "id">>, <<Own(j.coll), j.column>>} : j \in e.joins}

\* viewDDL, grantViewDDL, rlsDDL: dropped and made again, if every column it names is there.
CreateView(d, side, c, e) ==
  LET Has(u) == IF d.tab[side, u[1]] = None THEN FALSE
                ELSE IF u[2] = "embedding" THEN d.tab[side, u[1]].dims > 0
                ELSE u[2] \in DOMAIN d.tab[side, u[1]].cols
  IN IF \A u \in ViewColumns(c, e) : Has(u) THEN Worked([d EXCEPT !.view[side, c] = ViewColumns(c, e)])
     ELSE Threw

---------------------------------------------------------------------------
(* The operator *)

NoFiles == << >>
Off == [pc |-> "off", bundle |-> None, known |-> << >>, at |-> 1, blocked |-> {}, drop |-> << >>, gone |-> {},
        seen |-> {}, todo |-> << >>, mild |-> FALSE, alone |-> FALSE]

NoTables ==
  [tab |-> [x \in Sides \X TableNames |-> None], view |-> [x \in Sides \X Names |-> None],
   reg |-> [c \in Names |-> None]]

\* A database that Projects[1] has been applied to, as the steps of a boot below do it.
Served1 ==
  LET cfg == Projects[1]
      all == SetToSeq(Sides \X NamesOf(cfg))
      tables == FoldLeft(LAMBDA d, x : CreateTables(d, x[1], x[2], cfg[x[2]]).d, NoTables, all)
  IN [FoldLeft(LAMBDA d, x : CreateView(d, x[1], x[2], cfg[x[2]]).d, tables, all) EXCEPT !.reg = cfg]

FirstBundle == [cfg |-> 1, files |-> NoFiles]

\* Nothing has been deployed, or the first config has and one container serves it.
SchemaInit ==
  /\ applied = << >> /\ ran = << >>
  /\ migrations = NoFiles
  /\ guard = None
  /\ destroyed = {}
  /\ turns = 0 /\ starts = 0 /\ stops = 0
  /\ \/ /\ database = NoTables /\ project = 1
        /\ boot = [b \in Boots |-> Off]
     \/ /\ database = Served1 /\ project \in DOMAIN Projects \ {1}
        /\ \E b \in Boots :
             boot = [x \in Boots |-> IF x = b THEN [Off EXCEPT !.pc = "serving", !.bundle = FirstBundle, !.alone = TRUE]
                                     ELSE Off]

Booting(b) == boot[b].pc \notin {"off", "serving", "failed"}
\* What the operator does between two boots: none of it is seen by one that is under way, which has
\* its bundle, and of the database it reads what is there between them.
ByOperator ==
  /\ turns < MaxTurns /\ turns' = turns + 1
  /\ starts < MaxStarts  \* an edit that no boot is left to read
  /\ \A b \in Boots : ~Booting(b)
UnchangedSchema == UNCHANGED <<database, applied, ran, guard, boot, destroyed, starts, stops>>

EditConfig ==
  /\ ByOperator
  /\ project < Len(Projects) /\ project' = project + 1
  /\ UNCHANGED migrations /\ UnchangedSchema

\* writeMigration: the next number.
GenerateMigration(plan) ==
  /\ ByOperator
  /\ {ch \in plan : IsDestructive(ch) \/ ch.kind = "drop_index"} # {}
  /\ migrations' = Append(migrations, Render(plan))
  /\ UNCHANGED project /\ UnchangedSchema

\* buildPlan: from the database where it can be reached, from the config of the last deploy where not.
GenerateFromSchema == GenerateMigration(PlanFromSchema(database, Projects[project]))
GenerateFromSnapshot(b) ==
  boot[b].pc = "serving" /\ GenerateMigration(PlanFromConfigs(Projects[boot[b].bundle.cfg], Projects[project]))

\* The operator's editor: what was written commented out is uncommented, whenever that is.
Review(i) ==
  /\ ByOperator
  /\ \E l \in migrations[i] : ~l.on
  /\ migrations' = [migrations EXCEPT ![i] = {Line(l.s, TRUE) : l \in @}]
  /\ UNCHANGED project /\ UnchangedSchema

---------------------------------------------------------------------------
(* A container's boot *)

Is(b, pc) == boot[b].pc = pc
Cfg(b) == Projects[boot[b].bundle.cfg]
Files(b) == boot[b].bundle.files
Goes(b, r) == boot' = [boot EXCEPT ![b] = r]
UnchangedOperator == UNCHANGED <<project, migrations, turns>>
OnlyBoot == UNCHANGED <<database, applied, ran, guard, destroyed, starts, stops>> /\ UnchangedOperator
\* What a boot has read and planned is gone with it.
Settles(b, pc) ==
  Goes(b, [Off EXCEPT !.pc = pc, !.bundle = boot[b].bundle, !.mild = boot[b].mild, !.alone = boot[b].alone])
Aborts(b) == Settles(b, "failed")

\* A new container, with the project as it is now, or one of an earlier release that starts again.
StartBoot(b) ==
  /\ boot[b].pc \in {"off", "failed", "serving"} /\ starts < MaxStarts
  /\ \E bundle \in {[cfg |-> project, files |-> migrations], boot[b].bundle} \ {None} :
       boot' = [x \in Boots |->
                  IF x = b THEN [Off EXCEPT !.pc = IF bundle.files = NoFiles THEN "plan" ELSE "lock",
                                            !.bundle = bundle, !.alone = \A y \in Boots \ {b} : ~Booting(y)]
                  ELSE [boot[x] EXCEPT !.alone = FALSE]]
  /\ starts' = starts + 1
  /\ UNCHANGED <<database, applied, ran, guard, destroyed, stops>> /\ UnchangedOperator

\* Mutant: two connections hold the lock, as with a key per boot.
LockBeside(b) ==
  /\ Is(b, "lock") /\ Goes(b, [boot[b] EXCEPT !.pc = "migrate", !.known = applied])
  /\ guard' = b
  /\ UNCHANGED <<database, applied, ran, destroyed, starts, stops>> /\ UnchangedOperator

\* runProjectMigrations: the lock, and then the ledger as it is.
LockMigrations(b) ==
  /\ Is(b, "lock") /\ guard = None
  /\ guard' = b
  /\ Goes(b, [boot[b] EXCEPT !.pc = "migrate", !.known = applied])
  /\ UNCHANGED <<database, applied, ran, destroyed, starts, stops>> /\ UnchangedOperator

IsPending(b, i) == i > Len(boot[b].known)
\* The version has run, from a file that is not this one any more.
WasEdited(b, i) == ~IsPending(b, i) /\ boot[b].known[i] # Files(b)[i]

\* finally: what has failed lets the next boot in.
AbortMigration(b) == Aborts(b) /\ guard' = None /\ UNCHANGED <<database, applied, ran>>

\* The next file: history is skipped or refused, a pending one runs in a transaction with its ledger row.
RunMigration(b) ==
  LET i == boot[b].at IN
  /\ Is(b, "migrate") /\ i <= Len(Files(b))
  /\ IF WasEdited(b, i) THEN AbortMigration(b)
     ELSE IF ~IsPending(b, i) THEN
       /\ Goes(b, [boot[b] EXCEPT !.at = i + 1]) /\ UNCHANGED <<database, applied, ran, guard>>
     ELSE LET r == RunFile(database, Files(b)[i]) IN
       IF r.ok
       THEN /\ database' = r.d
            /\ applied' = IF i > Len(applied) THEN Append(applied, Files(b)[i]) ELSE applied
            /\ ran' = IF i > Len(ran) THEN Append(ran, 1) ELSE [ran EXCEPT ![i] = @ + 1]
            /\ Goes(b, [boot[b] EXCEPT !.at = i + 1]) /\ UNCHANGED guard
       ELSE AbortMigration(b)
  /\ UNCHANGED <<destroyed, starts, stops>> /\ UnchangedOperator

UnlockMigrations(b) ==
  /\ Is(b, "migrate") /\ boot[b].at > Len(Files(b))
  /\ guard' = None /\ Goes(b, [boot[b] EXCEPT !.pc = "plan", !.known = << >>, !.at = 1])
  /\ UNCHANGED <<database, applied, ran, destroyed, starts, stops>> /\ UnchangedOperator

\* resolveDestructiveChanges, and what an additive plan goes on to.
PlanBoot(b) ==
  LET plan == PlanFromSchema(database, Cfg(b))
      breaking == {ch \in plan : IsDestructive(ch)} IN
  /\ Is(b, "plan")
  /\ Goes(b, [boot[b] EXCEPT !.blocked = breaking, !.mild = breaking = {},
                             !.pc = IF breaking = {} THEN "tables" ELSE "probe",
                             !.todo = IF breaking = {} THEN SetToSeq(NamesOf(Cfg(b))) ELSE << >>])
  /\ OnlyBoot

LiveRowsOf(d) == UNION {IF d.tab["live", t] = None THEN {} ELSE d.tab["live", t].rows : t \in TableNames}
\* A file collection's two tables are dropped as a pair.
ToDrop(ch) == {<<ch.side, t>> : t \in IF ch.table[2] = "files" THEN {ch.table, Chunked(ch.table[1])} ELSE {ch.table}}

Populated(ch) == IF ch.side # "live" \/ database.tab["live", ch.table] = None THEN FALSE
                 ELSE database.tab["live", ch.table].rows # {}

\* One `select 1 ... limit 1` per live table: any row, and the whole plan is refused.
Probe(b) ==
  /\ Is(b, "probe")
  /\ IF \E ch \in boot[b].blocked : Populated(ch) THEN Aborts(b)
     ELSE Goes(b, [boot[b] EXCEPT !.pc = "drop", !.seen = LiveRowsOf(database),
                     !.drop = SetToSeq(UNION {ToDrop(ch) : ch \in boot[b].blocked}),
                     !.gone = {ch.coll : ch \in {ch \in boot[b].blocked : ch.kind = "drop_collection"}}])
  /\ OnlyBoot

\* drop table if exists ... cascade, one statement each.
DropTable(b) ==
  LET x == Head(boot[b].drop)
      lost == IF x[1] = "synth" \/ database.tab[x] = None THEN {} ELSE database.tab[x].rows
  IN /\ Is(b, "drop") /\ boot[b].drop # << >>
     /\ database' = [database EXCEPT !.tab[x] = None, !.view = WithoutViewsOf(@, x[1], x[2])]
     /\ destroyed' = destroyed \cup (lost \cap boot[b].seen)
     /\ Goes(b, [boot[b] EXCEPT !.drop = Tail(@)])
     /\ UNCHANGED <<applied, ran, guard, starts, stops>> /\ UnchangedOperator

\* A collection that left the YAML leaves the registry.
Unregister(b) ==
  /\ Is(b, "drop") /\ boot[b].drop = << >>
  /\ database' = [database EXCEPT !.reg = [c \in Names |-> IF c \in boot[b].gone THEN None ELSE @[c]]]
  /\ Goes(b, [boot[b] EXCEPT !.pc = "tables", !.todo = SetToSeq(NamesOf(Cfg(b))),
                             !.blocked = {}, !.gone = {}, !.seen = {}])
  /\ UNCHANGED <<applied, ran, guard, destroyed, starts, stops>> /\ UnchangedOperator

\* One string of DDL per schema.
Issue(b, OnSide(_, _), next) ==
  LET synth == OnSide(database, "synth")
      live == IF synth.ok THEN OnSide(synth.d, "live") ELSE synth
  IN IF live.ok
     THEN database' = live.d /\ Goes(b, next)
     ELSE database' = (IF synth.ok THEN synth.d ELSE database) /\ Aborts(b)

TablesOf(b) ==
  LET c == Head(boot[b].todo)
      OnSide(d, side) == LET r == Resize(d, side, c, Cfg(b)[c]) IN
                         IF r.ok THEN CreateTables(r.d, side, c, Cfg(b)[c]) ELSE r
  IN /\ Is(b, "tables") /\ boot[b].todo # << >>
     /\ Issue(b, OnSide, IF Tail(boot[b].todo) # << >> THEN [boot[b] EXCEPT !.todo = Tail(@)]
                         ELSE [boot[b] EXCEPT !.pc = "views", !.todo = SetToSeq(NamesOf(Cfg(b)))])
     /\ UNCHANGED <<applied, ran, guard, destroyed, starts, stops>> /\ UnchangedOperator

ViewsOf(b) ==
  LET c == Head(boot[b].todo)
      OnSide(d, side) == CreateView(d, side, c, Cfg(b)[c])
  IN /\ Is(b, "views") /\ boot[b].todo # << >>
     /\ Issue(b, OnSide, [boot[b] EXCEPT !.pc = "register"])
     /\ UNCHANGED <<applied, ran, guard, destroyed, starts, stops>> /\ UnchangedOperator

RegisterCollection(b) ==
  LET c == Head(boot[b].todo) IN
  /\ Is(b, "register")
  /\ database' = [database EXCEPT !.reg[c] = Cfg(b)[c]]
  /\ Goes(b, [boot[b] EXCEPT !.pc = "views", !.todo = Tail(@)])
  /\ UNCHANGED <<applied, ran, guard, destroyed, starts, stops>> /\ UnchangedOperator

Serve(b) ==
  /\ Is(b, "views") /\ boot[b].todo = << >>
  /\ Settles(b, "serving") /\ OnlyBoot

\* The container stops, or a query of it fails: what it held goes with its connection.
StopBoot(b) ==
  /\ Booting(b) /\ stops < MaxStops
  /\ stops' = stops + 1
  /\ guard' = IF guard = b THEN None ELSE guard
  /\ Settles(b, "off")
  /\ UNCHANGED <<database, applied, ran, destroyed, starts>> /\ UnchangedOperator

\* A write to data_live, by whoever serves: an import, a document, an upload.
WriteLive(b, c, r) ==
  /\ Is(b, "serving") /\ Cfg(b)[c] # None
  /\ r \notin LiveRowsOf(database)
  /\ LET t == IF Cfg(b)[c].kind = "file" THEN FilesTable(c) ELSE Own(c) IN
     /\ database.tab["live", t] # None
     /\ database' = [database EXCEPT !.tab["live", t].rows = @ \cup {r}]
  /\ UNCHANGED <<applied, ran, guard, boot, destroyed, starts, stops>> /\ UnchangedOperator

BootStep(b) ==
  \/ LockMigrations(b) \/ RunMigration(b) \/ UnlockMigrations(b)
  \/ PlanBoot(b) \/ Probe(b) \/ DropTable(b) \/ Unregister(b)
  \/ TablesOf(b) \/ ViewsOf(b) \/ RegisterCollection(b) \/ Serve(b)

SchemaNext ==
  \/ EditConfig \/ GenerateFromSchema
  \/ \E i \in DOMAIN migrations : Review(i)
  \/ \E b \in Boots : GenerateFromSnapshot(b) \/ StartBoot(b) \/ BootStep(b) \/ StopBoot(b)
  \/ \E b \in Boots, c \in Names, r \in LiveRows : WriteLive(b, c, r)

SchemaSpec == SchemaInit /\ [][SchemaNext]_schemaVars

---------------------------------------------------------------------------
(* Properties *)

Pcs == {"off", "lock", "migrate", "plan", "probe", "drop", "tables", "views", "register", "serving", "failed"}

\* Every variable holds what the code can put in it; the lock's holder is in its migrations.
SchemaTypeOK ==
  /\ project \in DOMAIN Projects /\ Len(applied) = Len(ran) /\ Len(migrations) <= MaxTurns
  /\ \A b \in Boots : boot[b].pc \in Pcs /\ (boot[b].pc = "migrate" <=> guard = b)
  /\ \A b \in Boots : Booting(b) => boot[b].bundle # None
  /\ destroyed \subseteq LiveRows
  /\ LiveRowsOf(database) \subseteq LiveRows

\* project-migrations.ts: of two containers that boot at once, and of one that stops half way,
\* no migration takes effect twice.
MigrationsOnce == \A i \in DOMAIN ran : ran[i] = 1

\* "An applied migration is history, not a draft": a container that has got past the migrations
\* has in its bundle, for every version, the file that ran.
LedgerServed ==
  \A b \in Boots : boot[b].pc \in Pcs \ {"off", "lock", "migrate", "failed"} =>
    \A i \in DOMAIN Files(b) : i \in DOMAIN applied /\ applied[i] = Files(b)[i]

\* resolveDestructiveChanges: a boot never takes a live row that was there when it looked.
SeenRowsSurvive == destroyed = {}

\* What a container serves is what its config declares, if no other booted meanwhile: every column
\* at its type, the key where the config has it, the view and the registry of this config.
ServedAsDeclared ==
  \A b \in Boots : Is(b, "serving") /\ boot[b].alone =>
    \A c \in NamesOf(Cfg(b)), side \in Sides :
      LET e == Cfg(b)[c] IN
      /\ \A t \in DeclaredTables(c, e) : database.tab[side, t.id] # None /\ database.tab[side, t.id].cols = t.cols
      /\ e.kind = "dataset" /\ e.pk # None => database.tab[side, Own(c)].key = e.pk
      /\ e.kind = "dataset" => e.indexes \subseteq database.tab[side, Own(c)].ixs
      /\ database.view[side, c] = ViewColumns(c, e)
      /\ database.reg[c] = e

\* plan.ts: "false => applyConfig's existing additive DDL already covers it". A plan without a
\* destructive change goes through.
AdditiveApplies == ~\E b \in Boots : Is(b, "failed") /\ boot[b].mild /\ boot[b].alone

LiveBreaks(plan) == {ch \in plan : IsDestructive(ch) /\ ch.side = "live"}
\* migration-sql.ts: "a migration that fails in production rather than on the operator's machine".
\* The migration written for a plan that needs no review runs as it is on the database that is
\* served, and leaves nothing to refuse.
LosslessUnblocks ==
  (\E b \in Boots : Is(b, "serving")) => \A k \in DOMAIN Projects :
    LET breaks == LiveBreaks(PlanFromSchema(database, Projects[k]))
        r == RunFile(database, Render(breaks))
    IN (\A ch \in breaks : ~ReviewRequired(ch)) => r.ok /\ LiveBreaks(PlanFromSchema(r.d, Projects[k])) = {}

About(plan) == {<<ch.coll, ch.kind, ch.field>> : ch \in LiveBreaks(plan)}
\* preflight.ts: the deploy's early warning, which has only the snapshot, is about the very changes
\* that the boot's verdict is about, which has only the database.
PlansAgree ==
  \A b \in Boots : Is(b, "serving") /\ boot[b].alone =>
    \A k \in DOMAIN Projects :
      About(PlanFromConfigs(Cfg(b), Projects[k])) =
        {x \in About(PlanFromSchema(database, Projects[k])) : x[1] \in NamesOf(Cfg(b))}

\* The promises of a boot about the schema, together: it serves what is declared, by migrations
\* that ran once, over rows that are kept, or does not serve at all.
SchemaCorrect ==
  /\ SchemaTypeOK /\ MigrationsOnce /\ LedgerServed /\ SeenRowsSurvive /\ ServedAsDeclared
  /\ AdditiveApplies /\ LosslessUnblocks /\ PlansAgree
=============================================================================
