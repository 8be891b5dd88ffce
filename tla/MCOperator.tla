---------------------------- MODULE MCOperator ----------------------------
(* What those in charge do: decisions on grants, the application of a schema *)
(* and its migrations, the configuration and what it leaves of a grant,      *)
(* `warehousd init` and `warehousd deploy`.  They share no variable: a       *)
(* behaviour is one of them, and the others keep their first state.          *)
EXTENDS MCAccess, Schema, Config, Scaffold, Deploy, Reach, TLC
CONSTANTS orders, papers, supabase, neon, plain, docker, fly, brew, npm, scoop, winget, apt, alba
VARIABLE part   \* which of them this behaviour is of

(* Three states of a schema, one after the other: a column retyped and another added,
   then a new key and a collection dropped. *)
Dataset(fields, pk, searchable, joins, indexes) ==
  [kind |-> "dataset", fields |-> fields, pk |-> pk, searchable |-> searchable, joins |-> joins,
   indexes |-> indexes, dims |-> 0]
Folder(fields, dims) ==
  [kind |-> "file", fields |-> fields, pk |-> None, searchable |-> {}, joins |-> {}, indexes |-> {}, dims |-> dims]

IdAnd(f, type) == "id" :> "uuid" @@ f :> type
Docs1 == Folder("tag" :> "text", 384)
Amount == Dataset(IdAnd("f", "integer"), "id", {}, {}, {})
AmountKey == Dataset(IdAnd("f", "integer"), "f", {}, {}, {})
TextAndG == Dataset(IdAnd("f", "text") @@ "g" :> "text", "id", {"f"}, {}, {"f"})
Steps == << orders :> Amount @@ papers :> Docs1, orders :> TextAndG @@ papers :> Folder("tag" :> "text[]", 384),
            orders :> AmountKey @@ papers :> None >>

(* People who have a boss, tickets that people own, and notes in files; the edits of an
   operator who tries one thing after another. *)
Allow == [form |-> "short", read |-> "allow", write |-> "deny", unmask |-> "deny"]
Deny == [Allow EXCEPT !.read = "deny"]
ReadWrite == [form |-> "long", read |-> "allow", write |-> "allow", unmask |-> "deny"]
MaskOf(raw) == [form |-> "long", read |-> "mask", write |-> "deny", unmask |-> raw]
Transform(t, n) == [transform |-> t, amount |-> n]
FieldOf(t) == [type |-> t, posture |-> Allow, mask |-> None, column |-> None, pk |-> FALSE, fk |-> None,
             join |-> None, rel |-> None, searchable |-> FALSE]
TableOf(fields) == [type |-> "dataset", source |-> None, ref |-> None, taxonomies |-> {}, indexes |-> <<>>,
                    writable |-> FALSE, acl |-> FALSE, import |-> None, fields |-> fields]
Selecting(s) == [f \in {s} |-> [posture |-> Allow, mask |-> None]]
OneTo(c, on, s) == [form |-> "one", collection |-> c, on |-> on, select |-> Selecting(s)]
ManyOf(c, via, s, n) ==
  [form |-> "many", collection |-> c, via |-> via, select |-> Selecting(s), limit |-> n, order |-> s]

MCWritten ==
  [collections |->
     [people |-> [TableOf([id |-> [FieldOf("uuid") EXCEPT !.pk = TRUE],
                           name |-> FieldOf("text"),
                           salary |-> [FieldOf("int") EXCEPT !.posture = MaskOf("allow"), !.mask = Transform("bucket", 10)]])
                  EXCEPT !.import = [Name |-> "name"]],
      tickets |-> [TableOf([id |-> [FieldOf("uuid") EXCEPT !.pk = TRUE],
                            body |-> [FieldOf("text") EXCEPT !.posture = ReadWrite, !.searchable = TRUE],
                            owner |-> [FieldOf("uuid") EXCEPT !.fk = <<"people", "id">>],
                            who |-> [FieldOf(None) EXCEPT !.rel = OneTo("people", "owner", "name")]])
                   EXCEPT !.writable = TRUE, !.taxonomies = {"topic"}, !.indexes = <<<<"owner">>>>],
      notes |-> [TableOf([title |-> FieldOf(None), year |-> FieldOf("int")]) EXCEPT !.type = "file", !.source = "notes"]],
   taxonomies |-> [topic |-> [terms |-> {"a"}, source |-> None]],
   sources |-> {"crm"},
   settings |-> [k \in {"database.url", "database.provider", "deploy.target", "deploy.managed", "deploy.url",
                        "deploy.provider", "deploy.region", "embedding.provider", "embedding.base_url",
                        "embedding.api_key", "audit.sink", "audit.url"} |->
                  IF k = "database.url" THEN "DB_URL" ELSE IF k = "audit.sink" THEN "postgres" ELSE None]]

On(c, f, key, to) == [c |-> c, f |-> f, key |-> key, to |-> to]
MCEdits ==
  {On("people", "name", "posture", MaskOf("deny")), On("people", "name", "mask", Transform("first", 64)),
   On("people", "name", "pk", TRUE), On("people", "name", "searchable", TRUE), On("people", "id", "pk", FALSE),
   On("people", "salary", "posture", Allow), On("people", "salary", "mask", None),
   On("people", "name", "posture", [MaskOf("allow") EXCEPT !.read = "allow"]),
   On("people", "tickets", "whole", [FieldOf(None) EXCEPT !.rel = ManyOf("tickets", "owner", "id", 50)]),
   On("people", "tickets", "whole", [FieldOf(None) EXCEPT !.rel = ManyOf("tickets", "owner", "who", 51)]),
   On("people", None, "acl", TRUE), On("people", None, "ref", [source |-> "crm"]),
   On("people", None, "ref", [source |-> "erp"]), On("people", None, "writable", TRUE),
   On("people", "name", "column", "full_name"), On("people", None, "type", "file"),
   On("people", None, "import", [Name |-> "name", Full |-> "name"]),
   On("tickets", None, "indexes", <<<<"body", "owner">>>>), On("tickets", None, "indexes", <<<<"who">>>>), On("tickets", None, "indexes", <<<<"id", "owner">>>>),
   On("tickets", "owner", "fk", None), On("tickets", "topic", "whole", FieldOf(None)),
   On("tickets", "topic", "whole", [FieldOf("int") EXCEPT !.posture = ReadWrite]),
   On("tickets", "who", "posture", ReadWrite), On("tickets", "who", "rel", OneTo("notes", "owner", "title")),
   On("tickets", "boss", "whole", [FieldOf("text") EXCEPT !.join = [table |-> "people", column |-> "name", on |-> "owner"]]),
   On("tickets", "body_tsv", "whole", FieldOf("text")),
   On("notes", "title", "posture", MaskOf("deny")), On("notes", "title", "mask", Transform("year", 0)),
   On("notes", "content", "whole", [FieldOf(None) EXCEPT !.posture = MaskOf("deny"), !.mask = Transform("hash", 0)]),
   On("notes", None, "taxonomies", {"area"}),
   On("taxonomies", "area", "whole", [terms |-> None, source |-> [collection |-> "people", slug |-> "id", label |-> "name"]]),
   On("taxonomies", "topic", "whole", [terms |-> None, source |-> [collection |-> "notes", slug |-> "title", label |-> "title"]]),
   On("settings", None, "database.provider", "neon"), On("settings", None, "deploy.target", "fly"),
   On("settings", None, "deploy.managed", "yes"), On("settings", None, "deploy.url", "DB_URL"),
   On("settings", None, "embedding.provider", "http"), On("settings", None, "audit.sink", "webhook")}
MCOverlays ==
  {On("settings", None, "database.url", "MY_URL"), On("settings", None, "database.url", None),
   On("settings", None, "audit.url", "MY_URL"), On("settings", None, "deploy.provider", "neon"),
   On("settings", None, "embedding.base_url", "MY_URL"),
   On("people", "salary", "posture", Deny), On("people", "salary", "mask", None),
   On("tickets", "body", "posture", MaskOf("deny")), On("tickets", None, "taxonomies", {})}
MCBytes == [f \in {"id", "name", "salary", "body", "owner", "who", "topic", "title", "tickets", "boss"} |-> IF f = "body" THEN 25 ELSE 5]
MCTsv == [f \in {"id", "name", "salary", "body", "owner", "who", "topic", "title", "year", "tickets", "boss", "content", "body_tsv", "area"} |->
            f \o "_tsv"]

(* Three machines, and folders of files for a scaffold. *)
MCProviders == {supabase, neon, plain}
MCHosts == {supabase, neon}
MCLocalHosts == {supabase}
MCInstallers(t) == CASE t = docker -> <<brew, winget>>
                     [] t = supabase -> <<brew, npm, scoop>>
                     [] t = neon -> <<npm, brew>>

MCCandidates(p) == IF p = "mac" THEN {brew, npm} ELSE {apt, npm}

\* A Mac, a Linux machine with nothing but npm and apt-get, and one that is set up but for a login,
\* whose brew is not looked for.
MCMachines ==
  {[platform |-> "mac", has |-> {brew, npm}, tools |-> [t \in MCHosts \cup {docker} |-> "absent"]],
   [platform |-> "linux", has |-> {apt, npm},
    tools |-> (docker :> "absent" @@ supabase :> "absent" @@ neon :> "ready")],
   [platform |-> "linux", has |-> {brew}, tools |-> (docker :> "silent" @@ supabase :> "absent" @@ neon :> "ready")]}

File(kind, stem) == [kind |-> kind, stem |-> stem]
MCFolders ==
  {<<>>,
   \* ann.csv, ann.json, ann_2.csv and a directory
   <<File("rows", <<alba>>), File("rows", <<alba>>), File("other", <<alba>>), File("rows", <<alba, 2>>)>>,
   <<File("none", <<alba>>), File("unreadable", <<alba>>), File("rows", <<alba>>), File("vanished", <<alba>>)>>}
MCTitles == {<<"_", "_">>, <<"_", "x", "_", "_", "x", "_">>}
MCNewIgnore == [lines |-> <<>>, open |-> FALSE]
MCDrafts ==
  {[lines |-> <<{"dist"}>>, open |-> TRUE],
   [lines |-> <<{".warehousd/"}, {"# see", "warehousd.local.yml"}>>, open |-> FALSE]}

(* Projects on each target, on each kind of database. *)
\* Two fields, two collections, one taxonomy.
Open == [type |-> "text", read |-> "open", write |-> "closed"]
PeopleFrom(live, source) ==
    [fields |-> [name |-> Open, amount |-> [Open EXCEPT !.type = "int"]], writable |-> FALSE,
     taxonomies |-> {}, source |-> source, live |-> live]
FirstSchema == [people |-> PeopleFrom("live", "docs")]
\* A posture tightened and a taxonomy bound: no data at stake.
PostureSchema == [people |-> [PeopleFrom("live", "docs") EXCEPT !.fields.name.read = "masked",
                                                        !.taxonomies = {"area"}, !.writable = TRUE]]
\* A column dropped, another retyped, and a collection added.
DropSchema == [people |-> [PeopleFrom("live", "docs") EXCEPT !.fields = [name |-> [Open EXCEPT !.type = "date"]]],
               notes |-> PeopleFrom(None, None)]

Plain == [target |-> "fly", db |-> "managed", provider |-> None, place |-> "r1", dbRegion |-> FALSE,
          refs |-> TRUE, demo |-> FALSE, audit |-> TRUE, sso |-> TRUE, sources |-> FALSE,
          server |-> None, schema |-> FirstSchema]
AtSupabase == [Plain EXCEPT !.provider = "supabase", !.dbRegion = TRUE, !.schema = PostureSchema]
AtNeon == [Plain EXCEPT !.provider = "neon", !.dbRegion = TRUE, !.target = "compose",
                        !.place = None, !.sso = FALSE]
OnRailway == [Plain EXCEPT !.target = "railway", !.schema = DropSchema]
OnCompose == [Plain EXCEPT !.target = "compose", !.audit = FALSE]

\* Databases the operator runs: one that will do, and one short of each thing that is asked.
Able == [reachable |-> TRUE, sso |-> TRUE, creates |-> TRUE, host |-> "generic",
         extensions |-> {"vector", "pgcrypto"}, grants |-> FALSE, public |-> TRUE,
         roles |-> 0, lacking |-> 0]
Servers == {Able, [Able EXCEPT !.creates = FALSE], [Able EXCEPT !.extensions = {"vector"}],
            [Able EXCEPT !.public = FALSE], [Able EXCEPT !.host = "neon"],
            [Able EXCEPT !.public = FALSE, !.roles = 4, !.lacking = 1]}
OnUrl == {[Plain EXCEPT !.db = "url", !.sso = FALSE, !.provider = "supabase", !.server = v]
          : v \in Servers}

MCSetups == {Plain, AtSupabase, AtNeon, OnRailway, OnCompose} \cup OnUrl
MCLater == {OnRailway}
MCFlags == {[localLogin |-> FALSE, noAudit |-> FALSE, yes |-> FALSE],
            [localLogin |-> TRUE, noAudit |-> TRUE, yes |-> TRUE]}
MCUnder == [docs |-> {"a"}, live |-> {"b"}]

\* Three files: everything, without the name and the offer of the pay, and without the collection.
FirstFile == [read |-> [name |-> "allow", pay |-> "mask"], raw |-> {"pay"}, write |-> {"name"}, verbs |-> {}, days |-> 1]
MCLayouts ==
  {None, FirstFile,
   [FirstFile EXCEPT !.read.name = "deny", !.raw = {}, !.write = {"pay"}, !.verbs = {"create"}, !.days = None]}
MCVerbSets == {{"read"}, {"create"}, {"create", "approve"}}
-----------------------------------------------------------------------------
FirstAccess == grants = (CHOOSE rows \in FirstGrants : TRUE) /\ Init
SchemaAside == project = 1 /\ SchemaInit
ScaffoldAside == machine = (CHOOSE m \in Machines : TRUE) /\ ScaffoldInit
DeployAside ==
  /\ setup = (CHOOSE s \in Setups : TRUE)
  /\ made = [link |-> None, apps |-> {}, flyDb |-> FALSE, attached |-> FALSE, railDbs |-> 0, spare |-> 0]
  /\ DepInit
ProjectAside == SchemaAside /\ ConfigInit /\ ScaffoldAside /\ DeployAside

ProjectVars == <<schemaVars, configVars, scaffoldVars, depvars, reachVars>>
OperatorVars == <<vars, ProjectVars, part>>
OperatorInit ==
  \/ part = "grants" /\ Init /\ ProjectAside /\ ReachInit
  \/ part = "schema" /\ FirstAccess /\ SchemaInit /\ ConfigInit /\ ScaffoldAside /\ DeployAside /\ ReachInit
  \/ part \in {"config", "asking", "deciding"} /\ FirstAccess /\ ProjectAside /\ ReachInit
  \/ part = "scaffold" /\ FirstAccess /\ SchemaAside /\ ConfigInit /\ ScaffoldInit /\ DeployAside /\ ReachInit
  \/ part = "deploy" /\ FirstAccess /\ SchemaAside /\ ConfigInit /\ ScaffoldAside /\ DepInit /\ ReachInit
OperatorNext ==
  /\ UNCHANGED part
  /\ \/ part = "grants" /\ Next /\ UNCHANGED ProjectVars
     \/ part = "schema" /\ SchemaNext /\ UNCHANGED <<vars, configVars, scaffoldVars, depvars, reachVars>>
     \/ part = "config" /\ ConfigNext /\ UNCHANGED <<vars, schemaVars, scaffoldVars, depvars, reachVars>>
     \/ part = "scaffold" /\ ScaffoldNext /\ UNCHANGED <<vars, schemaVars, configVars, depvars, reachVars>>
     \/ part = "deploy" /\ DepNext /\ UNCHANGED <<vars, schemaVars, configVars, scaffoldVars, reachVars>>
     \* The sheet with requests nobody decides, and requests of a tool, so that it stays small.
     \/ part = "asking" /\ (FileStep \/ SheetStep) /\ UNCHANGED <<vars, schemaVars, configVars, scaffoldVars, depvars>>
     \/ part = "deciding" /\ (FileStep \/ GrantStep) /\ UNCHANGED <<vars, schemaVars, configVars, scaffoldVars, depvars>>
     \* Decisions may not come to a stop; the rest may, at its bounds.
     \/ part # "grants" /\ UNCHANGED <<vars, ProjectVars>>
OperatorSpec == OperatorInit /\ [][OperatorNext]_OperatorVars

\* What is made of a configuration: the graph that is loaded, and the files of a new project.  Each
\* where its state moves; elsewhere it is a first state of its own part.
FilesCorrect == (part = "config" => ConfigCorrect) /\ (part = "scaffold" => ScaffoldCorrect)
=============================================================================
