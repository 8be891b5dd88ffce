------------------------------- MODULE Deploy -------------------------------
(***************************************************************************)
(* `warehousd deploy` and `warehousd deploy --destroy` (packages/cli/src). *)
(* The command runs on the operator's machine and drives other people's    *)
(* CLIs one call at a time; between two calls it can be killed, a call can *)
(* fail, and the operator can edit warehousd.yml.  What survives is what   *)
(* the providers created and four things on disk: state.json (`saved`),    *)
(* outputs.deploy.json (`outputs`), the bundle and the migrations.         *)
(*                                                                         *)
(* A setup is warehousd.yml with the operator's environment: the fields    *)
(* the command branches on.  Its schema names collections, each with its   *)
(* fields, so that the diff and the migration check compare real configs.  *)
(***************************************************************************)
EXTENDS Integers, FiniteSets, Absent

CONSTANTS
    Setups,        \* the versions of warehousd.yml and environment the operator may have
    Later,         \* those of them that an edit may lead to
    Flags,         \* the command lines: records of localLogin, noAudit and yes
    Torn,          \* a file whose writing was cut short: it does not parse
    Under,         \* Under[path]: the documents found anywhere below a directory
    MaxCommands, MaxEdits, MaxMigrations,   \* bounds on what the operator does
    MaxFaults,     \* bound on calls that fail and answers nobody can read
    MaxKills       \* bound on the times the command is killed

VARIABLES
    setup,         \* warehousd.yml and the environment, now
    onDisk,    \* how many files there are in migrations/
    saved,         \* state.json: None, Torn or [keys, database]
    outputs,       \* outputs.deploy.json: None, Torn or what was recorded
    bundle,        \* .warehousd/deploy/context: None or what was copied
    projects,      \* the projects that exist at the database providers
    made,          \* what exists at the deploy targets
    secrets,       \* per target, the KEY=VALUE lines it was last given
    release,       \* per target, what it was last told to run
    command,       \* the process: None or where it is and what it holds
    drawn,         \* how many times secrets were drawn, and refs handed out
    lost,          \* history: refs of projects whose record went missing by accident
    spent          \* how much of each bound is used

depvars == <<setup, onDisk, saved, outputs, bundle, projects, made, secrets, release,
             command, drawn, lost, spent>>

HostTargets == {"fly", "railway", "compose"}
DbHosts == {"supabase", "neon"}
Readable(f) == f \notin {None, Torn}

-----------------------------------------------------------------------------
(* What the command computes from two configs. *)

Colls(s) == DOMAIN s.schema
FieldsOf(s, c) == DOMAIN s.schema[c].fields

\* planFromConfigs, the destructive part: a dropped collection or column, a changed type.
Destructive(prev, next) ==
    {<<"drop_collection", c>> : c \in Colls(prev) \ Colls(next)}
    \cup UNION {{<<"drop_column", c, f>> : f \in FieldsOf(prev, c) \ FieldsOf(next, c)}
                : c \in Colls(prev) \cap Colls(next)}
    \cup UNION {{<<"type_change", c, f>> :
                    f \in {g \in FieldsOf(prev, c) \cap FieldsOf(next, c) :
                              prev.schema[c].fields[g].type # next.schema[c].fields[g].type}}
                : c \in Colls(prev) \cap Colls(next)}

\* compareDeploy: the region and where the database comes from; not the target, not the provider.
DeployItems(prev, next) ==
    (IF prev.place # next.place THEN {<<"region">>} ELSE {})
    \cup (IF prev.db # next.db THEN {<<"database">>} ELSE {})

\* compareCollections: what was added and removed; the rest only for collections on both sides.
CollectionItems(prev, next) ==
    {<<"removed", c>> : c \in Colls(prev) \ Colls(next)}
    \cup {<<"added", c>> : c \in Colls(next) \ Colls(prev)}

\* compareFields: postures of the fields on both sides, then the fields that came and went.
FieldItems(prev, next, c) ==
    LET p == prev.schema[c].fields
        n == next.schema[c].fields
    IN  {<<"read", c, f>> : f \in {g \in DOMAIN p \cap DOMAIN n : p[g].read # n[g].read}}
        \cup {<<"write", c, f>> : f \in {g \in DOMAIN p \cap DOMAIN n : p[g].write # n[g].write}}
        \cup {<<"field added", c, f>> : f \in DOMAIN n \ DOMAIN p}
        \cup {<<"field removed", c, f>> : f \in DOMAIN p \ DOMAIN n}

\* compareWritable and compareTaxonomies, for one collection on both sides.
ShapeItems(prev, next, c) ==
    (IF prev.schema[c].writable # next.schema[c].writable THEN {<<"writable", c>>} ELSE {})
    \cup {<<"taxonomy", c, t>> :
            t \in (prev.schema[c].taxonomies \ next.schema[c].taxonomies)
                  \cup (next.schema[c].taxonomies \ prev.schema[c].taxonomies)}

\* renderConfigDiff: what the operator reads before the prompt.
Diff(prev, next) ==
    IF prev = None THEN {<<"full config">>}
    ELSE Destructive(prev, next) \cup DeployItems(prev, next) \cup CollectionItems(prev, next)
         \cup UNION {FieldItems(prev, next, c) \cup ShapeItems(prev, next, c)
                     : c \in Colls(prev) \cap Colls(next)}

\* collectBundlePaths: the YAML, the migrations, every collection's `source`, never `source_live`.
BundlePaths(s) == {s.schema[c].source : c \in Colls(s)} \ {None}

\* What writeBundle leaves in the context directory; it copies directories whole, from disk.
Bundled(paths, yaml) ==
    [yaml |-> yaml, migrations |-> 1..onDisk, documents |-> UNION {Under[p] : p \in paths}]

-----------------------------------------------------------------------------
(* Pre-flight. *)

\* ensureExtensionSearchPath can work: it may grant, everyone may use, or every role already does.
SearchPathBlocked(v) ==
    /\ ~v.grants /\ ~v.public
    /\ v.roles = 0 \/ v.lacking > 0

\* A configured provider that contradicts the host the url names.
ProviderMismatch(s) == s.provider # None /\ s.server.host \notin {"generic", s.provider}

\* databaseCapabilities: asked of the catalogue of a database the operator pointed at.
DatabaseChecks(s) ==
    /\ s.server.reachable
    /\ s.server.creates
    /\ ({"vector", "pgcrypto"} \cup (IF s.sources THEN {"postgres_fdw"} ELSE {}))
           \subseteq s.server.extensions
    /\ ~SearchPathBlocked(s.server)
    /\ ~ProviderMismatch(s)

\* ssoOrLocalLoginCheck: an identity provider in the environment or in the database, or the flag.
LoginCheck(s, o) ==
    \/ o.localLogin
    \/ s.sso
    \/ s.db = "url" /\ s.server.reachable /\ s.server.sso

\* schemaMigrationsCheck: a destructive change since the recorded deploy needs a newer migration.
MigrationsCheck(s) ==
    outputs # None =>
        \/ Destructive(outputs.setup, s) = {}
        \/ (1..onDisk) \ outputs.migrations # {}

\* The target's and the database host's own checks: a region, an organisation, the linked project.
PlaceChecks(s) ==
    /\ s.target # "compose" => s.place # None
    /\ s.target = "railway" => made.link # "other"
    /\ s.db = "managed" /\ s.provider # None => s.dbRegion

\* preflight: every check; one that cannot be evaluated counts as failed.
Passes(s, o) ==
    /\ s.refs
    /\ ~s.demo
    /\ s.audit \/ o.noAudit
    /\ MigrationsCheck(s)
    /\ LoginCheck(s, o)
    /\ s.db = "url" => DatabaseChecks(s)
    /\ PlaceChecks(s)

-----------------------------------------------------------------------------
(* state.json. *)

\* ensureState: fill in what is missing; a file that does not parse counts as empty.
Ensured(f) ==
    IF Readable(f) THEN f ELSE [keys |-> drawn.keys + 1, database |-> None]

\* How many times secrets have been drawn once ensureState has run.
KeysAfter(f) == IF Readable(f) THEN drawn.keys ELSE drawn.keys + 1

\* writeDatabaseState: ensureState, then the database recorded or forgotten.
WithDatabase(f, d) == [Ensured(f) EXCEPT !.database = d]

-----------------------------------------------------------------------------
(* The process.  `at` names the next call; a command that is over is "ended". *)

Idle == command # None => command.at = "ended"
StepIs(step) == command # None /\ command.at = step
To(step) == [command EXCEPT !.at = step]
CommandEnded(how) == [command EXCEPT !.at = "ended", !.outcome = how]
Deployed == command.cfg
Use(bound) == [spent EXCEPT ![bound] = @ + 1]
CanFail == spent.faults < MaxFaults

\* What is recorded as lost when the saved record of a database goes missing.
Recorded(f) == IF Readable(f) /\ f.database # None THEN {f.database.ref} ELSE {}
HoldsLock == IF command.held = None THEN {} ELSE {command.held.ref}

\* A database URL that names no provider's project.
UrlOf(host) == [host |-> host, ref |-> 0]

\* A call throws: the command ends where it stands, and everything before it has happened.
Fails(at) ==
    /\ StepIs(at) /\ CanFail
    /\ command' = CommandEnded("failed")
    /\ spent' = Use("faults")
    /\ UNCHANGED <<setup, onDisk, saved, outputs, bundle, projects, made, secrets, release,
                   drawn, lost>>

DepInit ==
    /\ setup \in Setups
    /\ onDisk = 0
    /\ saved = None /\ outputs = None /\ bundle = None
    /\ projects = {}
    /\ made \in [link : {None, "other"}, apps : {{}}, flyDb : {FALSE}, attached : {FALSE},
                 railDbs : {0}, spare : {0}]
    /\ secrets = [t \in HostTargets |-> None]
    /\ release = [t \in HostTargets |-> [sent |-> None, serving |-> None]]
    /\ command = None
    /\ drawn = [keys |-> 0, refs |-> 0]
    /\ lost = {}
    /\ spent = [commands |-> 0, edits |-> 0, faults |-> 0, kills |-> 0]

\* The operator edits warehousd.yml, or runs the command in another shell, at any moment.
EditYml ==
    /\ spent.edits < MaxEdits
    /\ setup' \in Later \ {setup}
    /\ spent' = Use("edits")
    /\ command' = IF Idle THEN command ELSE [command EXCEPT !.edited = TRUE]
    /\ UNCHANGED <<onDisk, saved, outputs, bundle, projects, made, secrets, release, drawn, lost>>

\* `warehousd migrate generate`, or a file written by hand.
AddMigration ==
    /\ onDisk < MaxMigrations
    /\ onDisk' = onDisk + 1
    /\ UNCHANGED <<setup, saved, outputs, bundle, projects, made, secrets, release, command,
                   drawn, lost, spent>>

\* `warehousd deploy`, with its flags.
BeginDeploy(o) ==
    /\ Idle /\ spent.commands < MaxCommands
    /\ command' = [op |-> "deploy", at |-> "check", cfg |-> None, flags |-> o, shown |-> {},
                   url |-> None, held |-> None, edited |-> FALSE, outcome |-> None]
    /\ spent' = Use("commands")
    /\ UNCHANGED <<setup, onDisk, saved, outputs, bundle, projects, made, secrets, release,
                   drawn, lost>>

\* preflight(): refuses, or goes on; the record of the last deploy must parse.
CheckFirst ==
    /\ StepIs("check")
    /\ command' = IF setup.refs /\ outputs = Torn THEN CommandEnded("failed")
                  ELSE IF setup.refs /\ Passes(setup, command.flags) THEN To("load")
                  ELSE CommandEnded("refused")
    /\ UNCHANGED <<setup, onDisk, saved, outputs, bundle, projects, made, secrets, release,
                   drawn, lost, spent>>

\* loadConfig once more, the diff against the recorded deploy, and the prompt unless --yes.
LoadAndShow ==
    /\ StepIs("load")
    /\ command' =
         IF ~setup.refs THEN CommandEnded("failed")
         ELSE [To(IF command.flags.yes THEN "state" ELSE "confirm") EXCEPT
                 !.cfg = setup,
                 !.shown = Diff(IF outputs = None THEN None ELSE outputs.setup, setup)]
    /\ UNCHANGED <<setup, onDisk, saved, outputs, bundle, projects, made, secrets, release,
                   drawn, lost, spent>>

Confirm(yes) ==
    /\ StepIs("confirm")
    /\ command' = IF yes THEN To("state") ELSE CommandEnded("aborted")
    /\ UNCHANGED <<setup, onDisk, saved, outputs, bundle, projects, made, secrets, release,
                   drawn, lost, spent>>

EnsureState ==
    /\ StepIs("state")
    /\ saved' = Ensured(saved)
    /\ drawn' = [drawn EXCEPT !.keys = KeysAfter(saved)]
    /\ command' = To("app")
    /\ UNCHANGED <<setup, onDisk, outputs, bundle, projects, made, secrets, release, lost, spent>>

\* railway init: a new project, linked; one that was linked before stays behind.
Linked(m) == [m EXCEPT !.link = "own", !.apps = @ \ {"railway"}, !.railDbs = 0,
                       !.spare = IF m.link = "own" THEN @ + 1 ELSE @]

\* ensureApp.  linkedProject answers null whenever it cannot read the status (`blind`).
EnsureApp(blind) ==
    /\ StepIs("app")
    /\ blind => Deployed.target = "railway" /\ made.link = "own" /\ CanFail
    /\ LET t == Deployed.target
           base == IF t = "railway" /\ (blind \/ made.link = None) THEN Linked(made) ELSE made
       IN  made' = IF t = "compose" THEN made ELSE [base EXCEPT !.apps = @ \cup {t}]
    /\ command' = To("database")
    /\ spent' = IF blind THEN Use("faults") ELSE spent
    /\ UNCHANGED <<setup, onDisk, saved, outputs, bundle, projects, secrets, release, drawn, lost>>

\* A database the operator runs: its url goes to the container as it is.
UseUrl ==
    /\ StepIs("database") /\ Deployed.db = "url"
    /\ command' = [To("secrets") EXCEPT !.url = UrlOf("theirs")]
    /\ UNCHANGED <<setup, onDisk, saved, outputs, bundle, projects, made, secrets, release,
                   drawn, lost, spent>>

\* Whether ensureProvisioned is the way to the database, and what state.json says of it.
Hosted == StepIs("database") /\ Deployed.db = "managed" /\ Deployed.provider # None

\* ensureProvisioned, a database of this provider is recorded: reconnect, if the host still can.
Reconnect ==
    /\ Hosted /\ saved.database # None /\ saved.database.provider = Deployed.provider
    /\ command' =
         IF \/ Deployed.provider = "supabase" /\ saved.database.password /\ Deployed.dbRegion
            \/ Deployed.provider = "neon" /\ saved.database.ref \in {p.ref : p \in projects}
         THEN [To("secrets") EXCEPT !.url = [host |-> Deployed.provider, ref |-> saved.database.ref]]
         ELSE CommandEnded("failed")
    /\ UNCHANGED <<setup, onDisk, saved, outputs, bundle, projects, made, secrets, release,
                   drawn, lost, spent>>

\* ensureProvisioned, another provider's database is recorded: refuse.
RefuseSwap ==
    /\ Hosted /\ saved.database # None /\ saved.database.provider # Deployed.provider
    /\ command' = CommandEnded("swap")
    /\ UNCHANGED <<setup, onDisk, saved, outputs, bundle, projects, made, secrets, release,
                   drawn, lost, spent>>

\* Mutant: the URL goes on to the secrets and the project is recorded nowhere.
ProvisionUnrecorded(legible) ==
    /\ Hosted /\ saved.database = None /\ legible
    /\ LET p == [host |-> Deployed.provider, ref |-> drawn.refs + 1]
       IN  /\ projects' = projects \cup {p}
           /\ command' = [To("secrets") EXCEPT !.url = p, !.held = p]
    /\ drawn' = [drawn EXCEPT !.refs = @ + 1]
    /\ UNCHANGED <<setup, onDisk, saved, outputs, bundle, made, secrets, release, lost, spent>>

\* host.provision: the CLI creates a project; its answer may be one nobody can read.
Provision(legible) ==
    /\ Hosted /\ saved.database = None
    /\ legible \/ CanFail
    /\ LET p == [host |-> Deployed.provider, ref |-> drawn.refs + 1]
       IN  /\ projects' = projects \cup {p}
           /\ command' = IF legible THEN [To("record") EXCEPT !.held = p]
                         ELSE CommandEnded("illegible")
           /\ lost' = IF legible THEN lost ELSE lost \cup {p.ref}
    /\ drawn' = [drawn EXCEPT !.refs = @ + 1]
    /\ spent' = IF legible THEN spent ELSE Use("faults")
    /\ UNCHANGED <<setup, onDisk, saved, outputs, bundle, made, secrets, release>>

\* writeDatabaseState, before the URL is used for anything.
Record ==
    /\ StepIs("record")
    /\ saved' = WithDatabase(saved, [provider |-> command.held.host, ref |-> command.held.ref,
                                     password |-> command.held.host = "supabase"])
    /\ command' = [To("secrets") EXCEPT !.url = command.held, !.held = None]
    /\ UNCHANGED <<setup, onDisk, outputs, bundle, projects, made, secrets, release, drawn,
                   lost, spent>>

\* The target's own database.  Fly: create and attach only when there is none; it answers no URL.
FlyDatabase ==
    /\ StepIs("database") /\ Deployed.db = "managed" /\ Deployed.provider = None /\ Deployed.target = "fly"
    /\ made' = [made EXCEPT !.flyDb = TRUE]
    /\ command' = To(IF made.flyDb THEN "secrets" ELSE "attach")
    /\ UNCHANGED <<setup, onDisk, saved, outputs, bundle, projects, secrets, release, drawn,
                   lost, spent>>

\* postgres attach: sets DATABASE_URL on the app.
Attach ==
    /\ StepIs("attach")
    /\ made' = [made EXCEPT !.attached = TRUE]
    /\ command' = To("secrets")
    /\ UNCHANGED <<setup, onDisk, saved, outputs, bundle, projects, secrets, release, drawn,
                   lost, spent>>

\* Railway: `add --database postgres` unless the linked project lists one (`blind`: unreadable).
RailwayDatabase(blind) ==
    /\ StepIs("database") /\ Deployed.db = "managed" /\ Deployed.provider = None /\ Deployed.target = "railway"
    /\ blind => made.railDbs > 0 /\ CanFail
    /\ made' = [made EXCEPT !.railDbs = IF blind \/ @ = 0 THEN @ + 1 ELSE @]
    /\ command' = To("wait")
    /\ spent' = IF blind THEN Use("faults") ELSE spent
    /\ UNCHANGED <<setup, onDisk, saved, outputs, bundle, projects, secrets, release, drawn, lost>>

\* The retry loop ends when the service reports its URL (its deadline: Fails("wait")).
RailwayReady ==
    /\ StepIs("wait")
    /\ command' = [To("secrets") EXCEPT !.url = UrlOf("railway")]
    /\ UNCHANGED <<setup, onDisk, saved, outputs, bundle, projects, made, secrets, release,
                   drawn, lost, spent>>

\* Compose: the `db` service, with the password from state.json.
ComposeDatabase ==
    /\ StepIs("database") /\ Deployed.db = "managed" /\ Deployed.provider = None /\ Deployed.target = "compose"
    /\ command' = [To("secrets") EXCEPT !.url = UrlOf("compose")]
    /\ UNCHANGED <<setup, onDisk, saved, outputs, bundle, projects, made, secrets, release,
                   drawn, lost, spent>>

\* appUrl and setSecrets.  Railway redeploys what serves with the new variables at once; Fly only
\* stages them, Compose writes a file.
SetSecrets ==
    /\ StepIs("secrets")
    /\ LET t == Deployed.target
           lines == [keys |-> saved.keys, url |-> command.url, login |-> command.flags.localLogin]
       IN  /\ secrets' = [secrets EXCEPT ![t] = lines]
           /\ release' = IF t = "railway" /\ release[t].serving # None
                         THEN [release EXCEPT ![t].serving.secrets = lines] ELSE release
    /\ command' = To("bundle")
    /\ UNCHANGED <<setup, onDisk, saved, outputs, bundle, projects, made, drawn, lost, spent>>

\* writeBundle: clears the directory and copies from disk what the config in memory names.
WriteBundle ==
    /\ StepIs("bundle")
    /\ bundle' = Bundled(BundlePaths(Deployed), setup)
    /\ command' = To("release")
    /\ UNCHANGED <<setup, onDisk, saved, outputs, projects, made, secrets, release, drawn,
                   lost, spent>>

\* target.deploy.  flyctl waits for the machines; `railway up --detach` returns at once.
Release ==
    /\ StepIs("release")
    /\ LET t == Deployed.target
           r == [cfg |-> Deployed, bundle |-> bundle, secrets |-> secrets[t], attached |-> made.attached]
       IN  release' = [release EXCEPT ![t].sent = r,
                                      ![t].serving = IF t = "fly" THEN r ELSE @]
    /\ command' = To(IF Deployed.target = "compose" THEN "outputs" ELSE "health")
    /\ UNCHANGED <<setup, onDisk, saved, outputs, bundle, projects, made, secrets, drawn,
                   lost, spent>>

\* Railway finishes building what it accepted, on its side and in its own time, or never does.
RollOut ==
    /\ release["railway"].sent # release["railway"].serving
    /\ release["railway"].sent # None
    /\ release' = [release EXCEPT !["railway"].serving = release["railway"].sent]
    /\ UNCHANGED <<setup, onDisk, saved, outputs, bundle, projects, made, secrets, command,
                   drawn, lost, spent>>

\* pollHealth: whatever serves at the app's URL answers (its deadline: Fails("health")).
Healthy ==
    /\ StepIs("health")
    /\ release[Deployed.target].serving # None
    /\ command' = To("outputs")
    /\ UNCHANGED <<setup, onDisk, saved, outputs, bundle, projects, made, secrets, release,
                   drawn, lost, spent>>

\* pollHealth's deadline, with nothing serving: the command ends and nothing is recorded.
Unhealthy ==
    /\ StepIs("health")
    /\ release[Deployed.target].serving = None
    /\ command' = CommandEnded("failed")
    /\ UNCHANGED <<setup, onDisk, saved, outputs, bundle, projects, made, secrets, release,
                   drawn, lost, spent>>

\* buildDeployOutputs and writeDeployOutputs: the config in memory, the migrations there are now.
WriteOutputs ==
    /\ StepIs("outputs")
    /\ outputs' = [setup |-> Deployed, migrations |-> 1..onDisk,
                   url |-> IF Deployed.db = "managed" THEN None ELSE command.url]
    /\ command' = CommandEnded("deployed")
    /\ UNCHANGED <<setup, onDisk, saved, bundle, projects, made, secrets, release, drawn,
                   lost, spent>>

-----------------------------------------------------------------------------
(* deploy --destroy. *)

\* readState, never ensureState: a file that does not parse ends the command.
BeginDestroy ==
    /\ Idle /\ spent.commands < MaxCommands /\ setup.refs
    /\ LET c == [op |-> "destroy", at |-> "sure", cfg |-> setup, flags |-> None, shown |-> {},
                 url |-> None, held |-> None, edited |-> FALSE, outcome |-> None]
       IN  command' = IF saved = Torn THEN [c EXCEPT !.at = "ended", !.outcome = "failed"]
                      ELSE IF saved = None THEN c
                      ELSE [c EXCEPT !.url = saved.database]
    /\ spent' = Use("commands")
    /\ UNCHANGED <<setup, onDisk, saved, outputs, bundle, projects, made, secrets, release,
                   drawn, lost>>

\* confirmDestroy: the app's name, typed exactly.
TypeName(exact) ==
    /\ StepIs("sure")
    /\ command' = IF exact THEN To("teardown") ELSE CommandEnded("aborted")
    /\ UNCHANGED <<setup, onDisk, saved, outputs, bundle, projects, made, secrets, release,
                   drawn, lost, spent>>

\* What target.destroy leaves: Fly deletes the app and its database app, Railway the project.
TornDown(m, t) ==
    CASE t = "fly" -> [m EXCEPT !.apps = @ \ {"fly"}, !.attached = FALSE,
                                !.flyDb = IF Deployed.db = "managed" THEN FALSE ELSE @]
      [] t = "railway" -> [m EXCEPT !.apps = @ \ {"railway"}, !.railDbs = 0, !.link = None]
      [] OTHER -> m

\* The next step after the target: the database host of the provider the config names, if any.
AfterTarget == IF command.url # None /\ Deployed.provider # None THEN To("delete") ELSE CommandEnded("destroyed")

\* target.destroy; Railway's refuses a project the config does not name, Compose's does nothing.
Teardown ==
    /\ StepIs("teardown")
    /\ LET t == Deployed.target
           refuses == t = "railway" /\ made.link = "other"
       IN  /\ command' = IF refuses THEN CommandEnded("failed") ELSE AfterTarget
           /\ IF refuses \/ t = "compose" THEN UNCHANGED <<made, secrets, release>>
              ELSE /\ made' = TornDown(made, t)
                   /\ secrets' = [secrets EXCEPT ![t] = None]
                   /\ release' = [release EXCEPT ![t] = [sent |-> None, serving |-> None]]
    /\ UNCHANGED <<setup, onDisk, saved, outputs, bundle, projects, drawn, lost, spent>>

\* tryRun: what could not be deleted is only said, and the command goes on.
TeardownUnheard ==
    /\ StepIs("teardown") /\ CanFail
    /\ Deployed.target # "compose"
    /\ Deployed.target = "railway" => made.link # "other"
    /\ command' = AfterTarget
    /\ spent' = Use("faults")
    /\ UNCHANGED <<setup, onDisk, saved, outputs, bundle, projects, made, secrets, release,
                   drawn, lost>>

\* host.destroy, of the provider the config names now; a ref of another provider it does not know.
DeleteProject(heard) ==
    /\ StepIs("delete")
    /\ heard \/ CanFail
    /\ projects' = IF heard THEN projects \ {[host |-> Deployed.provider, ref |-> command.url.ref]}
                   ELSE projects
    /\ spent' = IF heard THEN spent ELSE Use("faults")
    /\ command' = To("forget")
    /\ UNCHANGED <<setup, onDisk, saved, outputs, bundle, made, secrets, release, drawn, lost>>

\* writeDatabaseState(null).
Forget ==
    /\ StepIs("forget")
    /\ saved' = WithDatabase(saved, None)
    /\ lost' = lost \cup (Recorded(saved) \cap {p.ref : p \in projects})
    /\ command' = CommandEnded("destroyed")
    /\ UNCHANGED <<setup, onDisk, outputs, bundle, projects, made, secrets, release, drawn, spent>>

-----------------------------------------------------------------------------
(* The machine under it. *)

\* The process is killed between two calls.
Kill ==
    /\ ~Idle /\ spent.kills < MaxKills
    /\ command' = CommandEnded("killed")
    /\ lost' = lost \cup HoldsLock
    /\ spent' = Use("kills")
    /\ UNCHANGED <<setup, onDisk, saved, outputs, bundle, projects, made, secrets, release, drawn>>

\* It is killed inside writeFileSync, which truncates and then writes.
KillWriting ==
    /\ spent.kills < MaxKills
    /\ \/ /\ StepIs("state") \/ StepIs("record") \/ StepIs("forget")
          /\ saved' = Torn
          /\ lost' = lost \cup ((Recorded(saved) \cup HoldsLock) \cap {p.ref : p \in projects})
          /\ UNCHANGED outputs
       \/ /\ StepIs("outputs")
          /\ outputs' = Torn
          /\ UNCHANGED <<saved, lost>>
    /\ command' = CommandEnded("killed")
    /\ spent' = Use("kills")
    /\ UNCHANGED <<setup, onDisk, bundle, projects, made, secrets, release, drawn>>

Throws == \E at \in {"app", "database", "attach", "wait", "secrets", "release", "health"} : Fails(at)

DepNext ==
    \/ EditYml \/ AddMigration
    \/ \E o \in Flags : BeginDeploy(o)
    \/ CheckFirst \/ LoadAndShow \/ \E yes \in BOOLEAN : Confirm(yes)
    \/ EnsureState \/ \E blind \in BOOLEAN : EnsureApp(blind)
    \/ UseUrl \/ Reconnect \/ RefuseSwap \/ (\E legible \in BOOLEAN : Provision(legible)) \/ Record
    \/ FlyDatabase \/ Attach
    \/ (\E blind \in BOOLEAN : RailwayDatabase(blind)) \/ RailwayReady \/ ComposeDatabase
    \/ SetSecrets \/ WriteBundle \/ Release \/ RollOut \/ Healthy \/ Unhealthy \/ WriteOutputs
    \/ BeginDestroy \/ (\E exact \in BOOLEAN : TypeName(exact))
    \/ Teardown \/ TeardownUnheard \/ (\E heard \in BOOLEAN : DeleteProject(heard)) \/ Forget
    \/ Throws \/ Kill \/ KillWriting

DepSpec == DepInit /\ [][DepNext]_depvars

-----------------------------------------------------------------------------
(* Properties. *)

\* The shape of the state: refs and secrets are drawn once, one project record, one process.
DepTypeOK ==
    /\ setup \in Setups
    /\ onDisk \in 0..MaxMigrations
    /\ saved \in {None, Torn} \/ (saved.keys \in 1..drawn.keys /\ Recorded(saved) \subseteq 1..drawn.refs)
    /\ outputs \in {None, Torn} \/ outputs.setup \in Setups
    /\ \A p \in projects : p.host \in DbHosts /\ p.ref \in 1..drawn.refs
    /\ made.apps \subseteq HostTargets
    /\ lost \subseteq 1..drawn.refs

\* A project a provider bills for is the one in state.json, or the one this very command has just
\* created; any other was lost to an accident: an answer nobody could read, a kill before the
\* record or inside a write, a deletion that did not happen (deploy.ts, ensureProvisioned).
EveryProjectAccounted ==
    \A p \in projects : p.ref \in lost \cup Recorded(saved) \cup (IF Idle THEN {} ELSE HoldsLock)

\* "Written before the URL is used for anything": no target holds the URL of a database that the
\* next run would not know of (deploy.ts, ensureProvisioned).
KnownBeforeUsed ==
    \A t \in HostTargets :
        secrets[t] # None /\ secrets[t].url \in projects =>
            secrets[t].url.ref \in lost \cup Recorded(saved)

\* Recording or forgetting a database, and any number of deploys, never change the secrets that
\* the running app was given, as long as the file parses (state.ts, writeDatabaseState).
SecretsStand ==
    [][Readable(saved) /\ Readable(saved') => saved'.keys = saved.keys]_depvars

\* What is sent to a target by this step, if anything is.
SentNow(t) ==
    /\ release'[t].sent # release[t].sent
    /\ release'[t].sent # None

\* A YAML that would drop or retype a live column never leaves the machine without a migration the
\* recorded deploy did not have, in the same bundle; warehousd.yml standing still meanwhile
\* (preflight.ts, schemaMigrationsCheck; bundle.ts, writeBundle).
MigrationsShipped ==
    [][\A t \in HostTargets :
         SentNow(t) /\ ~command.edited /\ Readable(outputs) =>
            \/ Destructive(outputs.setup, release'[t].sent.bundle.yaml) = {}
            \/ release'[t].sent.bundle.migrations \ outputs.migrations # {}]_depvars

\* Every change of what a field lets readers and writers do, between the recorded deploy and what
\* ships, was named in the diff the operator answered (diff.ts, renderConfigDiff).
PostureShown ==
    [][\A t \in HostTargets :
         SentNow(t) /\ ~command.edited /\ Readable(outputs) =>
            LET prev == outputs.setup
                next == release'[t].sent.bundle.yaml
            IN  \A c \in Colls(prev) \cap Colls(next) :
                  \A f \in FieldsOf(prev, c) \cap FieldsOf(next, c) :
                    prev.schema[c].fields[f] # next.schema[c].fields[f] =>
                        command.shown \cap {<<"read", c, f>>, <<"write", c, f>>,
                                            <<"type_change", c, f>>} # {}]_depvars

\* A database that passed pre-flight is one where boot can make its four roles and every role can
\* reach the extensions, whichever schema they live in (database-checks.ts, searchPathBlocked).
CheckedDatabaseBoots ==
    [][\A t \in HostTargets :
         SentNow(t) /\ ~command.edited /\ Deployed.db = "url" =>
            LET v == Deployed.server
            IN  /\ v.creates
                /\ {"vector", "pgcrypto"} \subseteq v.extensions
                /\ Deployed.sources => "postgres_fdw" \in v.extensions
                /\ v.grants \/ v.public \/ (v.roles = 4 /\ v.lacking = 0)]_depvars

\* The record of a deploy is of what was shipped and served: the YAML in the bundle, at a URL
\* that answered; on Fly the very release (deploy.ts, runDeploy, from the bundle to the outputs).
RecordedWasServed ==
    [][outputs' # outputs /\ Readable(outputs') /\ ~command.edited =>
         LET r == release[Deployed.target]
         IN  /\ r.sent.bundle.yaml = outputs'.setup
             /\ Deployed.target # "compose" => r.serving # None
             /\ Deployed.target = "fly" => r.serving = r.sent]_depvars

\* A destroy in which every call went through leaves nothing that bills: no app, no database app,
\* and no project if the provider is still the one that made it (fly.ts and deploy.ts, destroy).
DestroyTakesAll ==
    command # None /\ command.at = "ended" /\ command.outcome = "destroyed" /\ spent.faults = 0 =>
        /\ Deployed.target \notin made.apps \/ Deployed.target = "compose"
        /\ Deployed.target = "fly" /\ Deployed.db = "managed" => ~made.flyDb
        /\ command.url # None /\ Deployed.provider = command.url.provider =>
              command.url.ref \notin {p.ref : p \in projects}

-----------------------------------------------------------------------------
(* Statements the code makes and does not keep. *)

\* "A deploy that dies between creating the project and finishing the release must still know, on
\* the next run, that the project is there." (deploy.ts:113): not when it dies before the record.
DeathIsSurvived ==
    spent.faults = 0 /\ Idle /\ Readable(saved) => \A p \in projects : p.ref \in Recorded(saved)

\* "the password warehousd generated is in .warehousd/state.json" (supabase.ts:147): the command
\* that says so ends before anything is recorded.
PasswordIsKept ==
    command # None /\ command.outcome = "illegible" /\ Deployed.provider = "supabase" =>
        Readable(saved) /\ saved.database # None

\* "Forgotten only once it is actually gone." (deploy.ts:256): a failed deletion is only said, and
\* the deletion is asked of the provider the config names now.
ForgottenIsGone ==
    [][Readable(saved) /\ Readable(saved') =>
         Recorded(saved) \ Recorded(saved') \subseteq 1..drawn.refs \ {p.ref : p \in projects}]_depvars

\* What the operator confirmed is what ships; an edit while the prompt waits ships unseen, and the
\* record then names a config that never ran (deploy.ts:284, 440; bundle.ts:63).
ShipsWhatWasConfirmed ==
    [][\A t \in HostTargets : SentNow(t) => release'[t].sent.bundle.yaml = Deployed]_depvars

\* "The caller's response to that is to create one, which is idempotent anyway." (railway.ts:125):
\* a second `add` is a second database, and a second `init` a second project.
OneDatabase == made.railDbs <= 1 /\ made.spare = 0

\* The poll of /api/health "is a truer answer about the release than the build log is"
\* (targets/railway.ts:243): on a redeploy it is the release before that answers.
NewReleaseAnswered ==
    [][outputs' # outputs /\ Readable(outputs') /\ Deployed.target = "railway" =>
         release["railway"].serving = release["railway"].sent]_depvars

\* A Fly app with a managed database has its DATABASE_URL: not after a run that ended between
\* `postgres create` and `postgres attach`, since no later run attaches (fly.ts:77-80).
ReleaseHasDatabase ==
    LET r == release["fly"].sent
    IN  r # None /\ r.cfg.db = "managed" /\ r.cfg.provider = None => r.attached

\* "live documents must not leave the operator's machine" (bundle.ts:7): they do when `source`
\* contains `source_live`, since directories are copied whole and nothing refuses the nesting.
NoLiveDocuments ==
    bundle # None =>
        \A c \in Colls(bundle.yaml) :
            bundle.yaml.schema[c].live # None =>
                bundle.documents \cap Under[bundle.yaml.schema[c].live] = {}

\* The promises of deploy and destroy, together: nothing that was made is unaccounted for, no
\* secret is lost, and a release is recorded once it was served.
DeployCorrect ==
  /\ [](DepTypeOK /\ EveryProjectAccounted /\ KnownBeforeUsed /\ DestroyTakesAll)
  /\ SecretsStand
  /\ MigrationsShipped
  /\ PostureShown
  /\ CheckedDatabaseBoots
  /\ RecordedWasServed
=============================================================================
