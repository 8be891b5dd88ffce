------------------------------- MODULE Local -------------------------------
(***************************************************************************)
(* `warehousd start` and `warehousd stop` on a developer's machine         *)
(* (packages/cli/src).  Two terminals, several checkouts: the containers,  *)
(* the network and the volume are named after the project and shared by    *)
(* every checkout of it, while state.json and outputs.json belong to one   *)
(* directory.  The command drives Docker one call at a time.               *)
(***************************************************************************)
EXTENDS Integers, FiniteSets, Absent

CONSTANTS
    Terminals,      \* where commands are typed
    Checkouts,      \* the directories
    Yml,            \* Yml[c]: [project, kind, server, db], kind "container", "local" or "url"
    Legacy,         \* those that may have a state file of an earlier build
    Moved,          \* the database port an edit of warehousd.yml may lead to
    MaxStarts, MaxStops,   \* bounds on the commands
    MaxMishaps      \* bound on edits, deleted state files, failed calls and stopped containers

VARIABLES
    yml,            \* warehousd.yml of each checkout, now
    keyFiles,           \* state.json: None or [db, client]: a secret is a number, None a missing key
    written,        \* outputs.json: None or [db, client]
    box,            \* box[project][role]: None or a container
    volume,         \* volume[project]: None or [password, client, age]; password None while empty
    network,        \* the projects whose network exists
    stack,          \* the checkouts whose provider's local stack runs
    session,        \* per terminal: None or the command it runs
    fresh,          \* the next secret
    used            \* how much of each bound is used, and how many volumes went

localvars == <<yml, keyFiles, written, box, volume, network, stack, session, fresh, used>>

Projects == {Yml[c].project : c \in Checkouts}
Ports == UNION {{Yml[c].server, Yml[c].db} : c \in Checkouts} \cup {Moved}
Secrets == 1..20
Up(x) == x # None /\ x.up

-----------------------------------------------------------------------------
(* What Docker, Postgres and the server image do. *)

\* The container that holds a port, as <<project, role>>.
Holders(b, port) ==
    {<<p, r>> \in Projects \X {"db", "server"} : Up(b[p][r]) /\ b[p][r].port = port}

\* docker run: refused for a name that is taken; a port that is taken leaves it created, not up.
RunBox(p, r, new) ==
    IF box[p][r] # None THEN box
    ELSE [box EXCEPT ![p][r] = [new EXCEPT !.up = Holders(box, new.port) = {}]]
Ran(p, r, new) == box[p][r] = None /\ Holders(box, new.port) = {}

\* The first boot on an empty volume takes the password it is given; a later boot ignores it.
DatabaseUp ==
    \E p \in Projects :
        /\ Up(box[p]["db"]) /\ ~box[p]["db"].ready
        /\ box' = [box EXCEPT ![p]["db"].ready = TRUE]
        /\ volume' = [volume EXCEPT ![p].password = IF @ = None THEN box[p]["db"].db ELSE @]
        /\ UNCHANGED <<yml, keyFiles, written, network, stack, session, fresh, used>>

\* ensureDevClient with a secret supplied: inserted, or re-asserted over what is stored.
DevClientAfter(stored, secret) == secret

\* The server waits for its database, boots, asserts the dev client and answers /api/health.
ServerUp ==
    \E p \in Projects :
        /\ Up(box[p]["server"]) /\ ~box[p]["server"].ready
        /\ box[p]["server"].db # None =>
               Up(box[p]["db"]) /\ box[p]["db"].ready /\ volume[p].password = box[p]["server"].db
        /\ box' = [box EXCEPT ![p]["server"].ready = TRUE]
        /\ volume' = IF box[p]["server"].db = None THEN volume
                     ELSE [volume EXCEPT ![p].client = DevClientAfter(@, box[p]["server"].client)]
        /\ UNCHANGED <<yml, keyFiles, written, network, stack, session, fresh, used>>

\* What answers as a database on a port of the host: the volumes behind it.
DatabasesAt(port) ==
    {p \in Projects : Up(box[p]["db"]) /\ box[p]["db"].ready /\ box[p]["db"].port = port}

\* What answers a health check on a port.
AnswersAt(port) ==
    \E p \in Projects : Up(box[p]["server"]) /\ box[p]["server"].ready
                        /\ box[p]["server"].port = port

-----------------------------------------------------------------------------
(* The commands. *)

Goes(t, at) == session' = [session EXCEPT ![t].at = at]
Ends(t) == session' = [session EXCEPT ![t] = None]
Here(t, command, at) == session[t] # None /\ session[t].command = command /\ session[t].at = at
Mishap == used.mishaps < MaxMishaps /\ used' = [used EXCEPT !.mishaps = @ + 1]

LocalInit ==
    /\ yml = Yml
    /\ \E old \in Legacy \cup {None} :
          \* a project that never ran, or one whose state file is of an earlier build: no client key
          /\ old # None => Yml[old].kind = "container"
          /\ keyFiles = [c \in Checkouts |-> IF c = old THEN [db |-> 1, client |-> None] ELSE None]
          /\ volume = [p \in Projects |-> IF old # None /\ p = Yml[old].project
                                          THEN [password |-> 1, client |-> 2, age |-> 0] ELSE None]
    /\ written = [c \in Checkouts |-> None]
    /\ box = [p \in Projects |-> [r \in {"db", "server"} |-> None]]
    /\ network = {} /\ stack = {}
    /\ session = [t \in Terminals |-> None]
    /\ fresh = 3
    /\ used = [starts |-> 0, stops |-> 0, mishaps |-> 0, drops |-> 0]

\* runStart: the project is resolved once, as the file is now.
TypeStart(t, c) ==
    /\ session[t] = None /\ used.starts < MaxStarts
    /\ used' = [used EXCEPT !.starts = @ + 1]
    /\ session' = [session EXCEPT ![t] =
          [command |-> "start", at |-> "state", dir |-> c, cfg |-> yml[c], db |-> None,
           client |-> None, age |-> None, destroy |-> FALSE]]
    /\ UNCHANGED <<yml, keyFiles, written, box, volume, network, stack, fresh>>

\* Mutant: a state file that lacks a key is drawn anew, all of it.
FilledAnew(k) ==
    IF k = None \/ k.client = None THEN [db |-> fresh, client |-> fresh + 1] ELSE k

\* ensureState: missing keys only are filled in.
Filled(k) ==
    IF k = None THEN [db |-> fresh, client |-> fresh + 1]
    ELSE [k EXCEPT !.client = IF @ = None THEN fresh + 1 ELSE @]

\* The secrets of this directory, drawn if it has none, and held for the whole command.
ReadOrDraw(t) ==
    /\ Here(t, "start", "state")
    /\ LET c == session[t].dir
           k == Filled(keyFiles[c])
       IN  /\ keyFiles' = [keyFiles EXCEPT ![c] = k]
           /\ fresh' = IF k = keyFiles[c] THEN fresh ELSE fresh + 2
           /\ session' = [session EXCEPT ![t].at = "ports", ![t].db = k.db, ![t].client = k.client]
    /\ UNCHANGED <<yml, written, box, volume, network, stack, used>>

\* A port is free, or our own container of that role holds it; an unmanaged database is not ours.
PortsAreOurs(t) ==
    LET cfg == session[t].cfg
    IN  /\ Holders(box, cfg.server) \subseteq {<<cfg.project, "server">>}
        /\ cfg.kind # "url" => Holders(box, cfg.db) \subseteq {<<cfg.project, "db">>}

\* The port check, then the images: local, or pulled, which can fail.
CheckPorts(t) ==
    /\ Here(t, "start", "ports")
    /\ \/ PortsAreOurs(t) /\ Goes(t, "network") /\ UNCHANGED used
       \/ ~PortsAreOurs(t) /\ Ends(t) /\ UNCHANGED used
       \/ PortsAreOurs(t) /\ Ends(t) /\ Mishap
    /\ UNCHANGED <<yml, keyFiles, written, box, volume, network, stack, fresh>>

\* ensureNetwork, then the three shapes of database.
MakeNetwork(t) ==
    /\ Here(t, "start", "network")
    /\ network' = network \cup {session[t].cfg.project}
    /\ Goes(t, CASE session[t].cfg.kind = "container" -> "volume"
                 [] session[t].cfg.kind = "local" -> "stack"
                 [] session[t].cfg.kind = "url" -> "server")
    /\ UNCHANGED <<yml, keyFiles, written, box, volume, stack, fresh, used>>

\* A provider's local stack, through its own CLI; it may fail.
StartStack(t) ==
    /\ Here(t, "start", "stack")
    /\ \/ stack' = stack \cup {session[t].dir} /\ Goes(t, "server") /\ UNCHANGED used
       \/ Ends(t) /\ Mishap /\ UNCHANGED stack
    /\ UNCHANGED <<yml, keyFiles, written, box, volume, network, fresh>>

\* A volume that Docker just made.
Empty(age) == [password |-> None, client |-> None, age |-> age]

\* ensureVolume, then the state of the database container: a running one is used as it is.
OpenVolume(t) ==
    /\ Here(t, "start", "volume")
    /\ LET p == session[t].cfg.project
       IN  /\ volume' = [volume EXCEPT ![p] = IF @ = None THEN Empty(used.drops) ELSE @]
           /\ IF Up(box[p]["db"]) THEN Goes(t, "wait") /\ UNCHANGED box
              ELSE Goes(t, "rundb") /\ box' = [box EXCEPT ![p]["db"] = None]
    /\ UNCHANGED <<yml, keyFiles, written, network, stack, fresh, used>>

\* runContainer makes the network and the volume again when they are gone by now.
RunDatabase(t) ==
    /\ Here(t, "start", "rundb")
    /\ LET p == session[t].cfg.project
           new == [up |-> TRUE, ready |-> FALSE, port |-> session[t].cfg.db,
                   db |-> session[t].db, client |-> None]
       IN  /\ box' = RunBox(p, "db", new)
           /\ volume' = [volume EXCEPT ![p] = IF @ = None THEN Empty(used.drops) ELSE @]
           /\ network' = network \cup {p}
           /\ IF Ran(p, "db", new) THEN Goes(t, "wait") ELSE Ends(t)
    /\ UNCHANGED <<yml, keyFiles, written, stack, fresh, used>>

\* A connection with this password to whatever listens on this port of the host.
Opens(port, password) == \E p \in DatabasesAt(port) : volume[p].password = password

\* waitForDatabase: opened; refused, at once, once a database has answered no; or out of time.
WaitForDatabase(t) ==
    /\ Here(t, "start", "wait")
    /\ LET cfg == session[t].cfg
       IN  IF Opens(cfg.db, session[t].db)
           THEN session' = [session EXCEPT ![t].at = "server",
                                           ![t].age = volume[cfg.project].age]
           ELSE Ends(t)
    /\ UNCHANGED <<yml, keyFiles, written, box, volume, network, stack, fresh, used>>

\* removeContainer: the server is recreated on every start, and only from here on.
RemoveServer(t) ==
    /\ Here(t, "start", "server")
    /\ box' = [box EXCEPT ![session[t].cfg.project]["server"] = None]
    /\ Goes(t, "runserver")
    /\ UNCHANGED <<yml, keyFiles, written, volume, network, stack, fresh, used>>

\* runContainer with the secrets this command holds.
RunServer(t) ==
    /\ Here(t, "start", "runserver")
    /\ LET cfg == session[t].cfg
           new == [up |-> TRUE, ready |-> FALSE, port |-> cfg.server,
                   db |-> IF cfg.kind = "container" THEN session[t].db ELSE None,
                   client |-> session[t].client]
       IN  /\ box' = RunBox(cfg.project, "server", new)
           /\ network' = network \cup {cfg.project}
           /\ IF Ran(cfg.project, "server", new) THEN Goes(t, "health") ELSE Ends(t)
    /\ UNCHANGED <<yml, keyFiles, written, volume, stack, fresh, used>>

\* pollHealth: whatever server answers on the port; or 180 seconds pass.
PollHealth(t) ==
    /\ Here(t, "start", "health")
    /\ IF AnswersAt(session[t].cfg.server) THEN Goes(t, "outputs") ELSE Ends(t)
    /\ UNCHANGED <<yml, keyFiles, written, box, volume, network, stack, fresh, used>>

\* getDevClient over the same URL, then outputs.json; a database that does not open ends it.
WriteOutputs(t) ==
    /\ Here(t, "start", "outputs")
    /\ LET cfg == session[t].cfg
           found == cfg.kind # "container"
                    \/ \E p \in DatabasesAt(cfg.db) :
                           volume[p].password = session[t].db /\ volume[p].client # None
       IN  written' = IF found
                      THEN [written EXCEPT ![session[t].dir] =
                               [db |-> session[t].db, client |-> session[t].client]]
                      ELSE written
    /\ Ends(t)
    /\ UNCHANGED <<yml, keyFiles, box, volume, network, stack, fresh, used>>

-----------------------------------------------------------------------------

\* runStop: the provider's stack is stopped first, through its own CLI.
TypeStop(t, c, destroy) ==
    /\ session[t] = None /\ used.stops < MaxStops
    /\ used' = [used EXCEPT !.stops = @ + 1]
    /\ stack' = stack \ {c}
    /\ session' = [session EXCEPT ![t] =
          [command |-> "stop", at |-> "sweep", dir |-> c, cfg |-> yml[c], db |-> None,
           client |-> None, age |-> None, destroy |-> destroy]]
    /\ UNCHANGED <<yml, keyFiles, written, box, volume, network, fresh>>

\* Every container with the project's label; one that docker will not remove is passed over.
Sweep(t) ==
    /\ Here(t, "stop", "sweep")
    /\ LET p == session[t].cfg.project
       IN  \/ box' = [box EXCEPT ![p] = [r \in {"db", "server"} |-> None]] /\ UNCHANGED used
           \/ \E r \in {"db", "server"} :
                 box[p][r] # None /\ box' = [box EXCEPT ![p][r] = None] /\ Mishap
    /\ IF session[t].destroy THEN Goes(t, "confirm") ELSE Ends(t)
    /\ UNCHANGED <<yml, keyFiles, written, volume, network, stack, fresh>>

\* The prompt, after the containers are gone: --yes, or an answer.
ConfirmDestroy(t) ==
    /\ Here(t, "stop", "confirm")
    /\ Goes(t, "volume") \/ Ends(t)
    /\ UNCHANGED <<yml, keyFiles, written, box, volume, network, stack, fresh, used>>

\* docker volume rm -f: absent is fine, in use is an error that ends the command.
DropVolume(t) ==
    /\ Here(t, "stop", "volume")
    /\ LET p == session[t].cfg.project
       IN  IF box[p]["db"] # None THEN Ends(t) /\ UNCHANGED <<volume, used>>
           ELSE /\ volume' = [volume EXCEPT ![p] = None]
                /\ used' = [used EXCEPT !.drops = @ + 1]
                /\ Goes(t, "network")
    /\ UNCHANGED <<yml, keyFiles, written, box, network, stack, fresh>>

\* docker network rm: absent is an error here, and so is a container that uses it.
DropNetwork(t) ==
    /\ Here(t, "stop", "network")
    /\ LET p == session[t].cfg.project
       IN  IF p \notin network \/ \E r \in {"db", "server"} : Up(box[p][r])
           THEN Ends(t) /\ UNCHANGED network
           ELSE network' = network \ {p} /\ Goes(t, "outputs")
    /\ UNCHANGED <<yml, keyFiles, written, box, volume, stack, fresh, used>>

\* outputs.json of this directory goes; its state.json stays.
ForgetOutputs(t) ==
    /\ Here(t, "stop", "outputs")
    /\ written' = [written EXCEPT ![session[t].dir] = None]
    /\ Ends(t)
    /\ UNCHANGED <<yml, keyFiles, box, volume, network, stack, fresh, used>>

-----------------------------------------------------------------------------
(* What else happens on the machine. *)

\* The developer moves the database's port, or deletes the gitignored state file.
EditPort ==
    \E c \in Checkouts : /\ yml[c].kind = "container" /\ yml[c].db # Moved /\ Mishap
                         /\ yml' = [yml EXCEPT ![c].db = Moved]
                         /\ UNCHANGED <<keyFiles, written, box, volume, network, stack, session, fresh>>
DeleteState ==
    \E c \in Checkouts : /\ yml[c].kind = "container" /\ keyFiles[c] # None /\ Mishap
                         /\ keyFiles' = [keyFiles EXCEPT ![c] = None]
                         /\ UNCHANGED <<yml, written, box, volume, network, stack, session, fresh>>

\* A container stops, or a command is killed.
BoxStops ==
    \E p \in Projects, r \in {"db", "server"} :
        /\ Up(box[p][r]) /\ Mishap
        /\ box' = [box EXCEPT ![p][r].up = FALSE, ![p][r].ready = FALSE]
        /\ UNCHANGED <<yml, keyFiles, written, volume, network, stack, session, fresh>>
Interrupted ==
    \E t \in Terminals : /\ session[t] # None /\ Mishap /\ Ends(t)
                         /\ UNCHANGED <<yml, keyFiles, written, box, volume, network, stack, fresh>>

StartStep(t) ==
    \/ ReadOrDraw(t) \/ CheckPorts(t) \/ MakeNetwork(t) \/ StartStack(t) \/ OpenVolume(t)
    \/ RunDatabase(t) \/ WaitForDatabase(t) \/ RemoveServer(t) \/ RunServer(t) \/ PollHealth(t)
    \/ WriteOutputs(t)
StopStep(t) ==
    \/ Sweep(t) \/ ConfirmDestroy(t) \/ DropVolume(t) \/ DropNetwork(t) \/ ForgetOutputs(t)

LocalNext ==
    \/ \E t \in Terminals :
          \/ StartStep(t) \/ StopStep(t)
          \/ \E c \in Checkouts : TypeStart(t, c) \/ \E d \in BOOLEAN : TypeStop(t, c, d)
    \/ DatabaseUp \/ ServerUp \/ EditPort \/ DeleteState \/ BoxStops \/ Interrupted

LocalSpec == LocalInit /\ [][LocalNext]_localvars

-----------------------------------------------------------------------------
(* Properties. *)

Boxes == [up : BOOLEAN, ready : BOOLEAN, port : Ports, db : Secrets \cup {None},
          client : Secrets \cup {None}] \cup {None}

\* Every variable has its type: a volume has a client only once it has a password.
LocalTypeOK ==
    /\ \A c \in Checkouts : keyFiles[c] = None \/ (keyFiles[c].db \in Secrets)
    /\ \A p \in Projects : \A r \in {"db", "server"} : box[p][r] \in Boxes
    /\ \A p \in Projects : volume[p] # None =>
          (volume[p].client # None => volume[p].password # None)
    /\ network \subseteq Projects /\ stack \subseteq Checkouts

\* db-preflight.ts "Proving the database we are about to hand the server is one we can actually
\* open": a server that this command starts has the password of its volume, unless the volume it
\* was checked against has been destroyed since.
ServerCanOpen ==
    [][\A t \in Terminals :
          (Here(t, "start", "runserver") /\ session'[t] # None /\ session'[t].at = "health"
           /\ session[t].cfg.kind = "container")
          => LET v == volume[session[t].cfg.project]
             IN  v = None \/ v.age # session[t].age \/ v.password = session[t].db]_localvars

\* A start that is refused (a port, an image, a password) leaves the server that runs as it was:
\* a server container goes only to a stop or to a start that could open the database.
ServerOutlivesRefusals ==
    [][\A p \in Projects :
          (box[p]["server"] # None /\ box'[p]["server"] = None)
          => \E t \in Terminals :
                /\ session[t] # None /\ session[t].cfg.project = p
                /\ session[t].command = "stop"
                   \/ session[t].age # None \/ session[t].cfg.kind # "container"]_localvars

\* outputs.json is what works: when it is written, its password opens the database and, where the
\* server that answered the health check is this project's own, its client secret is the one the
\* database holds for the dev client.
OutputsWork ==
    [][\A c \in Checkouts :
          (written'[c] # written[c] /\ written'[c] # None /\ yml[c].kind = "container")
          => LET v == volume[yml[c].project]
             IN  /\ v # None /\ v.password = written'[c].db
                 /\ (box[yml[c].project]["server"] # None /\ box[yml[c].project]["server"].ready)
                       => v.client = written'[c].client]_localvars

\* "Delete outputs.json but keep state.json": no command changes a password this directory holds,
\* so the state file that opened a volume goes on opening it until somebody deletes the file.
PasswordKept ==
    [][\A c \in Checkouts :
          (keyFiles[c] # None /\ keyFiles'[c] # keyFiles[c])
          => \/ keyFiles'[c] # None /\ keyFiles'[c].db = keyFiles[c].db
             \/ used'.mishaps > used.mishaps]_localvars

-----------------------------------------------------------------------------
(* Not kept by the code: these are stated for the reader, see README. *)

\* start.ts "already running on :port": a reused database listens on the port of warehousd.yml.
ReusedListens ==
    \A t \in Terminals :
        Here(t, "start", "wait") /\ Up(box[session[t].cfg.project]["db"])
        => box[session[t].cfg.project]["db"].port = session[t].cfg.db

\* The promises of start and stop, together, whichever checkouts and terminals run them.
StackCorrect ==
  /\ []LocalTypeOK
  /\ ServerCanOpen
  /\ ServerOutlivesRefusals
  /\ OutputsWork
  /\ PasswordKept
=============================================================================
