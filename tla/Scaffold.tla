------------------------------ MODULE Scaffold ------------------------------
(***************************************************************************)
(* `warehousd init` (packages/cli/src: init.ts, init-tools.ts,             *)
(* cli-tools.ts, ui/prompt.ts): the flags or the wizard give the answers,  *)
(* the machine is looked at for the CLIs they need, a directory of         *)
(* spreadsheets is read, and warehousd.yml and .gitignore are written.     *)
(* The operator edits both files and runs the command again.               *)
(***************************************************************************)
EXTENDS Integers, Sequences, FiniteSets, FiniteSetsExt, SequencesExt, Absent

CONSTANTS
  Providers,    \* the database providers
  Hosts,        \* those whose CLI can create a database
  LocalHosts,   \* those with a local stack
  OrgHosts,     \* those with organisations to choose between
  Targets, DefaultTarget,
  Docker,       \* the CLI that is always needed; a host's CLI is named as the host is
  Candidates(_),\* the package managers that are looked for on a platform
  Installers(_),\* the package managers that have a CLI, in the order they are tried
  NeedsRoot,    \* the package managers that need root
  Machines,     \* what a machine may be: [platform, has, tools]
  Folders,      \* the directories --from may name: sequences of [kind, stem]
  Titles,       \* project names: sequences of "x" (a letter or digit) and "_" (anything else)
  MaxLabel,     \* the longest app_name
  Drafts,       \* what the operator may leave in .gitignore: [lines, open]
  NewIgnore,    \* and what it is at first
  MaxRuns       \* BOUND on the commands; from the second on they are given no flags

VARIABLES
  machine,      \* its platform, the package managers on its PATH, and per CLI "absent", "silent" or "ready"
  wizard,       \* the command under way: its step and what it has gathered so far
  yml,          \* None or the file: [by, database, deploy, collections]
  ignore,       \* .gitignore: lines, each the set of words it holds; open without a last newline
  draft,        \* history: .gitignore as the operator left it
  put,          \* history: the CLIs that init installed
  agreed,       \* history: the CLIs whose installation was agreed to
  runs

scaffoldVars == <<machine, wizard, yml, ignore, draft, put, agreed, runs>>

Asleep == [step |-> "idle", asked |-> None, answers |-> None, ask |-> FALSE, ahead |-> FALSE,
           json |-> FALSE, todo |-> <<>>, told |-> {}, folder |-> <<>>, seen |-> 0, names |-> <<>>, skipped |-> 0,
           wrote |-> FALSE]

ScaffoldInit ==
  /\ machine \in Machines /\ wizard = Asleep /\ yml = None
  /\ draft = NewIgnore /\ ignore = draft
  /\ put = {} /\ agreed = {} /\ runs = 0

-----------------------------------------------------------------------------
(* The answers *)

\* What initDefaults throws on: a value that no registry has, a host without a local stack, and a
\* host, a region or an organisation for a database that is not of that kind.
RefusesFlags(f) ==
  \/ f.dev \notin {"docker", "url"} \cup LocalHosts
  \/ f.target \notin {None} \cup Targets
  \/ f.prod \notin {None, "target", "existing"} \cup Hosts
  \/ f.host \notin {None} \cup Providers
  \/ f.host # None /\ f.prod # "existing"
  \/ (f.region \/ f.org) /\ f.prod \notin Hosts

FromFlags(f) == f.target # None \/ f.prod # None

\* initDefaults: the flags, as the answers the wizard would otherwise collect.
InitDefaults(f) ==
  [managed |-> f.dev # "url",
   local |-> IF f.dev \in Providers THEN f.dev ELSE None,
   target |-> IF ~FromFlags(f) THEN None ELSE IF f.target = None THEN DefaultTarget ELSE f.target,
   deployManaged |-> f.prod # "existing",
   provider |-> IF f.prod = "existing" THEN f.host ELSE IF f.prod \in Hosts THEN f.prod ELSE None,
   region |-> f.region, org |-> f.org]

\* promptInit: what the questions can be answered with.  The options of both database questions come
\* from the registries, a provider's only when guided; no target leaves the rest unasked.
Prompted ==
  {q \in [dev : {"docker", "url"} \cup LocalHosts, target : Targets \cup {None},
          prod : {None, "target", "existing"} \cup Hosts, host : Providers \cup {None},
          org : BOOLEAN, guided : BOOLEAN] :
     /\ q.target = None <=> q.prod = None
     /\ q.host # None <=> q.prod = "existing"
     /\ q.org => q.prod \in OrgHosts
     /\ q.guided \/ (q.dev \notin Hosts /\ q.prod \notin Hosts)}

\* promptInit: the answers; a provider's own region is required.
Answered(q) ==
  [managed |-> q.dev # "url",
   local |-> IF q.dev \in Providers THEN q.dev ELSE None, target |-> q.target,
   deployManaged |-> q.prod # "existing",
   provider |-> IF q.prod = "existing" THEN q.host ELSE IF q.prod \in Hosts THEN q.prod ELSE None,
   region |-> q.prod \in Hosts, org |-> q.org]

-----------------------------------------------------------------------------
(* What is written *)

\* Mutant: cut to a label last, with the dash the cut may end on.
AppNameUncut(title) ==
  LET slug == SetToSortSeq({i \in DOMAIN title : "x" \in {title[i], title[Max({1, i - 1})]}}, <)
      label == SubSeq([i \in DOMAIN slug |-> title[slug[i]]], 1, Min({Len(slug), MaxLabel}))
  IN IF label = <<>> THEN <<"x">> ELSE label

\* appNameFor: a run of anything else becomes one dash, none is left at either end, before or after
\* the cut to a label; a name with no letter or digit becomes the template's.
AppNameFor(title) ==
  LET slug == SetToSortSeq({i \in DOMAIN title : "x" \in {title[i], title[Max({1, i - 1})]}}, <)
      cut == SubSeq([i \in DOMAIN slug |-> title[slug[i]]], 1, Min({Len(slug), MaxLabel}))
      label == IF cut # <<>> /\ Last(cut) # "x" THEN Front(cut) ELSE cut
  IN IF label = <<>> THEN <<"x">> ELSE label

\* renderDeployBlock: a provider is who builds the database, or who hosts the one attached.
DeployBlock(a, title) ==
  LET provisioning == a.deployManaged /\ a.provider \in Hosts IN
  [target |-> a.target, app |-> AppNameFor(title),
   managed |-> a.deployManaged, url |-> ~a.deployManaged,
   provider |-> IF provisioning \/ ~a.deployManaged THEN a.provider ELSE None,
   region |-> provisioning, org |-> provisioning /\ a.org]

\* applyAnswers: both replacements look for the one commented block, so the first one wins; with no
\* answers the template goes out as it is.
Applied(a, title, collections) ==
  [by |-> "init",
   database |-> IF a = None THEN None
                ELSE IF a.local # None THEN a.local
                ELSE IF ~a.managed THEN "url" ELSE None,
   deploy |-> IF a = None THEN None ELSE IF a.target = None THEN None ELSE DeployBlock(a, title),
   collections |-> collections]

Entries == <<"warehousd.local.yml", ".warehousd/">>

\* One entry of .gitignore: skipped when the text holds it anywhere, on a line of its own otherwise.
WithEntry(file, entry) ==
  IF \E i \in DOMAIN file.lines : entry \in file.lines[i] THEN file
  ELSE [lines |-> Append(file.lines, {entry}), open |-> FALSE]

-----------------------------------------------------------------------------
(* The CLIs the answers need *)

\* requiredTools: Docker always, the local stack's host, and the host that creates the production
\* database, one that serves both only once.
RequiredTools(a) ==
  <<Docker>> \o (IF a.local \in Hosts THEN <<a.local>> ELSE <<>>)
    \o (IF a.deployManaged /\ a.provider \in Hosts /\ a.provider # a.local
        THEN <<a.provider>> ELSE <<>>)

\* detectManagers: those this platform prefers, where they are on PATH; one that is installed and is
\* not of the platform's list is not looked for.
Managers == Candidates(machine.platform) \cap machine.has

\* installCommand: the first installer whose package manager was detected.
InstallCommand(t) ==
  LET at == SelectInSeq(Installers(t), LAMBDA m : m \in Managers)
  IN IF at = 0 THEN None ELSE Installers(t)[at]

\* checkTool: it runs and is logged in, it runs and is not, or there is no such binary.
CheckTool(t) == machine.tools[t]

\* The next CLI has been reported on; after the last one the spreadsheets are read.
Told ==
  wizard' = [wizard EXCEPT !.step = IF Len(wizard.todo) = 1 THEN "list" ELSE "tools",
                           !.told = @ \cup {Head(wizard.todo)}, !.todo = Tail(@)]

\* A CLI that is ready or only logged out is reported, and init goes on.
ToolPresent ==
  /\ wizard.step = "tools" /\ CheckTool(Head(wizard.todo)) # "absent"
  /\ Told
  /\ UNCHANGED <<machine, yml, ignore, draft, put, agreed, runs>>

\* offerInstall asks unless --install-missing was given; confirm throws when nobody can answer.
Asks == ~wizard.ahead
Missing == wizard.step = "tools" /\ CheckTool(Head(wizard.todo)) = "absent"

\* offerInstall refuses: no package manager, one that needs root, or nobody to ask.
Refuses(t) ==
  \/ InstallCommand(t) \in NeedsRoot \cup {None}
  \/ Asks /\ ~wizard.ask

\* The refusal is a warning, a thrown NonInteractiveError among them, and the next CLI is looked at.
ToolRefused ==
  /\ Missing /\ Refuses(Head(wizard.todo))
  /\ Told
  /\ UNCHANGED <<machine, yml, ignore, draft, put, agreed, runs>>

\* Mutant: the error of confirm is not caught.
ToolRefusedLast ==
  /\ Missing /\ Refuses(Head(wizard.todo))
  /\ wizard' = [wizard EXCEPT !.step = "list", !.todo = <<>>]
  /\ UNCHANGED <<machine, yml, ignore, draft, put, agreed, runs>>

\* The operator is asked, and says no or cancels; or says yes.
ToolAsked ==
  /\ Missing /\ ~Refuses(Head(wizard.todo)) /\ Asks
  /\ \/ Told /\ UNCHANGED agreed
     \/ wizard' = [wizard EXCEPT !.step = "install"] /\ agreed' = agreed \cup {Head(wizard.todo)}
  /\ UNCHANGED <<machine, yml, ignore, draft, put, runs>>

\* The package manager runs, after the question or with none: the CLI is there, logged in from before
\* or not, or the install failed, which is a warning too.
ToolInstalled ==
  /\ \/ wizard.step = "install"
     \/ Missing /\ ~Refuses(Head(wizard.todo)) /\ ~Asks
  /\ \/ /\ \E state \in {"silent", "ready"} :
             machine' = [machine EXCEPT !.tools[Head(wizard.todo)] = state]
        /\ put' = put \cup {Head(wizard.todo)}
     \/ UNCHANGED <<machine, put>>
  /\ Told
  /\ UNCHANGED <<yml, ignore, draft, agreed, runs>>

-----------------------------------------------------------------------------
(* The command *)

NoRun == wizard.step \in {"idle", "done", "stopped"}
NoFlags == [dev |-> "docker", target |-> None, prod |-> None, host |-> None, region |-> FALSE,
            org |-> FALSE]
Gone == wizard' = [Asleep EXCEPT !.step = "stopped"]

\* The CLIs the answers need, unless the output is for a program, then the spreadsheets.
\* --install-missing is a yes to each of them.
Go(asked, answers, how) ==
  LET checked == answers # None /\ ~how.json
      todo == IF checked THEN RequiredTools(answers) ELSE <<>>
  IN /\ wizard' = [Asleep EXCEPT !.step = IF checked THEN "tools" ELSE "list", !.asked = asked,
                   !.answers = answers, !.ask = how.ask, !.ahead = how.ahead, !.json = how.json,
                   !.todo = todo]
     /\ agreed' = IF how.ahead THEN agreed \cup ToSet(todo) ELSE agreed

\* A run in which nobody is asked, for --no-input, --json or want of a terminal: the flags are the
\* answers, and without --target or --prod-db there are none.
TypeFlags ==
  /\ NoRun /\ runs < MaxRuns /\ runs' = runs + 1
  /\ \E f \in [dev : {"docker", "url", "typo"} \cup Providers, target : Targets \cup {None, "typo"},
               prod : {None, "target", "existing", "typo"} \cup Providers,
               host : Providers \cup {None, "typo"}, region : BOOLEAN, org : BOOLEAN],
        how \in [ask : {FALSE}, ahead : BOOLEAN, json : BOOLEAN] :
       /\ runs > 0 => f = NoFlags /\ ~how.ahead /\ ~how.json
       /\ IF RefusesFlags(f) THEN Gone /\ UNCHANGED agreed
          ELSE Go([dev |-> f.dev, target |-> f.target, prod |-> f.prod, host |-> f.host],
                  IF FromFlags(f) THEN InitDefaults(f) ELSE None, how)
  /\ UNCHANGED <<machine, yml, ignore, draft, put>>

\* The wizard, on flags that were refused, cancelled, or answered to the end.
AnswerWizard ==
  /\ NoRun /\ runs = 0 /\ runs' = 1
  /\ \/ Gone /\ UNCHANGED agreed
     \/ \E q \in Prompted, how \in [ask : {TRUE}, ahead : BOOLEAN, json : {FALSE}] :
          Go([dev |-> q.dev, target |-> q.target, prod |-> q.prod, host |-> q.host], Answered(q), how)
  /\ UNCHANGED <<machine, yml, ignore, draft, put>>

\* scaffoldFrom: there is no --from or no such path, it is listed now, or it is no directory and
\* readdirSync throws.
ListFolder ==
  /\ wizard.step = "list"
  /\ \/ Gone
     \/ \E folder \in Folders : wizard' = [wizard EXCEPT !.step = "read", !.folder = folder]
  /\ UNCHANGED <<machine, yml, ignore, draft, put, agreed, runs>>

\* The stem, with the first number behind it that makes it new.
NameFor(stem, names) ==
  IF ~Contains(names, stem) THEN stem
  ELSE Append(stem, Min({n \in 2..(Len(names) + 2) : ~Contains(names, Append(stem, n))}))

\* scaffoldFrom, one entry: a file without rows or that cannot be read is skipped with its reason;
\* one that is gone since the listing, or a broken link, throws from statSync and ends the command.
ReadSheet ==
  /\ wizard.step = "read" /\ wizard.seen < Len(wizard.folder)
  /\ LET entry == wizard.folder[wizard.seen + 1] IN
     IF entry.kind = "vanished" THEN Gone
     ELSE wizard' = [wizard EXCEPT !.seen = @ + 1,
            !.names = IF entry.kind = "rows" THEN Append(@, NameFor(entry.stem, @)) ELSE @,
            !.skipped = IF entry.kind \in {"none", "unreadable"} THEN @ + 1 ELSE @]
  /\ UNCHANGED <<machine, yml, ignore, draft, put, agreed, runs>>

\* runInit: warehousd.yml is written unless there is one and --force was not given.  Nothing reads
\* the project's name before this.
WriteYml ==
  /\ wizard.step = "read" /\ wizard.seen = Len(wizard.folder)
  /\ \E force \in BOOLEAN, title \in Titles :
       /\ yml' = IF yml = None \/ force THEN Applied(wizard.answers, title, wizard.names) ELSE yml
       /\ wizard' = [Asleep EXCEPT !.step = "ignore", !.asked = wizard.asked, !.answers = wizard.answers,
                           !.json = wizard.json, !.wrote = (yml = None \/ force)]
  /\ UNCHANGED <<machine, ignore, draft, put, agreed, runs>>

\* .gitignore gets the entries it lacks.
WriteIgnore ==
  /\ wizard.step = "ignore"
  /\ ignore' = FoldLeft(WithEntry, ignore, Entries)
  /\ wizard' = [wizard EXCEPT !.step = "done"]
  /\ UNCHANGED <<machine, yml, draft, put, agreed, runs>>

\* The command is interrupted: what it wrote stays.
Interrupt ==
  /\ ~NoRun /\ Gone
  /\ UNCHANGED <<machine, yml, ignore, draft, put, agreed, runs>>

\* The operator edits one of the two files.
EditFiles ==
  /\ wizard.step \in {"done", "stopped"} /\ wizard' = Asleep
  /\ \/ yml' = [Applied(None, <<>>, <<>>) EXCEPT !.by = "hand"] /\ UNCHANGED <<ignore, draft>>
     \/ draft' \in Drafts /\ ignore' = draft' /\ UNCHANGED yml
  /\ UNCHANGED <<machine, put, agreed, runs>>

ScaffoldNext ==
  \/ TypeFlags \/ AnswerWizard
  \/ ToolPresent \/ ToolRefused \/ ToolAsked \/ ToolInstalled
  \/ ListFolder \/ ReadSheet \/ WriteYml \/ WriteIgnore \/ Interrupt \/ EditFiles

ScaffoldSpec == ScaffoldInit /\ [][ScaffoldNext]_scaffoldVars

-----------------------------------------------------------------------------
(* Properties *)

ScaffoldTypeOK ==
  /\ machine.tools \in [{Docker} \cup Hosts -> {"absent", "silent", "ready"}]
  /\ wizard.step \in {"idle", "tools", "install", "list", "read", "ignore", "done", "stopped"}
  /\ wizard.step \in {"tools", "install"} <=> wizard.todo # <<>>
  /\ UNION {wizard.told, put, agreed} \subseteq {Docker} \cup Hosts
  /\ wizard.skipped \in Nat /\ runs \in 0..MaxRuns
  /\ \A i \in DOMAIN ignore.lines : ignore.lines[i] # {}

\* What DeploySchema asks of the block (config/schema.ts:514-555).
DeployLoads(d) ==
  /\ d.managed # d.url
  /\ d.managed /\ d.provider # None => d.provider \in Hosts
  /\ d.region \/ d.org => d.managed /\ d.provider # None
  /\ Len(d.app) \in 1..MaxLabel /\ d.app[1] = "x" /\ Last(d.app) = "x"
  /\ \A i \in 1..(Len(d.app) - 1) : ~(d.app[i] # "x" /\ d.app[i + 1] # "x")

\* A scaffold from any flags and any answers is one that loads: one shape of database, a provider
\* where it says something, a name that is a label, and no collection twice (init.ts:211, 228).
ScaffoldLoads ==
  yml # None =>
    /\ yml.deploy # None => DeployLoads(yml.deploy)
    /\ IsInjective(yml.collections)

\* The two database questions are independent: the block for development is what its own question
\* was answered with, and production's what its own was (ui/prompt.ts:58, docs/cli.md:137).
AnswersAreApart ==
  wizard.step = "done" /\ wizard.wrote /\ wizard.answers # None =>
    /\ yml.database = (IF wizard.asked.dev = "docker" THEN None ELSE wizard.asked.dev)
    /\ yml.deploy = None <=> wizard.asked.target = None /\ wizard.asked.prod = None
    /\ yml.deploy # None =>
         /\ yml.deploy.url = (wizard.asked.prod = "existing")
         /\ yml.deploy.provider = (IF wizard.asked.prod = "existing" THEN wizard.asked.host
                                   ELSE IF wizard.asked.prod \notin Hosts THEN None ELSE wizard.asked.prod)

\* NOT KEPT: --dev-db decides the block for development (docs/cli.md:137).  Without --target and
\* --prod-db a run without a terminal has no answers, and the flag is dropped (program.ts:259).
DevDbIsHeard ==
  wizard.step = "done" /\ wizard.wrote =>
    yml.database = (IF wizard.asked.dev = "docker" THEN None ELSE wizard.asked.dev)

\* A package manager runs because somebody said so, at the prompt or ahead (init-tools.ts:17).
InstalledWithConsent == put \subseteq agreed

\* Each CLI the answers need has been looked at by the time the file is written: a refused, failed
\* or skipped one does not cost the others their warning (init-tools.ts:79).  With --json there are
\* no warnings (program.ts:269).
EachToolAnswered ==
  wizard.step \in {"list", "read"} /\ wizard.answers # None /\ ~wizard.json =>
    ToSet(RequiredTools(wizard.answers)) \subseteq wizard.told

\* Each spreadsheet of the folder is a collection or has its reason (init.ts:311).
EachSheetAccounted ==
  Len(wizard.names) + wizard.skipped =
    Cardinality({i \in 1..wizard.seen : wizard.folder[i].kind \in {"rows", "none", "unreadable"}})

\* .gitignore keeps every line it had, and holds each entry on a line of its own unless the operator
\* wrote it somewhere (init.ts:395).
IgnoreAddsOnly ==
  /\ \A i \in DOMAIN draft.lines : ignore.lines[i] = draft.lines[i]
  /\ wizard.step = "done" =>
       \A e \in {"warehousd.local.yml", ".warehousd/"} :
         \/ \E i \in DOMAIN draft.lines : e \in draft.lines[i]
         \/ Cardinality({i \in DOMAIN ignore.lines : ignore.lines[i] = {e}}) = 1

\* The promises of init, together: what it writes loads, and nothing was installed, left out or
\* overwritten without the operator being told.
ScaffoldCorrect ==
  /\ ScaffoldTypeOK /\ ScaffoldLoads /\ AnswersAreApart /\ InstalledWithConsent
  /\ EachToolAnswered /\ EachSheetAccounted /\ IgnoreAddsOnly
=============================================================================
