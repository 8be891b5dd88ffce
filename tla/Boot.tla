-------------------------------- MODULE Boot --------------------------------
(***************************************************************************)
(* A container's bootstrap (apps/web/scripts/entrypoint.ts): the roles,    *)
(* the migrations of the app schema (db/migrate.ts), the first admin and   *)
(* the demo personas, and the synthetic synthRows (synthetic/generate.ts), which*)
(* an admin of a workspace may be regenerating at the same time            *)
(* (synthetic/regenerate.ts). Containers boot beside each other and stop   *)
(* between any two statements. The project's own migrations and applyConfig*)
(* are the module Schema, the indexing of files the module FileIndex.      *)
(*                                                                         *)
(* A synthetic row is the collection, the workspace and the id that the    *)
(* seed gives it; what it refers to is drawn from the seed too.            *)
(***************************************************************************)
EXTENDS Naturals, Sequences, FiniteSets, SequencesExt, Absent

CONSTANTS
  Machines,     \* the containers
  Regens,       \* requests of a workspace's admin to regenerate
  Tenants, Default, \* the workspaces, and the one that a boot fills
  Seeds, BootSeed,
  Tables,       \* the synthesisable collections, in the order of the YAML
  Parent,       \* collection -> the collection its fk names, None for none
  Source,       \* collection -> the collection its vocabulary is derived from, None for none
  RowsEach,     \* documents_per_collection
  Roles, MaxTries, \* the database roles; how often a conflict on one is retried (5 in the code)
  AppVersions,     \* how many migrations the app schema has
  Operator, Personas, RoleOf, Granted, \* who is set up, in order; the role of each; who gets every grant
  MaxBoots, MaxRoleEdits \* BOUND

ASSUME BootAssumption ==
  /\ Default \in Tenants /\ BootSeed \in Seeds
  /\ {RowsEach, MaxTries, AppVersions, MaxBoots, MaxRoleEdits} \subseteq Nat
  /\ None \notin ToSet(Tables) \cup Tenants \cup Machines \cup Regens

VARIABLES
  schema,   \* roles: the database roles; applied: version -> how often it has run; lock: of key 87220001
  people,   \* account: person -> id and role in app.user, credential; member: person, id -> role; granted
  synthRows, \* data_synth, by collection, workspace and id
  terms,    \* app.terms of the dataset-sourced vocabularies: workspace -> slugs
  acl,      \* which collections of which workspaces have rows in data_synth._acl
  work,     \* what each container or request is doing
  whole,    \* workspaces whose rows are of one generation that nothing came between
  everHeld, \* ids that a workspace has ever had
  chosen,   \* the role that an admin has given someone, None where nobody has
  counts    \* how many boots and role edits; whether a boot has been cut short

bootVars == <<schema, people, synthRows, terms, acl, work, whole, everHeld, chosen, counts>>

Actors == Machines \cup Regens
Persons == {Operator} \cup ToSet(Personas)
TableSet == ToSet(Tables)

Row(t, w, id) == [table |-> t, ws |-> w, id |-> id]
SeedIds(t, seed) == {<<t, seed, k>> : k \in 1..RowsEach}
RowsOf(w) == {r \in DOMAIN synthRows : r.ws = w}

\* topoSort: what a collection refers to comes first, unless it is on its way already. A chain is
\* one reference long here.
Visit(out, t) ==
  IF t \in ToSet(out) THEN out
  ELSE IF Parent[t] \in TableSet \ ({t} \cup ToSet(out)) THEN out \o <<Parent[t], t>> ELSE Append(out, t)
TopoSort == FoldLeft(Visit, << >>, Tables)

Earlier(t) == {TopoSort[i] : i \in 1..(CHOOSE j \in 1..Len(TopoSort) : TopoSort[j] = t) - 1}
\* The rng is a function of the seed, and so is every draw.
Draw(t, id) == <<t, id[2], id[3]>>

Unstarted == [pc |-> "off", ws |-> None, seed |-> None, todo |-> << >>, k |-> 0, tries |-> 0, who |-> 0, alone |-> FALSE]

Doing(x, pc) == work[x].pc = pc
Busy(x) == work[x].pc \notin {"off", "serving", "failed", "contended", "done"}
Moves(x, pc) == work' = [work EXCEPT ![x].pc = pc]
Leaves(x, pc) == work' = [work EXCEPT ![x] = [Unstarted EXCEPT !.pc = pc, !.ws = work[x].ws, !.alone = work[x].alone]]
Count(field) == counts' = [counts EXCEPT ![field] = @ + 1]
\* Whoever comes while others are at work is not alone, and neither are they.
Joins(x, record) ==
  work' = [y \in Actors |->
             IF y = x THEN [record EXCEPT !.alone = \A z \in Actors \ {x} : ~Busy(z)]
             ELSE [work[y] EXCEPT !.alone = @ /\ ~Busy(y)]]

NoAccount == [id |-> None, role |-> None, cred |-> FALSE]
NoMember == [gen |-> None, slug |-> None]

\* A fresh database. What a workspace has of ACLs, its admins have put there.
BootInit ==
  /\ schema = [roles |-> {}, applied |-> [v \in 1..AppVersions |-> 0], lock |-> None]
  /\ people = [account |-> [p \in Persons |-> NoAccount], member |-> [p \in Persons |-> NoMember], granted |-> {}]
  /\ synthRows = << >> /\ everHeld = {}
  /\ terms = [w \in Tenants |-> {}]
  /\ acl = TableSet \X Tenants
  /\ work = [x \in Actors |-> Unstarted]
  /\ whole = {}
  /\ chosen = [p \in Persons |-> None]
  /\ counts = [boots |-> 0, edits |-> 0, torn |-> FALSE]

NotData == UNCHANGED <<synthRows, terms, acl, whole, everHeld>>
NotPeople == UNCHANGED <<people, chosen>>

---------------------------------------------------------------------------
(* The schema *)

\* bootstrap: a new container, or the same one again.
Start(b) ==
  /\ ~Busy(b) /\ counts.boots < MaxBoots
  /\ Joins(b, [Unstarted EXCEPT !.pc = "roles", !.ws = Default, !.seed = BootSeed])
  /\ Count("boots")
  /\ UNCHANGED schema /\ NotPeople /\ NotData

\* ensureSchemasAndRoles: one role after the other, each created or given the password.
EnsureRole(b) ==
  /\ Doing(b, "roles") /\ Roles \ schema.roles # {}
  /\ \E r \in Roles \ schema.roles : schema' = [schema EXCEPT !.roles = @ \cup {r}]
  /\ work' = [work EXCEPT ![b].tries = 0]
  /\ NotPeople /\ NotData /\ UNCHANGED counts

\* withRoleRetry: a boot against another database of the cluster writes the same catalogue row.
RoleConflict(b) ==
  /\ Doing(b, "roles")
  /\ IF work[b].tries >= MaxTries THEN Leaves(b, "contended") ELSE work' = [work EXCEPT ![b].tries = @ + 1]
  /\ UNCHANGED <<schema, counts>> /\ NotPeople /\ NotData

\* migrateApp: the lock, and what the ledger has not got.
LockLedger(b) ==
  /\ Doing(b, "roles") /\ Roles \subseteq schema.roles
  /\ schema.lock = None
  /\ schema' = [schema EXCEPT !.lock = b]
  /\ work' = [work EXCEPT ![b] = [@ EXCEPT !.pc = "ledger", !.tries = 0,
                                           !.todo = SelectSeq([v \in 1..AppVersions |-> v], LAMBDA v : schema.applied[v] = 0)]]
  /\ NotPeople /\ NotData /\ UNCHANGED counts

\* One migration and its ledger row, in one transaction.
MigrateNext(b) ==
  /\ Doing(b, "ledger") /\ work[b].todo # << >>
  /\ schema' = [schema EXCEPT !.applied[Head(work[b].todo)] = @ + 1]
  /\ work' = [work EXCEPT ![b].todo = Tail(@)]
  /\ NotPeople /\ NotData /\ UNCHANGED counts

\* Mutant: the connection goes back to the pool with the lock.
KeepLock(b) ==
  /\ Doing(b, "ledger") /\ work[b].todo = << >>
  /\ Moves(b, "workspace")
  /\ UNCHANGED schema /\ NotPeople /\ NotData /\ UNCHANGED counts

\* finally: the lock is given back.
UnlockLedger(b) ==
  /\ Doing(b, "ledger") /\ work[b].todo = << >>
  /\ schema' = [schema EXCEPT !.lock = None]
  /\ Moves(b, "workspace")
  /\ NotPeople /\ NotData /\ UNCHANGED counts

---------------------------------------------------------------------------
(* The people *)

\* Mutant: the backfill follows the role of the account.
ResetMembers ==
  [p \in Persons |-> IF people.account[p].id = None THEN people.member[p]
                     ELSE [people.member[p] EXCEPT ![people.account[p].id] = people.account[p].role]]
\* migrateUserWorkspace: a membership for every account without one; on conflict do nothing.
BackfilledMembers ==
  [p \in Persons |->
     LET id == people.account[p].id IN
     IF id = None THEN people.member[p]
     ELSE IF people.member[p][id] # None THEN people.member[p]
     ELSE [people.member[p] EXCEPT ![id] = people.account[p].role]]

\* Better Auth's tables and the backfill; the config is applied (Schema).
Backfill(b) ==
  /\ Doing(b, "workspace")
  /\ people' = [people EXCEPT !.member = BackfilledMembers]
  /\ Moves(b, "admin")
  /\ UNCHANGED <<schema, chosen, counts>> /\ NotData

Registered(p) == people.account[p].id # None
\* signUpEmail, with the hook that makes the membership: refused for an address that is taken.
SignUp(b, p, next) ==
  IF Registered(p) THEN Leaves(b, "failed") /\ UNCHANGED people
  ELSE /\ people' = [people EXCEPT !.account[p] = [id |-> "gen", role |-> "member", cred |-> TRUE],
                                   !.member[p].gen = "member"]
       /\ Moves(b, next)

\* ensureAdminUser: an account under the admin's address is the admin, whatever it became.
FindAdmin(b) ==
  /\ Doing(b, "admin")
  /\ Moves(b, IF Registered(Operator) THEN "demo" ELSE "signup")
  /\ UNCHANGED <<schema, counts>> /\ NotPeople /\ NotData
SignUpAdmin(b) ==
  /\ Doing(b, "signup") /\ SignUp(b, Operator, "promote")
  /\ UNCHANGED <<schema, chosen, counts>> /\ NotData
PromoteAccount(b) ==
  /\ Doing(b, "promote") /\ Moves(b, "promote member")
  /\ people' = [people EXCEPT !.account[Operator].role = "admin"]
  /\ UNCHANGED <<schema, chosen, counts>> /\ NotData
PromoteMember(b) ==
  /\ Doing(b, "promote member") /\ Moves(b, "demo")
  /\ people' = [people EXCEPT !.member[Operator].gen = IF @ = None THEN None ELSE "admin"]
  /\ UNCHANGED <<schema, chosen, counts>> /\ NotData

Wipes(b) == work' = [work EXCEPT ![b] = [@ EXCEPT !.pc = "truncate", !.who = 0, !.todo = Tables]]
Persona(b) == Personas[work[b].who]

\* seedDemoPersonas: the first persona stands for all of them.
FindPersonas(b) ==
  /\ Doing(b, "demo")
  /\ IF people.account[Personas[1]].id = "slug" THEN Wipes(b)
     ELSE work' = [work EXCEPT ![b].pc = "persona", ![b].who = 1]
  /\ UNCHANGED <<schema, counts>> /\ NotPeople /\ NotData

SignUpPersona(b) ==
  /\ Doing(b, "persona") /\ SignUp(b, Persona(b), "strip")
  /\ UNCHANGED <<schema, chosen, counts>> /\ NotData
\* The session and the account row have to go before the id can change.
StripPersona(b) ==
  /\ Doing(b, "strip") /\ Moves(b, "rename")
  /\ people' = [people EXCEPT !.account[Persona(b)].cred = FALSE]
  /\ UNCHANGED <<schema, chosen, counts>> /\ NotData
RenamePersona(b) ==
  LET p == Persona(b) IN
  /\ Doing(b, "rename") /\ Moves(b, "rekey")
  /\ people' = [people EXCEPT !.account[p].id = "slug", !.account[p].role = RoleOf[p]]
  /\ UNCHANGED <<schema, chosen, counts>> /\ NotData

\* The membership follows the id, with the persona's role.
RekeyedMember(p) ==
  IF people.member[p].gen = None THEN people.member[p] ELSE [gen |-> None, slug |-> RoleOf[p]]
RekeyPersona(b) ==
  /\ Doing(b, "rekey") /\ Moves(b, "restore")
  /\ people' = [people EXCEPT !.member[Persona(b)] = RekeyedMember(Persona(b))]
  /\ UNCHANGED <<schema, chosen, counts>> /\ NotData
RestoreCredential(b) ==
  /\ Doing(b, "restore")
  /\ people' = [people EXCEPT !.account[Persona(b)].cred = TRUE]
  /\ work' = [work EXCEPT ![b] = IF @.who < Len(Personas) THEN [@ EXCEPT !.pc = "persona", !.who = @ + 1]
                                 ELSE [@ EXCEPT !.pc = "grants", !.who = 0]]
  /\ UNCHANGED <<schema, chosen, counts>> /\ NotData

\* Only who has no grant yet gets them, one insert per collection.
GrantPersonas(b) ==
  LET waiting == {p \in Granted : ~\E t \in TableSet : <<p, t>> \in people.granted} IN
  /\ Doing(b, "grants") /\ work[b].todo = << >>
  /\ IF waiting = {} THEN Wipes(b)
     ELSE \E p \in waiting : work' = [work EXCEPT ![b].todo = SetToSeq({p} \X TableSet)]
  /\ UNCHANGED <<schema, counts>> /\ NotPeople /\ NotData
InsertGrant(b) ==
  /\ Doing(b, "grants") /\ work[b].todo # << >>
  /\ people' = [people EXCEPT !.granted = @ \cup {Head(work[b].todo)}]
  /\ work' = [work EXCEPT ![b].todo = Tail(@)]
  /\ UNCHANGED <<schema, chosen, counts>> /\ NotData

\* An admin changes a member's role, BOUND: while nothing boots.
SetRole(p, role) ==
  LET id == people.account[p].id IN
  /\ counts.edits < MaxRoleEdits /\ \A b \in Machines : ~Busy(b)
  /\ \E b \in Machines : Doing(b, "serving")
  /\ Registered(p) /\ people.member[p][id] \notin {None, role}
  /\ people' = [people EXCEPT !.member[p][id] = role]
  /\ chosen' = [chosen EXCEPT ![p] = role]
  /\ Count("edits")
  /\ UNCHANGED <<schema, work>> /\ NotData

---------------------------------------------------------------------------
(* The synthetic synthRows *)

KeepRows(kept) == [r \in kept |-> synthRows[r]]
Generates(x) == work' = [work EXCEPT ![x] = [@ EXCEPT !.pc = "insert", !.todo = TopoSort, !.k = 1]]

\* bootstrap: the rows of a collection, of every workspace.
TruncateTable(b) ==
  LET t == Head(work[b].todo) IN
  /\ Doing(b, "truncate")
  /\ synthRows' = KeepRows({r \in DOMAIN synthRows : r.table # t})
  /\ whole' = {}
  /\ IF Tail(work[b].todo) = << >> THEN Generates(b) ELSE work' = [work EXCEPT ![b].todo = Tail(@)]
  /\ UNCHANGED <<schema, terms, acl, everHeld, counts>> /\ NotPeople

\* POST /api/admin/regen-synth, warehousd seed.
AskRegen(x) ==
  /\ Doing(x, "off") /\ \E b \in Machines : Doing(b, "serving")
  /\ \E w \in Tenants, s \in Seeds : Joins(x, [Unstarted EXCEPT !.pc = "delete", !.ws = w, !.seed = s, !.todo = Tables])
  /\ UNCHANGED <<schema, counts>> /\ NotPeople /\ NotData

\* The superuser's connection sees every row: the where clause is what confines the delete.
DeletedBy(t, w) == {r \in DOMAIN synthRows : r.table = t /\ r.ws = w}

\* regenerateSynthetic: one collection's rows, and its ACL rows.
DeleteTable(x) ==
  LET t == Head(work[x].todo)  w == work[x].ws IN
  /\ Doing(x, "delete")
  /\ synthRows' = KeepRows(DOMAIN synthRows \ DeletedBy(t, w))
  /\ acl' = acl \ {<<t, w>>}
  /\ whole' = whole \ {w}
  /\ IF Tail(work[x].todo) = << >> THEN Generates(x) ELSE work' = [work EXCEPT ![x].todo = Tail(@)]
  /\ UNCHANGED <<schema, terms, everHeld, counts>> /\ NotPeople

\* generateSynthetic, first pass, one batch: the unique index is on the workspace and the key.
InsertBatch(x) ==
  LET t == Head(work[x].todo)
      id == <<t, work[x].seed, work[x].k>>
      r == Row(t, work[x].ws, id)
      known == IF Parent[t] \in Earlier(t) THEN Draw(Parent[t], id) ELSE None
  IN
  /\ Doing(x, "insert")
  /\ IF r \in DOMAIN synthRows THEN Leaves(x, "failed") /\ UNCHANGED <<synthRows, everHeld, whole>>
     ELSE /\ synthRows' = [y \in DOMAIN synthRows \cup {r} |-> IF y = r THEN [ref |-> known, term |-> None] ELSE synthRows[y]]
          /\ everHeld' = everHeld \cup {<<r.ws, id>>}
          /\ whole' = whole \ {r.ws}
          /\ work' = [work EXCEPT ![x] =
               IF @.k < RowsEach THEN [@ EXCEPT !.k = @ + 1]
               ELSE IF Tail(@.todo) # << >> THEN [@ EXCEPT !.todo = Tail(@), !.k = 1]
               ELSE [@ EXCEPT !.pc = "refer", !.k = 0,
                              !.todo = SelectSeq(TopoSort, LAMBDA u : Parent[u] # None /\ Parent[u] \notin Earlier(u))]]
  /\ UNCHANGED <<schema, terms, acl, counts>> /\ NotPeople

\* The rows that a back-fill updates: the ids of this run, in this workspace.
FilledBy(t, x) == {r \in DOMAIN synthRows : r.table = t /\ r.ws = work[x].ws /\ r.id \in SeedIds(t, work[x].seed)}

\* Second pass: the references that had to wait. Nobody is their own.
Refer(x) ==
  /\ Doing(x, "refer")
  /\ IF work[x].todo = << >> THEN Moves(x, "sync") /\ UNCHANGED <<synthRows, whole>>
     ELSE LET t == Head(work[x].todo)
              Picked(r) == Draw(Parent[t], r.id)
              touched == {r \in FilledBy(t, x) : Picked(r) # r.id} IN
          /\ synthRows' = [r \in DOMAIN synthRows |-> IF r \in touched THEN [synthRows[r] EXCEPT !.ref = Picked(r)] ELSE synthRows[r]]
          /\ work' = [work EXCEPT ![x].todo = Tail(@)]
          /\ whole' = whole \ {work[x].ws}
  /\ UNCHANGED <<schema, terms, acl, everHeld, counts>> /\ NotPeople

\* What the view of the source collection shows in this workspace.
SlugsOf(w) == {r.id : r \in {r \in RowsOf(w) : \E t \in TableSet : Source[t] = r.table}}

\* syncDatasetTerms: terms are added, never taken away.
SyncTerms(x) ==
  /\ Doing(x, "sync")
  /\ terms' = [terms EXCEPT ![work[x].ws] = @ \cup SlugsOf(work[x].ws)]
  /\ work' = [work EXCEPT ![x] = [@ EXCEPT !.pc = "fill", !.todo = SelectSeq(TopoSort, LAMBDA t : Source[t] # None)]]
  /\ UNCHANGED <<schema, synthRows, acl, whole, everHeld, counts>> /\ NotPeople

\* loadTaxonomyBindings: what the vocabulary has for this workspace, old terms too.
BoundSlugs(x) == terms[work[x].ws]

\* Third pass: the terms of the workspace, on the rows of this run. The last one is the end.
FillTerms(x) ==
  LET slugs == BoundSlugs(x) IN
  /\ Doing(x, "fill")
  /\ IF work[x].todo = << >>
     THEN /\ Leaves(x, IF x \in Machines THEN "serving" ELSE "done")
          /\ whole' = IF work[x].alone THEN whole \cup {work[x].ws} ELSE whole
          /\ UNCHANGED synthRows
     ELSE LET touched == FilledBy(Head(work[x].todo), x) IN
          /\ synthRows' = IF slugs = {} THEN synthRows
                     ELSE [r \in DOMAIN synthRows |-> IF r \in touched THEN [synthRows[r] EXCEPT !.term = CHOOSE s \in slugs : TRUE]
                                                 ELSE synthRows[r]]
          /\ work' = [work EXCEPT ![x].todo = Tail(@)]
          /\ whole' = whole \ {work[x].ws}
  /\ UNCHANGED <<schema, terms, acl, everHeld, counts>> /\ NotPeople

---------------------------------------------------------------------------
\* The container stops, or the request's process does: the lock goes with the connection.
Stop(x) ==
  /\ Busy(x)
  /\ counts' = [counts EXCEPT !.torn = @ \/ x \in Machines]
  /\ schema' = [schema EXCEPT !.lock = IF @ = x THEN None ELSE @]
  /\ Leaves(x, IF x \in Machines THEN "off" ELSE "done")
  /\ NotPeople /\ NotData

BootStepOf(b) ==
  \/ EnsureRole(b) \/ LockLedger(b) \/ MigrateNext(b) \/ UnlockLedger(b)
  \/ Backfill(b) \/ FindAdmin(b) \/ SignUpAdmin(b) \/ PromoteAccount(b) \/ PromoteMember(b)
  \/ FindPersonas(b) \/ SignUpPersona(b) \/ StripPersona(b) \/ RenamePersona(b) \/ RekeyPersona(b)
  \/ RestoreCredential(b) \/ GrantPersonas(b) \/ InsertGrant(b) \/ TruncateTable(b)
GenerateStep(x) == InsertBatch(x) \/ Refer(x) \/ SyncTerms(x) \/ FillTerms(x)
RegenStep(x) == DeleteTable(x) \/ GenerateStep(x)

BootNext ==
  \/ \E b \in Machines : Start(b) \/ RoleConflict(b) \/ BootStepOf(b) \/ GenerateStep(b)
  \/ \E x \in Regens : AskRegen(x) \/ RegenStep(x)
  \/ \E x \in Actors : Stop(x)
  \/ \E p \in Persons, role \in {"admin", "member"} : SetRole(p, role)

BootSpec == BootInit /\ [][BootNext]_bootVars
\* A container that runs goes on, and Postgres grants the lock to who waits for it.
BootFairSpec ==
  BootSpec /\ \A b \in Machines : SF_bootVars(LockLedger(b)) /\ WF_bootVars((BootStepOf(b) \/ GenerateStep(b)))

---------------------------------------------------------------------------
(* Properties *)

RowType == [table : TableSet, ws : Tenants, id : UNION {SeedIds(t, s) : t \in TableSet, s \in Seeds}]
\* Every variable holds what the code can put in it; the lock is held by who reads the ledger.
BootTypeOK ==
  /\ schema.roles \subseteq Roles /\ schema.lock \in Machines \cup {None}
  /\ DOMAIN synthRows \subseteq RowType /\ everHeld \subseteq Tenants \X UNION {SeedIds(t, s) : t \in TableSet, s \in Seeds}
  /\ acl \subseteq TableSet \X Tenants /\ whole \subseteq Tenants
  /\ \A b \in Machines : Doing(b, "ledger") <=> schema.lock = b
  /\ people.granted \subseteq Granted \X TableSet

\* migrate.ts: of two containers on one database neither runs a migration that the other has run,
\* nor does one that comes after a crash, and who gets past the ledger has all of them.
AppMigrationsOnce ==
  /\ \A v \in 1..AppVersions : schema.applied[v] <= 1
  /\ \A b \in Machines : work[b].pc \notin {"off", "roles", "ledger", "failed", "contended"} => \A v \in 1..AppVersions : schema.applied[v] = 1

\* ensureAdminUser and seedDemoPersonas: after boots that nothing cut short or ran beside, the
\* operator is an admin of the workspace, and every persona is one person under its own id, who can
\* sign in and has the one membership.
FirstBootComplete ==
  (~counts.torn /\ \A b \in Machines : ~Doing(b, "failed")) =>
    \A b \in Machines : Doing(b, "serving") /\ work[b].alone /\ chosen = [p \in Persons |-> None] =>
      /\ people.account[Operator].role = "admin" /\ people.member[Operator].gen = "admin"
      /\ \A p \in ToSet(Personas) :
           /\ people.account[p] = [id |-> "slug", role |-> RoleOf[p], cred |-> TRUE]
           /\ people.member[p] = [gen |-> None, slug |-> RoleOf[p]]
      /\ Granted \X TableSet \subseteq people.granted

\* migrate-app.ts: "a user promoted or demoted after their first login keeps that role rather than
\* being reset to whatever app.user.role says on the next boot".
RolesStand == \A p \in Persons : chosen[p] # None => people.member[p][people.account[p].id] = chosen[p]

\* generateSynthetic: what a run that nothing came between has left is all there: each collection's
\* rows, a reference to a row of the same workspace, and a term of the workspace's vocabulary.
GenerationComplete ==
  \A w \in whole : \A t \in TableSet :
    LET of == {r \in RowsOf(w) : r.table = t} IN
    /\ Cardinality(of) = RowsEach
    /\ \A r \in of :
         /\ Parent[t] # None => Row(Parent[t], w, synthRows[r].ref) \in DOMAIN synthRows
         /\ Source[t] # None => synthRows[r].term \in terms[w]

\* taxonomy.ts: no workspace's values get into another's vocabulary.
TermsOfTheirOwn == \A w \in Tenants : \A s \in terms[w] : <<w, s>> \in everHeld

RowsAs(w) == [r \in RowsOf(w) |-> synthRows[r]]
AclOf(w) == {x \in acl : x[2] = w}
\* regenerate.ts: what a workspace's admin regenerates, and what a boot generates, leaves the rows
\* and the ACLs of every other workspace as they are.
StepsLeaveOthers ==
  [][\A x \in Actors : GenerateStep(x) \/ DeleteTable(x) =>
       \A w \in Tenants \ {work[x].ws} : RowsAs(w)' = RowsAs(w) /\ AclOf(w)' = AclOf(w)]_bootVars

\* entrypoint.ts: "Truncate-then-generate so a restart is idempotent": what a workspace had before a
\* restart it has after it.
RestartKeepsTenants == [][\A b \in Machines : BootStepOf(b) => \A w \in Tenants \ {Default} : RowsAs(w)' = RowsAs(w)]_bootVars

\* "Check if personas already exist to guard against duplicates on re-run": a boot with the database
\* to itself comes up, wherever an earlier one stopped.
RerunServes == \A b \in Machines : Doing(b, "failed") => ~work[b].alone

\* Every boot ends: no container waits for another for ever.
BootsEnd == \A b \in Machines : Busy(b) ~> ~Busy(b)

\* The promises of a boot about its data, together: its migrations ran once, its people and rows
\* are there, and no restart undoes what was changed since.
BootCorrect ==
  /\ []( /\ BootTypeOK
        /\ AppMigrationsOnce
        /\ FirstBootComplete
        /\ RolesStand
        /\ GenerationComplete
        /\ TermsOfTheirOwn )
  /\ StepsLeaveOthers
=============================================================================
