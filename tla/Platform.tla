------------------------------ MODULE Platform ------------------------------
(***************************************************************************)
(* Workspaces as a whole: the platform API that creates, seeds, equips and *)
(* deletes them (apps/web/app/v1/platform), the workspace a caller is      *)
(* found to act in (lib/session.ts, rest-context.ts, broker-context.ts),   *)
(* and what of a deleted workspace is left.                                *)
(*                                                                         *)
(* Every step is a statement, or a transaction, that commits by itself.    *)
(* The schemas of the data have no foreign key to app.workspaces; most     *)
(* tables of app do, and not all of those keys cascade.                    *)
(***************************************************************************)
EXTENDS Naturals, FiniteSets, Absent

CONSTANTS
  Ids,          \* workspace ids
  People,
  Apps,         \* OAuth clients
  PlatformKeys,
  DefaultId,    \* DEFAULT_WORKSPACE_ID
  Calls,        \* the requests that may be under way at once
  FirstManaged, \* platform key -> managed_workspaces, None for every workspace
  FirstPinned,  \* client -> workspace_id of its policy, None without one
  FirstHeadless, \* the clients in mode headless
  FirstMembers, \* the rows of workspace_members
  Operations,   \* which of AllOperations are asked for
  MaxRequests   \* BOUND

AllOperations == {"create", "delete", "seed", "client", "switch", "write"}
Schemas == {"data_synth", "data_live"}

ASSUME PlatformAssumption ==
  /\ None \notin Ids \cup People \cup Apps \cup PlatformKeys /\ DefaultId \in Ids
  /\ FirstMembers \subseteq Ids \X People /\ MaxRequests \in Nat /\ Operations \subseteq AllOperations
  /\ IsFiniteSet(Calls) /\ \A S \in SUBSET Ids : S # None
  /\ FirstManaged \in [PlatformKeys -> (SUBSET Ids) \cup {None}]
  /\ FirstPinned \in [Apps -> {w \in Ids : \E u \in People : <<w, u>> \in FirstMembers} \cup {None}]

VARIABLES
  made,     \* workspace -> how often its row has been inserted
  here,     \* the workspaces that have a row
  belongs,  \* workspace_members
  manages,  \* platform key -> managed_workspaces
  pinned,   \* client -> workspace_id of its policy
  rows,     \* the rows of the data schemas, with the workspace's number when the request looked
  named,    \* the workspaces that change_log or user_groups name
  active,   \* person -> activeWorkspaceId of their session
  trail,    \* [op, workspace] -> how many audit events
  call,     \* what each request is doing
  requests

platState == <<made, here, belongs, manages, pinned, rows, named, active, trail, call>>
platVars == <<platState, requests>>

NoCall ==
  [pc |-> "idle", op |-> "create", ws |-> None, who |-> None, app |-> None, nr |-> 0, quiet |-> TRUE]

PlatInit ==
  /\ made = [w \in Ids |-> IF \E u \in People : <<w, u>> \in FirstMembers THEN 1 ELSE 0]
  /\ here = {w \in Ids : \E u \in People : <<w, u>> \in FirstMembers}
  /\ belongs = FirstMembers
  /\ manages = FirstManaged /\ pinned = FirstPinned
  /\ rows = {} /\ named = {}
  /\ active = [u \in People |-> DefaultId]
  /\ trail = [e \in {"created", "deleted"} \X Ids |-> 0]
  /\ call = [r \in Calls |-> NoCall]
  /\ requests = 0

OfCall(r, op, pc) == call[r].op = op /\ call[r].pc = pc
MoveTo(r, pc) == call' = [call EXCEPT ![r].pc = pc]
EndsCall(r) == call' = [call EXCEPT ![r] = NoCall]
\* platformAuditWriter: one event of the id, whether or not it still has a row.
Audit(op, w) == trail' = [trail EXCEPT ![<<op, w>>] = @ + 1]

---------------------------------------------------------------------------
(* Who acts, and in which workspace *)

MembershipsOf(u) == {w \in Ids : <<w, u>> \in belongs}

\* resolveWorkspace: what is asked for, if it is a membership; asked for nothing, the only one.
ResolveWorkspace(u, requested) ==
  IF requested # None THEN IF requested \in MembershipsOf(u) THEN requested ELSE None
  ELSE IF \E w \in Ids : MembershipsOf(u) = {w} THEN CHOOSE w \in Ids : MembershipsOf(u) = {w}
  ELSE None

\* deriveRestCaller, deriveTokenContext: a headless client is where its policy is; any other where
\* its user is, and its policy, when that pins it.
ClientWorkspace(c, u) ==
  LET w == ResolveWorkspace(u, None) IN
  IF c \in FirstHeadless THEN pinned[c]
  ELSE IF pinned[c] \notin {None, DefaultId} /\ w # pinned[c] THEN None ELSE w

\* mayManageWorkspace
MayManage(k, w) == IF manages[k] = None THEN TRUE ELSE w \in manages[k]

\* A request arrives; every other one is no longer by itself.
BeginCall(r, op, pc, w, who, c) ==
  /\ op \in Operations /\ call[r].pc = "idle" /\ requests < MaxRequests /\ requests' = requests + 1
  /\ call' = [q \in Calls |->
       IF q = r THEN [pc |-> pc, op |-> op, ws |-> w, who |-> who, app |-> c, nr |-> made[w],
                      quiet |-> \A x \in Calls : call[x].pc = "idle"]
       ELSE [call[q] EXCEPT !.quiet = @ /\ call[q].pc = "idle"]]
  /\ UNCHANGED <<made, here, belongs, manages, pinned, rows, named, active, trail>>

\* derivePlatformCaller, and for all but create mayManageWorkspace; then the select that each
\* operation begins with.  BOUND: the default workspace stays.
AskPlatform(r) == \E k \in PlatformKeys, w \in Ids, op \in {"create", "delete", "seed", "client"} :
  /\ w # DefaultId
  /\ IF op = "create" THEN w \notin here ELSE w \in here /\ MayManage(k, w)
  /\ BeginCall(r, op, IF op = "create" THEN "insert" ELSE IF op = "delete" THEN "audit"
                      ELSE IF op = "seed" THEN "wipe" ELSE "policy", w, k, None)

\* deriveContext of a session; deriveRestContext, deriveTokenContext of a client and its user.
AskData(r) == \E u \in People, c \in Apps \cup {None} :
  LET w == IF c = None THEN ResolveWorkspace(u, active[u]) ELSE ClientWorkspace(c, u) IN
  w # None /\ BeginCall(r, "write", "store", w, u, c)

\* POST /api/me/workspace: membership is looked up before the session is changed.
AskSwitch(r) == \E u \in People, w \in Ids :
  w \in MembershipsOf(u) \ {active[u]} /\ BeginCall(r, "switch", "session", w, u, None)

Switch(r) ==
  /\ OfCall(r, "switch", "session")
  /\ active' = [active EXCEPT ![call[r].who] = call[r].ws]
  /\ EndsCall(r)
  /\ UNCHANGED <<made, here, belongs, manages, pinned, rows, named, trail, requests>>

\* A write verb in its one transaction: document and change_log, whose key finds the workspace.
StoreRows(r) ==
  LET w == call[r].ws IN
  /\ OfCall(r, "write", "store")
  /\ IF w \in here
     THEN /\ rows' = rows \cup {[ws |-> w, schema |-> "data_live", nr |-> call[r].nr, quiet |-> call[r].quiet]}
          /\ named' = named \cup {w}
     ELSE UNCHANGED <<rows, named>>
  /\ EndsCall(r)
  /\ UNCHANGED <<made, here, belongs, manages, pinned, active, trail, requests>>

---------------------------------------------------------------------------
(* POST /v1/platform/workspaces *)

\* The primary key decides between two that found no row.
InsertWorkspace(r) ==
  LET w == call[r].ws IN
  /\ OfCall(r, "create", "insert")
  /\ IF w \in here THEN EndsCall(r) /\ UNCHANGED <<made, here>>
     ELSE /\ made' = [made EXCEPT ![w] = @ + 1] /\ here' = here \cup {w}
          /\ MoveTo(r, "member")
  /\ UNCHANGED <<belongs, manages, pinned, rows, named, active, trail, requests>>

\* setMember, of whoever the body names.
FirstAdmin(r) ==
  LET w == call[r].ws IN
  /\ OfCall(r, "create", "member")
  /\ IF w \in here THEN \E u \in People : belongs' = belongs \cup {<<w, u>>} /\ MoveTo(r, "manage")
     ELSE EndsCall(r) /\ UNCHANGED belongs
  /\ UNCHANGED <<made, here, manages, pinned, rows, named, active, trail, requests>>

\* null reaches every workspace as it is.
ToAppend(k) == {k} \cap {j \in PlatformKeys : manages[j] # None}

\* array_append.
AppendManaged(r) ==
  LET k == call[r].who IN
  /\ OfCall(r, "create", "manage")
  /\ manages' = [j \in PlatformKeys |->
       IF j \in ToAppend(k) THEN manages[j] \cup {call[r].ws} ELSE manages[j]]
  /\ MoveTo(r, "audit")
  /\ UNCHANGED <<made, here, belongs, pinned, rows, named, active, trail, requests>>

AuditCreation(r) ==
  /\ OfCall(r, "create", "audit")
  /\ Audit("created", call[r].ws) /\ EndsCall(r)
  /\ UNCHANGED <<made, here, belongs, manages, pinned, rows, named, active, requests>>

---------------------------------------------------------------------------
(* DELETE /v1/platform/workspaces/{id} *)

\* Before the row is removed.
AuditDeletion(r) ==
  /\ OfCall(r, "delete", "audit")
  /\ Audit("deleted", call[r].ws)
  /\ MoveTo(r, "data_synth")
  /\ UNCHANGED <<made, here, belongs, manages, pinned, rows, named, active, requests>>

\* Mutant: the imported data is all there is to sweep.
LiveOnly(w, schema) == {d \in rows : d.ws = w /\ d.schema = schema /\ schema = "data_live"}
Swept(w, schema) == {d \in rows : d.ws = w /\ d.schema = schema}

\* Every declared table of one schema, in one transaction.
SweepSchema(r) == \E schema \in Schemas :
  /\ OfCall(r, "delete", schema)
  /\ rows' = rows \ Swept(call[r].ws, schema)
  /\ MoveTo(r, IF schema = "data_synth" THEN "data_live" ELSE "drop")
  /\ UNCHANGED <<made, here, belongs, manages, pinned, named, active, trail, requests>>

\* on delete cascade
PoliciesWithout(w) == [c \in Apps |-> IF pinned[c] = w THEN None ELSE pinned[c]]

\* The row.  Members and policies cascade; change_log and user_groups refuse, and the request with
\* them.
DropWorkspace(r) ==
  LET w == call[r].ws IN
  /\ OfCall(r, "delete", "drop")
  /\ IF w \in named THEN UNCHANGED <<here, belongs, pinned>>
     ELSE /\ here' = here \ {w}
          /\ belongs' = {m \in belongs : m[1] # w}
          /\ pinned' = PoliciesWithout(w)
  /\ EndsCall(r)
  /\ UNCHANGED <<made, manages, rows, named, active, trail, requests>>

---------------------------------------------------------------------------
(* POST .../seed and .../clients *)

\* regenerateSynthetic: what is there goes, collection by collection,
Wipe(r) ==
  /\ OfCall(r, "seed", "wipe")
  /\ rows' = rows \ Swept(call[r].ws, "data_synth")
  /\ MoveTo(r, "generate")
  /\ UNCHANGED <<made, here, belongs, manages, pinned, named, active, trail, requests>>
\* and what is generated comes, whether or not there is still such a workspace.
Generate(r) ==
  /\ OfCall(r, "seed", "generate")
  /\ rows' = rows \cup {[ws |-> call[r].ws, schema |-> "data_synth", nr |-> call[r].nr, quiet |-> call[r].quiet]}
  /\ EndsCall(r)
  /\ UNCHANGED <<made, here, belongs, manages, pinned, named, active, trail, requests>>

\* upsertClientPolicy, and the secret: both keys find the workspace, or nothing is stored.
Equip(r) ==
  /\ OfCall(r, "client", "policy")
  /\ IF call[r].ws \in here
     THEN \E c \in Apps : pinned[c] = None /\ pinned' = [pinned EXCEPT ![c] = call[r].ws]
     ELSE UNCHANGED pinned
  /\ EndsCall(r)
  /\ UNCHANGED <<made, here, belongs, manages, rows, named, active, trail, requests>>

---------------------------------------------------------------------------
\* The process stops, or the connection drops, between two statements.
Stops(r) ==
  /\ call[r].pc # "idle" /\ EndsCall(r)
  /\ UNCHANGED <<made, here, belongs, manages, pinned, rows, named, active, trail, requests>>

PlatStep(r) ==
  \/ AskPlatform(r) \/ AskData(r) \/ AskSwitch(r) \/ Switch(r) \/ StoreRows(r)
  \/ InsertWorkspace(r) \/ FirstAdmin(r) \/ AppendManaged(r) \/ AuditCreation(r)
  \/ AuditDeletion(r) \/ SweepSchema(r) \/ DropWorkspace(r)
  \/ Wipe(r) \/ Generate(r) \/ Equip(r) \/ Stops(r)
PlatNext == \E r \in Calls : PlatStep(r)
PlatSpec == PlatInit /\ [][PlatNext]_platVars
---------------------------------------------------------------------------
(* Properties *)

PlatTypeOK ==
  /\ made \in [Ids -> 0 .. MaxRequests + 1] /\ here \subseteq Ids /\ belongs \subseteq here \X People
  /\ manages \in [PlatformKeys -> (SUBSET Ids) \cup {None}] /\ pinned \in [Apps -> here \cup {None}]
  /\ rows \subseteq [ws : Ids, schema : Schemas, nr : Nat, quiet : BOOLEAN] /\ named \subseteq here
  /\ active \in [People -> Ids] /\ trail \in [{"created", "deleted"} \X Ids -> Nat]
  /\ requests \in 0 .. MaxRequests

\* A workspace that is created under an id that was used before starts empty: no row of the one
\* before is left, in either env, but of a request that another overlapped.
StartsEmpty == \A d \in rows : d.quiet /\ d.ws \in here => d.nr = made[d.ws]

\* rest-api.md: the audit trail survives a deleted workspace.  Each time a workspace has gone, a
\* deletion of that id had been recorded, wherever the request stopped.
DeletionsRecorded ==
  \A w \in Ids :
    made[w] - (IF w \in here THEN 1 ELSE 0) <= trail[<<"deleted", w>>]

\* platform-keys.ts: the list "keeps two consuming apps on one deployment from reaching each
\* other's tenants" - a scoped key comes to manage only what it has itself created.
ManagesItsOwn ==
  [][\A k \in PlatformKeys, w \in Ids :
       (IF manages[k] = None THEN FALSE ELSE w \in manages'[k] \ manages[k]) =>
         \E r \in Calls : call[r].who = k /\ AppendManaged(r) /\ call[r].ws = w]_platVars

\* rest-api.md: DELETE removes every row "then the app.workspaces row itself".
DeletionDeletes ==
  [][\A r \in Calls : DropWorkspace(r) => call[r].ws \notin here']_platVars

\* The promises about workspaces, together: a new one starts empty, a deletion leaves its record,
\* and a key manages only what it made.
WorkspacesCorrect ==
  /\ [](PlatTypeOK /\ StartsEmpty /\ DeletionsRecorded)
  /\ ManagesItsOwn
=============================================================================
