------------------------------ MODULE Members ------------------------------
(***************************************************************************)
(* Who belongs to a workspace, as what, and in which groups                *)
(* (packages/broker/src/workspaces/members.ts, acl/manage.ts setUserGroups;*)
(* the routes under apps/web/app/api/admin that call them; the sign-in     *)
(* hooks of apps/web/lib/sso.ts and auth.ts).                              *)
(*                                                                         *)
(* Requests run concurrently, a statement at a time.  A statement outside  *)
(* removeMember and setUserGroups commits by itself; those two are         *)
(* transactions under READ COMMITTED.                                      *)
(***************************************************************************)
EXTENDS Integers, FiniteSets, Absent

CONSTANTS
  Users,
  Groups,
  Requests,    \* the requests that may be under way at once
  Kinds,       \* what may be requested: a subset of AllKinds
  Failing,     \* the requests that may break off: their process stops
  FirstRoles,  \* member at the start
  FirstGroups, \* user_groups at the start
  Asked,       \* the roles a request may ask for
  MaxCalls     \* BOUND: requests, decisions and calls begun

Roles == {"admin", "manager", "member"}
AllKinds == {"role", "remove", "account", "groups", "platform", "signup", "login"}
Sources == {"sso", "manual"}

ASSUME MembersAssumption ==
  /\ IsFiniteSet(Users)
  /\ None \notin Roles /\ None \notin Users /\ Users \cap Groups = {}
  /\ Kinds \subseteq AllKinds /\ Failing \subseteq Requests
  /\ Asked \subseteq Roles
  /\ FirstGroups \subseteq Users \X Groups \X Sources
  /\ FirstRoles \in [Users -> Roles \cup {None}]
  /\ MaxCalls \in Nat

VARIABLES
  member,   \* workspace_members: the role that authorization reads
  account,  \* app."user".role, None for somebody who has no account yet
  groups,   \* the rows of user_groups: a user, a group, who put the user there
  seen,     \* sso_provisioned
  derived,  \* history: how many logins took a user's role from the IdP
  req,      \* what each request is doing
  calls     \* the requests begun so far

membersState == <<member, account, groups, seen, derived, req>>
membersVars == <<membersState, calls>>

\* alone is history: no other request has been under way since this one began.
NoRequest ==
  [pc |-> "idle", kind |-> "role", by |-> None, user |-> None, role |-> "member",
   asked |-> {}, gone |-> {}, source |-> "manual", alone |-> TRUE]

MembersInit ==
  /\ member = FirstRoles /\ account = FirstRoles
  /\ groups = FirstGroups
  /\ seen = {} /\ derived = [u \in Users |-> 0]
  /\ req = [r \in Requests |-> NoRequest]
  /\ calls = 0

Held(u) == {g \in Groups : \E src \in Sources : <<u, g, src>> \in groups}

Call == calls < MaxCalls /\ calls' = calls + 1

At(r, pc) == req[r].pc = pc
Admins(role) == {u \in Users : role[u] = "admin"}
Busy(r) == {q \in Requests \ {r} : ~At(q, "idle")}

Goto(r, pc) == req' = [req EXCEPT ![r].pc = pc]
\* Answered, whatever the answer.
End(r) == req' = [req EXCEPT ![r] = NoRequest]

---------------------------------------------------------------------------

FirstStep(kind) ==
  CASE kind = "remove"   -> "lock"
    [] kind = "groups"   -> "clear"
    [] kind = "platform" -> "write"
    [] kind = "signup"   -> "store"
    [] kind = "login"    -> "mark"
    [] OTHER             -> "read"

\* A request arrives and passes its guard: requireRole reads the role of its caller.
Begin(r, kind, by, u, role, asked) ==
  /\ At(r, "idle") /\ Call
  /\ kind \in Kinds
  /\ IF by = None THEN kind \in {"remove", "platform", "signup", "login"}
                  ELSE kind \in {"role", "remove", "account", "groups"} /\ member[by] = "admin"
  /\ kind \in {"role", "account", "groups", "platform", "login"} => account[u] # None
  /\ kind = "signup" => account[u] = None /\ role = "member"
  /\ req' = [q \in Requests |->
       IF q = r THEN [pc |-> FirstStep(kind), kind |-> kind, by |-> by, user |-> u, role |-> role,
                      asked |-> asked, gone |-> {}, alone |-> Busy(r) = {},
                      source |-> IF kind = "login" THEN "sso" ELSE "manual"]
       ELSE [req[q] EXCEPT !.alone = @ /\ At(q, "idle")]]
  /\ UNCHANGED <<member, account, groups, seen, derived>>

---------------------------------------------------------------------------
(* A change of role *)

\* The role column the route looks at: members/route.ts reads the membership,
\* users/[userId]/route.ts the account.
Column(r) == IF req[r].kind = "account" THEN account ELSE member

Demotes(r) == Column(r)[req[r].user] = "admin" /\ req[r].role # "admin"

\* An account's route refuses to demote its own caller.
Read(r) ==
  /\ At(r, "read")
  /\ LET next == IF req[r].kind = "account" THEN "store" ELSE "write"
     IN IF req[r].kind = "account" /\ req[r].user = req[r].by /\ req[r].role # "admin"
        THEN End(r)
        ELSE Goto(r, IF Demotes(r) THEN "count" ELSE next)
  /\ UNCHANGED <<member, account, groups, seen, derived, calls>>

\* Mutant: as if whoever is demoted were not counted.
OthersLeft(role) == Cardinality(Admins(role)) > 0
\* select count(*) ... where role = 'admin', and the comparison with 1
TwoAdmins(role) == Cardinality(Admins(role)) > 1

Count(r) ==
  /\ At(r, "count")
  /\ IF ~TwoAdmins(Column(r)) THEN End(r)
     ELSE Goto(r, IF req[r].kind = "account" THEN "store" ELSE "write")
  /\ UNCHANGED <<member, account, groups, seen, derived, calls>>

\* update app."user" set role; a sign-up inserts the account.
Store(r) ==
  /\ At(r, "store")
  /\ account' = [account EXCEPT ![req[r].user] = req[r].role]
  /\ Goto(r, "write")
  /\ UNCHANGED <<member, groups, seen, derived, calls>>

\* removeMember holds the row it has selected for update.
Locked(u) == \E r \in Requests : req[r].user = u /\ req[r].pc \in {"countLocked", "delete"}

\* setMember: the row is inserted, or its role is set.
Write(r) ==
  /\ At(r, "write") /\ ~Locked(req[r].user)
  /\ member' = [member EXCEPT ![req[r].user] = req[r].role]
  /\ IF req[r].kind = "login" THEN Goto(r, "clear") ELSE End(r)
  /\ UNCHANGED <<account, groups, seen, derived, calls>>

---------------------------------------------------------------------------
(* removeMember, one transaction *)

\* select role ... for update
Lock(r) ==
  /\ At(r, "lock") /\ ~Locked(req[r].user)
  /\ IF member[req[r].user] = None THEN End(r)
     ELSE Goto(r, IF member[req[r].user] = "admin" THEN "countLocked" ELSE "delete")
  /\ UNCHANGED <<member, account, groups, seen, derived, calls>>

\* The row of the target is locked; those of the other admins are not.
CountLocked(r) ==
  /\ At(r, "countLocked")
  /\ IF TwoAdmins(member) THEN Goto(r, "delete") ELSE End(r)
  /\ UNCHANGED <<member, account, groups, seen, derived, calls>>

Delete(r) ==
  /\ At(r, "delete")
  /\ member' = [member EXCEPT ![req[r].user] = None]
  /\ End(r)
  /\ UNCHANGED <<account, groups, seen, derived, calls>>

---------------------------------------------------------------------------
(* A sign-in over SSO *)

\* Mutant: the marker is written, and not asked.
AnyLogin(u) == TRUE
\* insert ... on conflict do nothing returning
FirstLogin(u) == u \notin seen

Mark(r) ==
  LET u == req[r].user IN
  /\ At(r, "mark")
  /\ seen' = seen \cup {u}
  /\ IF FirstLogin(u)
     THEN Goto(r, "store") /\ derived' = [derived EXCEPT ![u] = @ + 1]
     ELSE Goto(r, "clear") /\ UNCHANGED derived
  /\ UNCHANGED <<member, account, groups, calls>>

---------------------------------------------------------------------------
(* setUserGroups, one transaction.  None: the claim was not asserted. *)

\* where workspace_id = $1 and user_id = $2 and source = $3
OwnRows(r) == {x \in groups : x[1] = req[r].user /\ x[3] = req[r].source}

\* The delete takes its snapshot: a row inserted since is not among the deleted.
Clear(r) ==
  /\ At(r, "clear")
  /\ IF req[r].asked = None THEN End(r)
     ELSE req' = [req EXCEPT ![r].pc = "wait", ![r].gone = OwnRows(r)]
  /\ UNCHANGED <<member, account, groups, seen, derived, calls>>

\* It waits for a transaction that is deleting one of them.
Cleared(r) ==
  /\ At(r, "wait")
  /\ \A q \in Requests \ {r} : At(q, "insert") => req[q].gone \cap req[r].gone = {}
  /\ Goto(r, "insert")
  /\ UNCHANGED <<member, account, groups, seen, derived, calls>>

\* The insert and the commit.  What is deleted here is there for nobody else to delete.
Insert(r) ==
  /\ At(r, "insert")
  /\ groups' = (groups \ req[r].gone) \cup ({req[r].user} \X req[r].asked \X {req[r].source})
  /\ req' = [q \in Requests |-> IF q = r THEN NoRequest
                                ELSE [req[q] EXCEPT !.gone = @ \ req[r].gone]]
  /\ UNCHANGED <<member, account, seen, derived, calls>>

\* The process stops; a transaction that is open is rolled back.
Break(r) ==
  /\ r \in Failing /\ ~At(r, "idle")
  /\ End(r)
  /\ UNCHANGED <<member, account, groups, seen, derived, calls>>

Arrive(r) ==
  /\ At(r, "idle") /\ calls < MaxCalls
  /\ \E kind \in Kinds, by \in Users \cup {None}, u \in Users, role \in Asked \cup {"member"} :
       \E asked \in (SUBSET Groups) \cup {None} :
         /\ role \in Asked \/ kind \in {"remove", "groups", "signup"}
         /\ kind \in {"remove", "groups", "signup"} => role = "member"
         /\ kind = "groups" => asked # None
         /\ kind \notin {"groups", "login"} => asked = {}
         /\ Begin(r, kind, by, u, role, asked)

MembersStep(r) ==
  \/ Arrive(r) \/ Read(r) \/ Count(r) \/ Store(r) \/ Write(r)
  \/ Lock(r) \/ CountLocked(r) \/ Delete(r)
  \/ Mark(r) \/ Clear(r) \/ Cleared(r) \/ Insert(r) \/ Break(r)
\* Nothing is asked any more, and everything has been answered.
MembersDone == calls = MaxCalls /\ Busy(None) = {}

MembersNext == (\E r \in Requests : MembersStep(r)) \/ (MembersDone /\ UNCHANGED membersVars)
MembersSpec == MembersInit /\ [][MembersNext]_membersVars
---------------------------------------------------------------------------
(* Properties *)

Request ==
  [pc : {"idle", "read", "count", "store", "write", "lock", "countLocked", "delete",
         "mark", "clear", "wait", "insert"},
   kind : AllKinds, by : Users \cup {None}, user : Users \cup {None}, role : Roles,
   asked : (SUBSET Groups) \cup {None}, gone : SUBSET (Users \X Groups \X Sources),
   source : Sources, alone : BOOLEAN]

\* A request that has begun names its user, and one that replaces groups the groups; a row
\* that is locked for a removal is there, and locked once.
MembersTypeOK ==
  /\ member \in [Users -> Roles \cup {None}] /\ account \in [Users -> Roles \cup {None}]
  /\ groups \subseteq Users \X Groups \X Sources
  /\ seen \subseteq Users /\ derived \in [Users -> Nat]
  /\ req \in [Requests -> Request] /\ calls \in 0 .. MaxCalls
  /\ \A r \in Requests : ~At(r, "idle") => req[r].user \in Users
  /\ \A r \in Requests : req[r].pc \in {"wait", "insert"} => req[r].asked # None
  /\ \A r \in Requests : req[r].pc \in {"countLocked", "delete"} => member[req[r].user] # None
  /\ \A q, r \in Requests :
       /\ req[q].pc \in {"countLocked", "delete"} /\ req[r].pc \in {"countLocked", "delete"}
       /\ req[q].user = req[r].user
       => q = r

\* members.ts: "Refuses to remove the last admin of a workspace" - no sequence of requests
\* of its admins leaves a workspace without one.
SomeAdmin == Admins(FirstRoles) # {} => Admins(member) # {}

\* What is left of that: only requests of the console that overlap, or the platform's own,
\* can take the last admin away; one that runs by itself never does.
AloneKeepsAdmin ==
  [][\A r \in Requests :
       req[r].alone /\ req'[r] # req[r] /\ req[r].by # None /\ Admins(member) # {}
         => Admins(member') # {}]_membersVars

\* sso.ts: "two concurrent logins cannot both read as the first" - a user's role is taken
\* from the identity provider once, so that no later login undoes what an admin decided.
ProvisionedOnce == \A u \in Users : derived[u] <= 1

\* acl/manage.ts: "The other source is untouched" - a login never takes away what an admin granted by
\* hand, nor an admin what the identity provider asserts.
OtherSourceUntouched ==
  [][\A r \in Requests :
       Insert(r) => {x \in groups' : x[3] # req[r].source}
                      = {x \in groups : x[3] # req[r].source}]_membersVars
=============================================================================
