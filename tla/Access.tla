------------------------------- MODULE Access -------------------------------
(***************************************************************************)
(* Who may read what: the grants of a collection, the people who decide    *)
(* them, and the calls that run under them (packages/broker/src:           *)
(* grants/manage.ts, grants/eval.ts, acl/principals.ts, verbs/guard.ts;    *)
(* apps/web/app/api/grants/route.ts, lib/approve.ts), on top of the        *)
(* members and the groups they are decided by and held through.            *)
(*                                                                         *)
(* A decision is several statements that each commit; a call reads the     *)
(* groups of its user in one and the grant in another.                     *)
(***************************************************************************)
EXTENDS Members, Sequences

CONSTANTS
  Envs,
  Fields,        \* what the configuration lets a grant of the collection carry
  DefaultExpiry, \* grant_expiry_days of the collection, or None
  Deciders,      \* decisions that may be under way at once
  Callers,       \* calls that may be
  FirstGrants,   \* the sequences of grants there may be at the start
  MaxGrants,     \* BOUND: grants requested
  MaxTime        \* BOUND: the clock

Grant ==
  [user : Users, principal : Users \cup Groups, env : Envs, asked : SUBSET Fields,
   fields : SUBSET Fields, status : {"pending", "approved", "denied", "revoked"},
   expires : Nat \cup {None}, decider : Users \cup {None}]

\* What requests and decisions can have left in the table.
Possible(rows) ==
  /\ rows \in Seq(Grant) /\ Len(rows) <= MaxGrants
  /\ \A i \in DOMAIN rows :
       /\ rows[i].fields \subseteq rows[i].asked
       /\ rows[i].status = "approved" /\ rows[i].env = "live" => rows[i].decider # rows[i].user
  /\ \A i, j \in DOMAIN rows :
       /\ rows[i].status = "approved" /\ rows[j].status = "approved"
       /\ rows[i].principal = rows[j].principal /\ rows[i].env = rows[j].env
       => i = j

ASSUME AccessAssumption ==
  /\ Envs \subseteq {"dev", "live"}
  /\ None \notin Envs /\ DefaultExpiry \in Nat \cup {None}
  /\ MaxGrants \in Nat /\ MaxTime \in Nat
  /\ \A rows \in FirstGrants : Possible(rows)

Times == 0 .. MaxTime
Ids == 1 .. MaxGrants

VARIABLES
  now,
  grants,   \* in the order they were requested
  dec,      \* what each decision is doing
  run       \* what each call is doing

accessVars == <<now, grants, dec, run>>
vars == <<membersVars, accessVars>>

NoDecision ==
  [pc |-> "idle", action |-> "deny", by |-> None, id |-> 0, fields |-> {}, expires |-> None,
   losing |-> {}]
\* ended and lost are history: the grants that had ended, and the groups the user was not
\* in, when the call began; a group the user has since joined is not lost.
NoCall ==
  [pc |-> "idle", user |-> None, env |-> None, as |-> {}, id |-> 0, ended |-> {}, lost |-> {}]

Init ==
  /\ MembersInit
  /\ now = 0 /\ grants \in FirstGrants
  /\ dec = [d \in Deciders |-> NoDecision]
  /\ run = [c \in Callers |-> NoCall]

---------------------------------------------------------------------------
(* The grant that applies *)

Approved(i) == grants[i].status = "approved"

Expired(i) == Approved(i) /\ grants[i].expires # None /\ grants[i].expires <= now
SameHolder(i, j) == grants[i].principal = grants[j].principal /\ grants[i].env = grants[j].env

\* Mutant: approved once is approved.
NeverExpires(i) == grants[i].status = "approved"
\* status = 'approved' and (expires_at is null or expires_at > now())
Live(i) == Approved(i) /\ (grants[i].expires # None => grants[i].expires > now)

Principals(u) == {u} \cup Held(u)

\* The one requested last.
Latest(S) == {i \in S : \A j \in S : j <= i}
\* order by (principal like 'user:%') desc, requested_at desc limit 1
Specific(S) ==
  LET own == {i \in S : grants[i].principal \in Users}
  IN Latest(IF own # {} THEN own ELSE S)

\* loadActiveGrant and, for many collections, loadActiveGrants: one grant or none.
ActiveGrant(P, env) ==
  Specific({i \in DOMAIN grants : grants[i].principal \in P /\ grants[i].env = env /\ Live(i)})

\* What a user can read.
Effective(u, env) == UNION {grants[i].fields : i \in ActiveGrant(Principals(u), env)}

---------------------------------------------------------------------------
(* Requests and decisions.  asked is history: allowed_fields is overwritten. *)

Manages(u) == u \in Users /\ member[u] \in {"admin", "manager"}

\* A member asks for itself, a manager for anybody, or for a group somebody is in.
RequestGrant(u, p, env, F) ==
  /\ member[u] # None /\ F # {} /\ Len(grants) < MaxGrants /\ Call
  /\ p = u \/ Manages(u)
  /\ p \in Groups => \E v \in Users : p \in Held(v)
  /\ grants' = Append(grants, [user |-> u, principal |-> p, env |-> env, asked |-> F, fields |-> F,
                               status |-> "pending", expires |-> None, decider |-> None])
  /\ UNCHANGED <<membersState, now, dec, run>>

\* approve, deny and revoke take a manager; that the grant is there is checked later.
BeginDecision(d, u, i, action) ==
  /\ dec[d].pc = "idle" /\ Call
  /\ Manages(u)
  /\ dec' = [dec EXCEPT ![d] = [NoDecision EXCEPT
               !.pc = IF action = "approve" THEN "select" ELSE "update",
               !.action = action, !.by = u, !.id = i]]
  /\ UNCHANGED <<membersState, now, grants, run>>

\* Mutant: an approver may be anybody.
Anybody(i, u) == TRUE
\* if (grant.env === "live" && grant.user_id === by)
NotOwn(i, u) == grants[i].env = "live" => grants[i].user # u

\* The route and approveGrant look at the row: it is pending, and F trims what it asks for.
Select(d, F, expires) ==
  LET i == dec[d].id IN
  /\ dec[d].pc = "select"
  /\ F # {} /\ F \subseteq grants[i].fields
  /\ expires # None => expires > now
  /\ IF grants[i].status = "pending" /\ NotOwn(i, dec[d].by)
     THEN dec' = [dec EXCEPT ![d].pc = "warn", ![d].fields = F, ![d].expires = expires]
     ELSE /\ F = grants[i].fields /\ expires = None
          /\ dec' = [dec EXCEPT ![d] = NoDecision]
  /\ UNCHANGED <<membersState, calls, now, grants, run>>

\* Mutant: the group grants of any state.
OfAnyState(u, env) ==
  Latest({i \in DOMAIN grants : grants[i].principal \in Held(u) /\ grants[i].env = env})
\* The grant that whoever asked holds through a group.
Inherited(u, env) ==
  Latest({i \in DOMAIN grants : grants[i].principal \in Held(u) /\ grants[i].env = env /\ Live(i)})

\* narrowerThanInherited: the fields a personal grant of F would shadow.
Losing(i, F) ==
  IF grants[i].principal \in Users
  THEN (UNION {grants[j].fields : j \in Inherited(grants[i].user, grants[i].env)}) \ F
  ELSE {}

Warn(d) ==
  /\ dec[d].pc = "warn"
  /\ dec' = [dec EXCEPT ![d].pc = "update", ![d].losing = Losing(dec[d].id, dec[d].fields)]
  /\ UNCHANGED <<membersState, calls, now, grants, run>>

\* grants_one_active_principal: the index does not ask whether a grant has expired.
Taken(i) ==
  \E j \in DOMAIN grants \ {i} : Approved(j) /\ SameHolder(i, j)

\* Mutant: the update does not ask for the state of the row.
InAnyState(i) == TRUE
\* and status = 'pending'
Pending(i) == grants[i].status = "pending"

Expiry(d) ==
  IF dec[d].expires = None /\ DefaultExpiry # None THEN now + DefaultExpiry ELSE dec[d].expires

\* The update finds its row, and the index admits what becomes of it.
Applies(d) ==
  CASE dec[d].action = "approve" -> Pending(dec[d].id) /\ ~Taken(dec[d].id)
    [] dec[d].action = "deny"    -> Pending(dec[d].id)
    [] dec[d].action = "revoke"  -> Approved(dec[d].id)

Outcome(d) ==
  LET as(status) == [grants[dec[d].id] EXCEPT !.status = status, !.decider = dec[d].by]
  IN CASE dec[d].action = "approve" ->
            [as("approved") EXCEPT !.fields = dec[d].fields, !.expires = Expiry(d)]
       [] dec[d].action = "deny"    -> as("denied")
       [] dec[d].action = "revoke"  -> as("revoked")

Update(d) ==
  /\ dec[d].pc = "update"
  /\ grants' = IF Applies(d) THEN [grants EXCEPT ![dec[d].id] = Outcome(d)] ELSE grants
  /\ dec' = [dec EXCEPT ![d] = NoDecision]
  /\ UNCHANGED <<membersState, calls, now, run>>

---------------------------------------------------------------------------
(* A call *)

\* The context is derived: whoever is not a member has none.
BeginCall(c, u, env) ==
  /\ run[c].pc = "idle" /\ member[u] # None /\ Call
  /\ run' = [run EXCEPT ![c] = [NoCall EXCEPT
               !.pc = "principals", !.user = u, !.env = env,
               !.ended = {i \in DOMAIN grants : grants[i].status = "revoked" \/ Expired(i)}, !.lost = Groups \ Held(u)]]
  /\ UNCHANGED <<membersState, now, grants, dec>>

LoadPrincipals(c) ==
  /\ run[c].pc = "principals"
  /\ run' = [run EXCEPT ![c].pc = "grant", ![c].as = Principals(run[c].user)]
  /\ UNCHANGED <<membersState, calls, now, grants, dec>>

\* No grant: the call is refused.  Otherwise it runs under this one, to its end.
LoadGrant(c) ==
  /\ run[c].pc = "grant"
  /\ LET found == ActiveGrant(run[c].as, run[c].env)
     IN \/ found = {} /\ run' = [run EXCEPT ![c] = NoCall]
        \/ \E i \in found : run' = [run EXCEPT ![c].pc = "answer", ![c].id = i]
  /\ UNCHANGED <<membersState, calls, now, grants, dec>>

Answer(c) ==
  /\ run[c].pc = "answer"
  /\ run' = [run EXCEPT ![c] = NoCall]
  /\ UNCHANGED <<membersState, calls, now, grants, dec>>

---------------------------------------------------------------------------

Tick ==
  /\ now < MaxTime /\ now' = now + 1
  /\ UNCHANGED <<membersState, calls, grants, dec, run>>

\* A request about members; a group its user joins is lost to no call of theirs.
Membership ==
  /\ \E r \in Requests : MembersStep(r)
  /\ run' = [c \in Callers |-> [run[c] EXCEPT
       !.lost = {g \in @ : \A src \in Sources : <<run[c].user, g, src>> \notin groups'}]]
  /\ UNCHANGED <<now, grants, dec>>

Done ==
  /\ MembersDone /\ now = MaxTime
  /\ \A d \in Deciders : dec[d].pc = "idle"
  /\ \A c \in Callers : run[c].pc = "idle"
  /\ UNCHANGED vars

Next ==
  \/ Membership
  \/ \E u \in Users, p \in Users \cup Groups, env \in Envs, F \in SUBSET Fields :
       RequestGrant(u, p, env, F)
  \/ \E d \in Deciders :
       \/ \E u \in Users, i \in DOMAIN grants, action \in {"approve", "deny", "revoke"} :
            BeginDecision(d, u, i, action)
       \/ \E F \in SUBSET Fields, expires \in Times \cup {None} : Select(d, F, expires)
       \/ Warn(d) \/ Update(d)
  \/ \E c \in Callers :
       \/ \E u \in Users, env \in Envs : BeginCall(c, u, env)
       \/ LoadPrincipals(c) \/ LoadGrant(c) \/ Answer(c)
  \/ Tick \/ Done

Spec == Init /\ [][Next]_vars
---------------------------------------------------------------------------
(* Properties *)

Decision ==
  [pc : {"idle", "select", "warn", "update"}, action : {"approve", "deny", "revoke"},
   by : Users \cup {None}, id : Ids \cup {0}, fields : SUBSET Fields,
   expires : Nat \cup {None}, losing : SUBSET Fields]
CallState ==
  [pc : {"idle", "principals", "grant", "answer"}, user : Users \cup {None},
   env : Envs \cup {None}, as : SUBSET (Users \cup Groups), id : Ids \cup {0},
   ended : SUBSET Ids, lost : SUBSET Groups]

\* A decision and a call name a grant that is there, and a principal holds one grant that
\* has been approved and not revoked in an environment.
TypeOK ==
  /\ MembersTypeOK
  /\ now \in Times /\ grants \in Seq(Grant) /\ Len(grants) <= MaxGrants
  /\ dec \in [Deciders -> Decision] /\ run \in [Callers -> CallState]
  /\ \A d \in Deciders : dec[d].pc # "idle" => dec[d].id \in DOMAIN grants
  /\ \A c \in Callers : run[c].pc = "answer" => run[c].id \in DOMAIN grants
  /\ \A i, j \in DOMAIN grants : Approved(i) /\ Approved(j) /\ SameHolder(i, j) => i = j

\* architecture.md: "Revocation and expiry take effect on the very next query" - a call is
\* answered under no grant that had ended when it began, and through no group that its
\* user was not in then and has not joined since.
EndedIsEnded ==
  \A c \in Callers :
    run[c].pc = "answer" => /\ run[c].id \notin run[c].ended
                            /\ grants[run[c].id].principal \notin run[c].lost

\* A decision stands: whatever two deciders do at once, what has been approved changes only
\* by being revoked, and what has been denied or revoked does not change.
DecisionsStand ==
  [][\A i \in DOMAIN grants :
       grants[i].status # "pending" =>
                      \/ grants'[i] = grants[i]
                      \/ /\ Approved(i)
                         /\ \E u \in Users : grants'[i] = [grants[i] EXCEPT !.status = "revoked",
                                                                            !.decider = u]]_vars

\* "the second person has to be a second person": what is in force on live data was not
\* approved by who asked for it, and holds no field that was not asked for.
SecondPerson ==
  \A i \in DOMAIN grants :
    Approved(i) => /\ grants[i].env = "live" => grants[i].decider # grants[i].user
                   /\ grants[i].fields \subseteq grants[i].asked

Approving(d) == dec[d].action = "approve" /\ Update(d) /\ Applies(d)

\* Whoever approves a personal grant that p asked for is told every field it takes away from
\* u, whose grant it is, unless what the warning was computed from has changed since.
ToldOf(p, u) ==
  \A d \in Deciders, i \in Ids, env \in Envs, lost \in SUBSET Fields :
    /\ Approving(d) /\ i = dec[d].id /\ dec[d].losing = Losing(i, dec[d].fields)
    /\ grants[i].principal = u /\ grants[i].user = p /\ grants[i].env = env
    /\ lost = Effective(u, env) \ Effective(u, env)'
    => lost \subseteq dec[d].losing

\* narrowerThanInherited: the approver of a grant somebody asked for itself is told of every
\* field it takes away.
LossIsWarned == [][\A u \in Users : ToldOf(u, u)]_vars

\* manage.ts: "Would approving this grant NARROW what its subject can already do?" - so it is
\* when a manager has asked for somebody else.
SubjectIsWarned == [][\A p, u \in Users : ToldOf(p, u)]_vars
=============================================================================
