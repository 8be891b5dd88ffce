--------------------------- MODULE MembersProofs ---------------------------
(***************************************************************************)
(* Theorems about Members, for any users, groups and requests.             *)
(***************************************************************************)
EXTENDS Members, FiniteSetTheorems, TLAPS

\* What setUserGroups has found to delete was put there by its own source.
GoneIsOwn == \A r \in Requests : \A x \in req[r].gone : x[3] = req[r].source

\* Only a login that found no marker derives a role, and it leaves one.
DerivedIsSeen == \A u \in Users : derived[u] <= 1 /\ (u \notin seen => derived[u] = 0)

IInv == MembersTypeOK /\ GoneIsOwn /\ DerivedIsSeen

---------------------------------------------------------------------------

LEMMA NoRequestType == NoRequest \in Request
BY MembersAssumption DEF NoRequest, Request, AllKinds, Roles, Sources

\* Where a request can be, and a request that has moved.
Places == {"idle", "read", "count", "store", "write", "lock", "countLocked", "delete",
           "mark", "clear", "wait", "insert"}

LEMMA Moved ==
  ASSUME NEW x \in Request, NEW pc \in Places
  PROVE  /\ [x EXCEPT !.pc = pc] \in Request
         /\ [x EXCEPT !.pc = pc].pc = pc
         /\ [x EXCEPT !.pc = pc].user = x.user
         /\ [x EXCEPT !.pc = pc].gone = x.gone
         /\ [x EXCEPT !.pc = pc].source = x.source
         /\ [x EXCEPT !.pc = pc].asked = x.asked
BY DEF Request, Places

LEMMA Lost ==
  ASSUME NEW x \in Request, NEW G
  PROVE  /\ [x EXCEPT !.gone = @ \ G] \in Request
         /\ [x EXCEPT !.gone = @ \ G].pc = x.pc
         /\ [x EXCEPT !.gone = @ \ G].user = x.user
         /\ [x EXCEPT !.gone = @ \ G].gone = x.gone \ G
         /\ [x EXCEPT !.gone = @ \ G].source = x.source
         /\ [x EXCEPT !.gone = @ \ G].asked = x.asked
BY DEF Request

LEMMA MembersInitInv == MembersInit => IInv
<1> SUFFICES ASSUME MembersInit PROVE IInv
  OBVIOUS
<1> USE DEF MembersInit
<1>1. \A r \in Requests : req[r] = NoRequest
  OBVIOUS
<1>2. MembersTypeOK
  BY <1>1, NoRequestType, MembersAssumption DEF MembersTypeOK, NoRequest, At
<1>3. GoneIsOwn
  BY <1>1 DEF GoneIsOwn, NoRequest
<1>4. DerivedIsSeen
  BY DEF DerivedIsSeen
<1> QED BY <1>2, <1>3, <1>4 DEF IInv

\* A request that moves on without holding a lock that it did not hold.
LEMMA GotoInv ==
  ASSUME IInv, NEW r \in Requests, ~At(r, "idle"),
         NEW pc \in {"read", "count", "store", "write", "lock", "mark", "clear", "insert"},
         pc = "insert" => At(r, "wait"), Goto(r, pc), UNCHANGED <<groups, calls>>,
         member' \in [Users -> Roles \cup {None}], account' \in [Users -> Roles \cup {None}],
         \A u \in Users : Locked(u) /\ member[u] # None => member'[u] # None,
         seen' \subseteq Users, derived' \in [Users -> Nat], DerivedIsSeen'
  PROVE  IInv'
<1> USE DEF IInv, Goto, At
<1>1. /\ req' \in [Requests -> Request]
      /\ \A q \in Requests : req'[q].user = req[q].user /\ req'[q].gone = req[q].gone
                             /\ req'[q].source = req[q].source /\ req'[q].asked = req[q].asked
      /\ \A q \in Requests : req'[q].pc = IF q = r THEN pc ELSE req[q].pc
  <2>1. req \in [Requests -> Request]
    BY DEF MembersTypeOK
  <2>2. \A q \in Requests : req'[q] = IF q = r THEN [req[r] EXCEPT !.pc = pc] ELSE req[q]
    BY <2>1
  <2>3. pc \in Places /\ req[r] \in Request
    BY <2>1 DEF Places
  <2>4. \A q \in Requests : /\ req'[q].user = req[q].user /\ req'[q].gone = req[q].gone
                             /\ req'[q].source = req[q].source /\ req'[q].asked = req[q].asked
                             /\ req'[q] \in Request
                             /\ req'[q].pc = IF q = r THEN pc ELSE req[q].pc
    <3> TAKE q \in Requests
    <3>1. CASE q = r
      <4> DEFINE y == [req[r] EXCEPT !.pc = pc]
      <4>1. /\ y \in Request /\ y.pc = pc /\ y.user = req[r].user
            /\ y.gone = req[r].gone /\ y.source = req[r].source /\ y.asked = req[r].asked
        BY <2>3, Moved
      <4>2. req'[q] = y
        BY <2>2, <3>1
      <4> HIDE DEF y
      <4> QED BY <4>1, <4>2, <3>1
    <3>2. CASE q # r
      BY <2>1, <2>2, <3>2
    <3> QED BY <3>1, <3>2
  <2>5. req' \in [Requests -> Request]
    <3>1. DOMAIN req' = Requests /\ req' = [q \in Requests |-> req'[q]]
      BY <2>1
    <3> QED BY <2>4, <3>1
  <2> QED BY <2>4, <2>5
<1>2. \A q \in Requests : req'[q].pc \in {"countLocked", "delete"} =>
        req[q].pc \in {"countLocked", "delete"}
  BY <1>1
<1>3. MembersTypeOK'
  BY <1>1, <1>2 DEF MembersTypeOK, Locked
<1>4. GoneIsOwn'
  BY <1>1 DEF GoneIsOwn
<1> QED BY <1>3, <1>4

\* A request that is answered.
LEMMA EndInv ==
  ASSUME IInv, NEW r \in Requests, End(r), UNCHANGED <<groups, calls, seen, derived, account>>,
         member' \in [Users -> Roles \cup {None}],
         \A q \in Requests \ {r} : req[q].pc \in {"countLocked", "delete"} =>
           member'[req[q].user] # None
  PROVE  IInv'
<1> USE DEF IInv, End, At
<1>1. /\ req' \in [Requests -> Request]
      /\ \A q \in Requests : req'[q] = IF q = r THEN NoRequest ELSE req[q]
      /\ NoRequest.pc = "idle" /\ NoRequest.gone = {}
  BY NoRequestType DEF MembersTypeOK, NoRequest
<1>2. MembersTypeOK'
  BY <1>1 DEF MembersTypeOK
<1>3. GoneIsOwn'
  BY <1>1 DEF GoneIsOwn
<1>4. DerivedIsSeen'
  BY DEF DerivedIsSeen
<1> QED BY <1>2, <1>3, <1>4
---------------------------------------------------------------------------
(* The steps *)

LEMMA Begun ==
  ASSUME NEW pc \in Places, NEW kind \in AllKinds, NEW by \in Users \cup {None}, NEW u \in Users,
         NEW role \in Roles, NEW asked \in (SUBSET Groups) \cup {None}, NEW source \in Sources,
         NEW alone \in BOOLEAN
  PROVE  [pc |-> pc, kind |-> kind, by |-> by, user |-> u, role |-> role, asked |-> asked,
          gone |-> {}, alone |-> alone, source |-> source] \in Request
BY DEF Request, Places

LEMMA BeginInv ==
  ASSUME IInv, NEW r \in Requests, Arrive(r)
  PROVE  IInv'
<1> USE DEF IInv
<1>1. PICK kind \in Kinds, by \in Users \cup {None}, u \in Users, role \in Asked \cup {"member"},
           asked \in (SUBSET Groups) \cup {None} : Begin(r, kind, by, u, role, asked)
  BY DEF Arrive
<1>role. role \in Roles
  BY MembersAssumption DEF Roles
<1> DEFINE source == IF kind = "login" THEN "sso" ELSE "manual"
           alone == Busy(r) = {}
           x == [pc |-> FirstStep(kind), kind |-> kind, by |-> by, user |-> u, role |-> role,
                 asked |-> asked, gone |-> {}, alone |-> alone, source |-> source]
<1>2. /\ FirstStep(kind) \in {"lock", "clear", "write", "store", "mark", "read"}
      /\ kind \in AllKinds /\ source \in Sources /\ alone \in BOOLEAN
  BY MembersAssumption DEF Sources, FirstStep
<1>3. /\ x \in Request /\ x.pc = FirstStep(kind) /\ x.user = u /\ x.gone = {}
  <2> HIDE DEF source, alone
  <2> QED BY <1>role, <1>2, Begun DEF Places
<1>4. req' = [q \in Requests |-> IF q = r THEN x ELSE [req[q] EXCEPT !.alone = @ /\ At(q, "idle")]]
  BY <1>1 DEF Begin
<1> HIDE DEF x
<1>5. \A q \in Requests \ {r} : /\ req'[q] \in Request /\ req'[q].pc = req[q].pc
                                /\ req'[q].user = req[q].user /\ req'[q].gone = req[q].gone
                                /\ req'[q].source = req[q].source
                                /\ req'[q].asked = req[q].asked
  <2> TAKE q \in Requests \ {r}
  <2>1. req[q] \in Request
    BY DEF MembersTypeOK
  <2>2. req'[q] = [req[q] EXCEPT !.alone = req[q].alone /\ At(q, "idle")]
    BY <1>4
  <2>3. (req[q].alone /\ At(q, "idle")) \in BOOLEAN
    OBVIOUS
  <2> QED BY <2>1, <2>2, <2>3 DEF Request
<1>6. req' \in [Requests -> Request] /\ req'[r] = x
  BY <1>3, <1>4, <1>5
<1>7. UNCHANGED <<member, account, groups, seen, derived>> /\ calls' \in 0 .. MaxCalls
  <2>1. UNCHANGED <<member, account, groups, seen, derived>> /\ Call
    BY <1>1 DEF Begin
  <2>2. calls \in 0 .. MaxCalls
    BY DEF MembersTypeOK
  <2>3. calls' \in 0 .. MaxCalls
    BY <2>1, <2>2, MembersAssumption DEF Call
  <2> QED BY <2>1, <2>3
<1>8. MembersTypeOK'
  BY <1>2, <1>3, <1>5, <1>6, <1>7 DEF MembersTypeOK, At
<1>9. GoneIsOwn'
  BY <1>3, <1>5, <1>6 DEF GoneIsOwn
<1> QED BY <1>7, <1>8, <1>9 DEF DerivedIsSeen

LEMMA RoleInv ==
  ASSUME IInv, NEW r \in Requests, Read(r) \/ Count(r) \/ Store(r) \/ Write(r)
  PROVE  IInv'
<1> USE DEF IInv
<1>1. /\ member \in [Users -> Roles \cup {None}] /\ account \in [Users -> Roles \cup {None}]
      /\ seen \subseteq Users /\ derived \in [Users -> Nat] /\ req[r] \in Request
      /\ ~At(r, "idle") => req[r].user \in Users
  BY DEF MembersTypeOK
<1>2. req[r].role \in Roles
  BY <1>1 DEF Request
<1>3. \A q \in Requests : req[q].pc \in {"countLocked", "delete"} => member[req[q].user] # None
  BY DEF MembersTypeOK
<1>4. CASE Read(r)
  BY <1>1, <1>3, <1>4, GotoInv, EndInv DEF Read, At, DerivedIsSeen
<1>5. CASE Count(r)
  BY <1>1, <1>3, <1>5, GotoInv, EndInv DEF Count, At, DerivedIsSeen
<1>6. CASE Store(r)
  BY <1>1, <1>2, <1>6, GotoInv DEF Store, At, DerivedIsSeen
<1>7. CASE Write(r)
  <2>1. /\ member' \in [Users -> Roles \cup {None}]
        /\ \A u \in Users : Locked(u) => member'[u] = member[u]
    BY <1>1, <1>2, <1>7 DEF Write, At
  <2>2. \A q \in Requests \ {r} : req[q].pc \in {"countLocked", "delete"} =>
          Locked(req[q].user) /\ req[q].user \in Users
    BY DEF MembersTypeOK, Locked, At
  <2>3. \A q \in Requests \ {r} : req[q].pc \in {"countLocked", "delete"} =>
          member'[req[q].user] # None
    BY <1>3, <2>1, <2>2
  <2> QED BY <1>1, <1>7, <2>1, <2>3, GotoInv, EndInv DEF Write, At, DerivedIsSeen
<1> QED BY <1>4, <1>5, <1>6, <1>7
\* A row that nobody has locked is locked, or the lock is kept.
LEMMA LockedInv ==
  ASSUME IInv, NEW r \in Requests, NEW pc \in {"countLocked", "delete"}, ~At(r, "idle"), Goto(r, pc),
         UNCHANGED <<member, account, groups, seen, derived, calls>>,
         member[req[r].user] # None,
         \/ ~Locked(req[r].user)
         \/ req[r].pc \in {"countLocked", "delete"}
  PROVE  IInv'
<1> USE DEF IInv, At
<1>1. req \in [Requests -> Request] /\ pc \in Places
  BY DEF MembersTypeOK, Places
<1> DEFINE y == [req[r] EXCEPT !.pc = pc]
<1>2. /\ y \in Request /\ y.pc = pc /\ y.user = req[r].user
      /\ y.gone = req[r].gone /\ y.source = req[r].source /\ y.asked = req[r].asked
  BY <1>1, Moved
<1>3. req' = [q \in Requests |-> IF q = r THEN y ELSE req[q]]
  BY <1>1 DEF Goto
<1> HIDE DEF y
<1>4. req' \in [Requests -> Request] /\ \A q \in Requests : req'[q] = IF q = r THEN y ELSE req[q]
  BY <1>1, <1>2, <1>3
<1>5. \A q \in Requests \ {r} : req[q].pc \in {"countLocked", "delete"} => req[q].user # req[r].user
  BY DEF MembersTypeOK, Locked
<1>6. MembersTypeOK'
  BY <1>2, <1>4, <1>5 DEF MembersTypeOK
<1>7. GoneIsOwn'
  BY <1>2, <1>4 DEF GoneIsOwn
<1> QED BY <1>6, <1>7 DEF DerivedIsSeen

LEMMA RemovalInv ==
  ASSUME IInv, NEW r \in Requests, Lock(r) \/ CountLocked(r) \/ Delete(r) \/ Break(r)
  PROVE  IInv'
<1> USE DEF IInv
<1>1. member \in [Users -> Roles \cup {None}] /\ (~At(r, "idle") => req[r].user \in Users)
  BY DEF MembersTypeOK
<1>2. \A q \in Requests : req[q].pc \in {"countLocked", "delete"} => member[req[q].user] # None
  BY DEF MembersTypeOK
<1>3. CASE Lock(r)
  <2>1. /\ At(r, "lock") /\ ~Locked(req[r].user)
        /\ UNCHANGED <<member, account, groups, seen, derived, calls>>
    BY <1>3 DEF Lock
  <2>2. CASE member[req[r].user] = None
    <3>1. End(r)
      BY <1>3, <2>2 DEF Lock
    <3> QED BY <1>1, <1>2, <2>1, <3>1, EndInv
  <2>3. CASE member[req[r].user] # None
    <3>1. Goto(r, "countLocked") \/ Goto(r, "delete")
      BY <1>3, <2>3, MembersAssumption DEF Lock
    <3> QED BY <2>1, <2>3, <3>1, LockedInv DEF At
  <2> QED BY <2>2, <2>3
<1>4. CASE CountLocked(r)
  BY <1>1, <1>2, <1>4, EndInv, LockedInv DEF CountLocked, At
<1>5. CASE Delete(r)
  <2>1. member' = [member EXCEPT ![req[r].user] = None] /\ req[r].user \in Users /\ At(r, "delete")
    BY <1>1, <1>5 DEF Delete, At
  <2>2. \A q \in Requests \ {r} : req[q].pc \in {"countLocked", "delete"} =>
          req[q].user # req[r].user /\ req[q].user \in Users
    BY <2>1 DEF MembersTypeOK, At
  <2>3. \A q \in Requests \ {r} : req[q].pc \in {"countLocked", "delete"} =>
          member'[req[q].user] # None
    BY <1>1, <1>2, <2>1, <2>2
  <2>4. member' \in [Users -> Roles \cup {None}]
    BY <1>1, <2>1
  <2> QED BY <1>5, <2>3, <2>4, EndInv DEF Delete
<1>6. CASE Break(r)
  BY <1>1, <1>2, <1>6, EndInv DEF Break
<1> QED BY <1>3, <1>4, <1>5, <1>6

LEMMA MarkInv ==
  ASSUME IInv, NEW r \in Requests, Mark(r)
  PROVE  IInv'
<1> USE DEF IInv
<1> DEFINE u == req[r].user
<1>1. /\ member \in [Users -> Roles \cup {None}] /\ account \in [Users -> Roles \cup {None}]
      /\ seen \subseteq Users /\ derived \in [Users -> Nat] /\ u \in Users
      /\ ~At(r, "idle") /\ seen' = seen \cup {u}
  BY DEF MembersTypeOK, Mark, At
<1>2. UNCHANGED <<member, account, groups, calls>>
  BY DEF Mark
<1>3. CASE FirstLogin(u)
  <2>1. Goto(r, "store") /\ derived' = [derived EXCEPT ![u] = @ + 1]
    BY <1>3 DEF Mark
  <2>2. DerivedIsSeen'
    BY <1>1, <1>3, <2>1 DEF DerivedIsSeen, FirstLogin
  <2> QED BY <1>1, <1>2, <2>1, <2>2, GotoInv
<1>4. CASE ~FirstLogin(u)
  <2>1. Goto(r, "clear") /\ UNCHANGED derived
    BY <1>4 DEF Mark
  <2>2. DerivedIsSeen'
    BY <1>1, <2>1 DEF DerivedIsSeen
  <2> QED BY <1>1, <1>2, <2>1, <2>2, GotoInv
<1> QED BY <1>3, <1>4

LEMMA GroupsInv ==
  ASSUME IInv, NEW r \in Requests, Clear(r) \/ Cleared(r) \/ Insert(r)
  PROVE  IInv'
<1> USE DEF IInv
<1>1. /\ member \in [Users -> Roles \cup {None}] /\ account \in [Users -> Roles \cup {None}]
      /\ seen \subseteq Users /\ derived \in [Users -> Nat] /\ req \in [Requests -> Request]
      /\ groups \subseteq Users \X Groups \X Sources
      /\ ~At(r, "idle") => req[r].user \in Users
  BY DEF MembersTypeOK
<1>2. \A q \in Requests : req[q].pc \in {"countLocked", "delete"} => member[req[q].user] # None
  BY DEF MembersTypeOK
<1>3. CASE Cleared(r)
  BY <1>1, <1>2, <1>3, GotoInv DEF Cleared, At, DerivedIsSeen
<1>4. CASE Clear(r) /\ req[r].asked = None
  BY <1>1, <1>2, <1>4, EndInv DEF Clear
<1>5. CASE Clear(r) /\ req[r].asked # None
  <2> DEFINE y == [req[r] EXCEPT !.pc = "wait", !.gone = OwnRows(r)]
  <2>1. UNCHANGED <<member, account, groups, seen, derived, calls>> /\ At(r, "clear")
    BY <1>5 DEF Clear
  <2>2. req' = [q \in Requests |-> IF q = r THEN y ELSE req[q]]
    BY <1>1, <1>5 DEF Clear
  <2>3. OwnRows(r) \subseteq Users \X Groups \X Sources /\ \A x \in OwnRows(r) : x[3] = req[r].source
    BY <1>1 DEF OwnRows
  <2>4. /\ y \in Request /\ y.pc = "wait" /\ y.gone = OwnRows(r)
        /\ y.source = req[r].source /\ y.user = req[r].user /\ y.asked = req[r].asked
    BY <1>1, <2>3 DEF Request
  <2> HIDE DEF y
  <2>5. req' \in [Requests -> Request] /\ \A q \in Requests : req'[q] = IF q = r THEN y ELSE req[q]
    BY <1>1, <2>2, <2>4
  <2>6. MembersTypeOK'
    BY <1>1, <1>5, <2>1, <2>4, <2>5 DEF MembersTypeOK, At
  <2>7. GoneIsOwn'
    BY <2>3, <2>4, <2>5 DEF GoneIsOwn
  <2> QED BY <2>1, <2>6, <2>7 DEF DerivedIsSeen
<1>6. CASE Insert(r)
  <2>1. UNCHANGED <<member, account, seen, derived, calls>> /\ At(r, "insert")
    BY <1>6 DEF Insert
  <2>2. \A q \in Requests : req'[q] = IF q = r THEN NoRequest
                                      ELSE [req[q] EXCEPT !.gone = @ \ req[r].gone]
    BY <1>6 DEF Insert
  <2>3. \A q \in Requests \ {r} : /\ req'[q] \in Request /\ req'[q].pc = req[q].pc
                                  /\ req'[q].user = req[q].user /\ req'[q].source = req[q].source
                                  /\ req'[q].gone = req[q].gone \ req[r].gone
                                  /\ req'[q].asked = req[q].asked
    <3> TAKE q \in Requests \ {r}
    <3> DEFINE z == [req[q] EXCEPT !.gone = @ \ req[r].gone]
    <3>1. /\ z \in Request /\ z.pc = req[q].pc /\ z.user = req[q].user /\ z.source = req[q].source
          /\ z.gone = req[q].gone \ req[r].gone /\ z.asked = req[q].asked
      BY <1>1, Lost
    <3>2. req'[q] = z
      BY <2>2
    <3> HIDE DEF z
    <3> QED BY <3>1, <3>2
  <2>4. req'[r] \in Request /\ req'[r].pc = "idle" /\ req'[r].gone = {}
    <3>1. NoRequest.pc = "idle" /\ NoRequest.gone = {}
      BY DEF NoRequest
    <3> QED BY <2>2, <3>1, NoRequestType
  <2>5. req' \in [Requests -> Request]
    BY <1>6, <2>3, <2>4 DEF Insert
  <2>6. groups' \subseteq Users \X Groups \X Sources
    <3>1. req[r].asked \in SUBSET Groups /\ req[r].source \in Sources
      BY <1>1, <2>1 DEF Request, MembersTypeOK, At
    <3> QED BY <1>1, <1>6, <2>1, <3>1 DEF Insert, At
  <2>7. MembersTypeOK'
    BY <1>1, <2>1, <2>3, <2>4, <2>5, <2>6 DEF MembersTypeOK, At
  <2>8. GoneIsOwn'
    BY <2>3, <2>4 DEF GoneIsOwn
  <2> QED BY <2>1, <2>7, <2>8 DEF DerivedIsSeen
<1> QED BY <1>3, <1>4, <1>5, <1>6
---------------------------------------------------------------------------

LEMMA StepInv == ASSUME IInv, NEW r \in Requests, MembersStep(r) PROVE IInv'
BY BeginInv, RoleInv, RemovalInv, MarkInv, GroupsInv DEF MembersStep

LEMMA StutterInv == IInv /\ UNCHANGED membersVars => IInv'
BY DEF IInv, MembersTypeOK, GoneIsOwn, DerivedIsSeen, membersVars, membersState, At

LEMMA MembersInv == MembersSpec => []IInv
<1>1. IInv /\ [MembersNext]_membersVars => IInv'
  BY StepInv, StutterInv DEF MembersNext
<1> QED BY <1>1, MembersInitInv, PTL DEF MembersSpec

\* Whatever breaks off where, the state of a request fits its place, and a row that is
\* locked is there until who locked it deletes it.
THEOREM MembersTypeCorrect == MembersSpec => []MembersTypeOK
<1>1. IInv => MembersTypeOK
  BY DEF IInv
<1> QED BY <1>1, MembersInv, PTL

\* However many logins of a user overlap or break off, at most one takes the role of the
\* user from the identity provider.
THEOREM ProvisionedOnceAlways == MembersSpec => []ProvisionedOnce
<1>1. IInv => ProvisionedOnce
  BY DEF IInv, DerivedIsSeen, ProvisionedOnce
<1> QED BY <1>1, MembersInv, PTL

\* setUserGroups never adds nor removes a row of the other source, even when several run
\* for one user at once.
THEOREM OtherSourceAlways == MembersSpec => OtherSourceUntouched
<1>1. ASSUME IInv, NEW r \in Requests, Insert(r)
      PROVE  {x \in groups' : x[3] # req[r].source} = {x \in groups : x[3] # req[r].source}
  <2>1. \A x \in req[r].gone : x[3] = req[r].source
    BY <1>1 DEF IInv, GoneIsOwn
  <2>2. \A x \in {req[r].user} \X req[r].asked \X {req[r].source} : x[3] = req[r].source
    OBVIOUS
  <2> QED BY <1>1, <2>1, <2>2 DEF Insert
<1>2. IInv /\ [MembersNext]_membersVars =>
        [\A r \in Requests : Insert(r) => {x \in groups' : x[3] # req[r].source}
                                           = {x \in groups : x[3] # req[r].source}]_membersVars
  BY <1>1
<1> QED BY <1>2, MembersInv, PTL DEF MembersSpec, OtherSourceUntouched
---------------------------------------------------------------------------
(* A request of the console that runs by itself *)

OtherAdmin(u) == \E a \in Users \ {u} : member[a] = "admin"

\* What such a request has established by the time it writes.
SoloIn(r) ==
  LET c == req[r]
  IN /\ At(r, "idle") => c.by = None
     /\ c.alone /\ c.by # None =>
          /\ Busy(r) = {}
          /\ c.by \in Users /\ c.kind \in {"role", "remove", "account", "groups"}
          /\ c.pc # "mark"
          /\ c.pc \in {"read", "count", "store", "write"} => c.kind \in {"role", "account"}
          /\ c.kind = "account" => member[c.by] = "admin"
          /\ c.kind = "account" /\ c.pc \in {"count", "store", "write"} =>
               c.role = "admin" \/ c.user # c.by
          /\ c.kind = "role" /\ c.pc \in {"store", "write"} =>
               c.role = "admin" \/ member[c.user] # "admin" \/ OtherAdmin(c.user)
          /\ c.pc = "delete" => member[c.user] # "admin" \/ OtherAdmin(c.user)

Solo == \A r \in Requests : SoloIn(r)

\* The count sees the target among the admins: one more is another.
LEMMA TwoIsAnother ==
  ASSUME NEW u \in Users, TwoAdmins(member)
  PROVE  OtherAdmin(u)
<1>1. IsFiniteSet(Admins(member))
  BY MembersAssumption, FS_Subset DEF Admins
<1>2. SUFFICES ASSUME ~OtherAdmin(u) PROVE FALSE
  OBVIOUS
<1>3. Admins(member) \subseteq {u}
  BY <1>2 DEF Admins, OtherAdmin
<1>4. Cardinality(Admins(member)) <= Cardinality({u}) /\ Cardinality({u}) = 1
  BY <1>3, FS_Singleton, FS_Subset
<1>5. Cardinality(Admins(member)) \in Nat
  BY <1>1, FS_CardinalityType
<1> QED BY <1>4, <1>5 DEF TwoAdmins

LEMMA SoloInit == MembersInit => Solo
<1> SUFFICES ASSUME MembersInit, NEW r \in Requests PROVE SoloIn(r)
  BY DEF Solo
<1>1. req[r] = NoRequest
  BY DEF MembersInit
<1>2. NoRequest.by = None
  BY DEF NoRequest
<1> QED BY <1>1, <1>2 DEF SoloIn

\* A step of a request that is under way leaves the others as they are, but for the rows
\* they were to delete.
LEMMA OthersKept ==
  ASSUME IInv, NEW q \in Requests, MembersStep(q), ~At(q, "idle")
  PROVE  \A r \in Requests \ {q} :
           /\ req'[r].pc = req[r].pc /\ req'[r].by = req[r].by /\ req'[r].alone = req[r].alone
           /\ req'[r].kind = req[r].kind /\ req'[r].user = req[r].user /\ req'[r].role = req[r].role
<1> TAKE r \in Requests \ {q}
<1>1. req \in [Requests -> Request]
  BY DEF IInv, MembersTypeOK
<1>2. CASE Insert(q)
  <2>1. req'[r] = [req[r] EXCEPT !.gone = @ \ req[q].gone] /\ req[r] \in Request
    BY <1>1, <1>2 DEF Insert
  <2> QED BY <2>1 DEF Request
<1>3. CASE Clear(q) /\ req[q].asked # None
  <2>1. req' = [req EXCEPT ![q].pc = "wait", ![q].gone = OwnRows(q)]
    BY <1>3 DEF Clear
  <2> QED BY <1>1, <2>1
<1>4. CASE End(q) \/ \E pc \in Places : Goto(q, pc)
  BY <1>1, <1>4 DEF End, Goto
<1>5. Read(q) \/ Count(q) => End(q) \/ Goto(q, "count") \/ Goto(q, "store") \/ Goto(q, "write")
  BY DEF Read, Count
<1>6. Store(q) \/ Write(q) => End(q) \/ Goto(q, "write") \/ Goto(q, "clear")
  BY DEF Store, Write
<1>7. Lock(q) \/ CountLocked(q) \/ Delete(q) \/ Break(q) =>
        End(q) \/ Goto(q, "countLocked") \/ Goto(q, "delete")
  BY DEF Lock, CountLocked, Delete, Break
<1>8. Mark(q) \/ Cleared(q) => Goto(q, "store") \/ Goto(q, "clear") \/ Goto(q, "insert")
  BY DEF Mark, Cleared
<1>9. Clear(q) /\ req[q].asked = None => End(q)
  BY DEF Clear
<1>10. ~Arrive(q)
  BY DEF Arrive, Begin
<1> QED BY <1>2, <1>3, <1>4, <1>5, <1>6, <1>7, <1>8, <1>9, <1>10 DEF MembersStep, Places

\* A request that begins takes the others' solitude.
LEMMA OthersStep ==
  ASSUME IInv, Solo, NEW r \in Requests, NEW q \in Requests \ {r}, MembersStep(q)
  PROVE  SoloIn(r)'
<1>1. SoloIn(r)
  BY DEF Solo
<1>2. CASE At(q, "idle")
  <2>1. Arrive(q)
    BY <1>2 DEF MembersStep, Read, Count, Store, Write, Lock, CountLocked, Delete, Mark, Clear,
                Cleared, Insert, Break, At
  <2>2. req'[r] = [req[r] EXCEPT !.alone = @ /\ At(r, "idle")] /\ req[r] \in Request
    BY <2>1 DEF Arrive, Begin, IInv, MembersTypeOK
  <2>3. /\ req'[r].pc = req[r].pc /\ req'[r].by = req[r].by
        /\ req'[r].alone => At(r, "idle")
    BY <2>2 DEF Request
  <2> QED BY <1>1, <2>3 DEF SoloIn, At
<1>3. CASE ~At(q, "idle")
  <2>1. q \in Busy(r)
    BY <1>3 DEF Busy
  <2> QED BY <1>1, <1>3, <2>1, OthersKept DEF SoloIn, At
<1> QED BY <1>2, <1>3

\* A request that ends knows nothing.
LEMMA EndSolo ==
  ASSUME IInv, NEW r \in Requests, End(r) PROVE SoloIn(r)'
<1>1. req'[r] = NoRequest /\ NoRequest.by = None
  BY DEF IInv, MembersTypeOK, End, NoRequest
<1> QED BY <1>1 DEF SoloIn

LEMMA ArriveSolo ==
  ASSUME IInv, Solo, NEW r \in Requests, Arrive(r)
  PROVE  SoloIn(r)'
<1>1. PICK kind \in Kinds, by \in Users \cup {None}, u \in Users, role \in Asked \cup {"member"},
           asked \in (SUBSET Groups) \cup {None} : Begin(r, kind, by, u, role, asked)
  BY DEF Arrive
<1>2. /\ req'[r].pc = FirstStep(kind) /\ req'[r].by = by /\ req'[r].kind = kind
      /\ req'[r].alone <=> Busy(r) = {}
  BY <1>1 DEF Begin
<1>3. \A q \in Requests \ {r} : req'[q].pc = req[q].pc
  BY <1>1 DEF Begin, IInv, MembersTypeOK, Request
<1>4. Busy(r)' = Busy(r)
  BY <1>3 DEF Busy, At
<1>5. /\ by # None => kind \in {"role", "remove", "account", "groups"} /\ member[by] = "admin"
      /\ UNCHANGED member
  BY <1>1 DEF Begin
<1>6. /\ kind = "role" \/ kind = "account" => FirstStep(kind) = "read"
      /\ kind = "remove" => FirstStep(kind) = "lock"
      /\ kind = "groups" => FirstStep(kind) = "clear"
  BY DEF FirstStep
<1> QED BY <1>2, <1>4, <1>5, <1>6 DEF SoloIn, At
\* What a request that moves on keeps.
LEMMA GotoKeeps ==
  ASSUME IInv, NEW r \in Requests, ~At(r, "idle"), MembersStep(r), NEW pc, Goto(r, pc)
  PROVE  /\ req'[r].pc = pc /\ req'[r].by = req[r].by /\ req'[r].alone = req[r].alone
         /\ req'[r].kind = req[r].kind /\ req'[r].user = req[r].user /\ req'[r].role = req[r].role
         /\ Busy(r)' = Busy(r)
<1>1. req \in [Requests -> Request]
  BY DEF IInv, MembersTypeOK
<1>2. Busy(r)' = Busy(r)
  BY OthersKept DEF Busy, At
<1> DEFINE y == [req[r] EXCEPT !.pc = pc]
<1>3. req'[r] = y
  BY <1>1 DEF Goto
<1>4. /\ y.pc = pc /\ y.by = req[r].by /\ y.alone = req[r].alone
      /\ y.kind = req[r].kind /\ y.user = req[r].user /\ y.role = req[r].role
  BY <1>1 DEF Request
<1> HIDE DEF y
<1> QED BY <1>2, <1>3, <1>4

LEMMA RoleSolo ==
  ASSUME IInv, Solo, NEW r \in Requests, Read(r) \/ Count(r) \/ Store(r) \/ Write(r)
  PROVE  SoloIn(r)'
<1>1. ~At(r, "idle") /\ MembersStep(r) /\ SoloIn(r) /\ req[r].user \in Users
  BY DEF MembersStep, Solo, IInv, MembersTypeOK, Read, Count, Store, Write, At
<1>2. CASE End(r)
  BY <1>2, EndSolo
<1>3. CASE Read(r) /\ ~End(r)
  <2>1. PICK pc \in {"count", "store", "write"} : Goto(r, pc)
    BY <1>3 DEF Read
  <2>2. /\ At(r, "read") /\ UNCHANGED member
        /\ req[r].kind = "account" => req[r].user # req[r].by \/ req[r].role = "admin"
    BY <1>3 DEF Read
  <2>3. req[r].kind = "role" /\ pc \in {"store", "write"} =>
          req[r].role = "admin" \/ member[req[r].user] # "admin"
    <3>1. SUFFICES ASSUME req[r].kind = "role", Demotes(r) PROVE Goto(r, "count") /\ pc = "count"
      BY DEF Demotes, Column
    <3>2. Goto(r, "count")
      BY <1>3, <3>1 DEF Read
    <3>3. req'[r].pc = "count" /\ req'[r].pc = pc
      BY <1>1, <2>1, <3>2, GotoKeeps
    <3> QED BY <3>2, <3>3
  <2>4. /\ req'[r].pc = pc /\ req'[r].by = req[r].by /\ req'[r].alone = req[r].alone
        /\ req'[r].kind = req[r].kind /\ req'[r].user = req[r].user /\ req'[r].role = req[r].role
        /\ Busy(r)' = Busy(r)
    BY <1>1, <2>1, GotoKeeps
  <2> QED BY <1>1, <2>1, <2>2, <2>3, <2>4 DEF SoloIn, At, OtherAdmin
<1>4. CASE Count(r) /\ ~End(r)
  <2>1. PICK pc \in {"store", "write"} : Goto(r, pc)
    BY <1>4 DEF Count
  <2>2. At(r, "count") /\ UNCHANGED member /\ TwoAdmins(Column(r))
    BY <1>4 DEF Count
  <2>3. req[r].kind = "role" => OtherAdmin(req[r].user)
    BY <1>1, <2>2, TwoIsAnother DEF Column
  <2>4. /\ req'[r].pc = pc /\ req'[r].by = req[r].by /\ req'[r].alone = req[r].alone
        /\ req'[r].kind = req[r].kind /\ req'[r].user = req[r].user /\ req'[r].role = req[r].role
        /\ Busy(r)' = Busy(r)
    BY <1>1, <2>1, GotoKeeps
  <2> QED BY <1>1, <2>1, <2>2, <2>3, <2>4 DEF SoloIn, At, OtherAdmin
<1>5. CASE Store(r)
  <2>1. Goto(r, "write") /\ At(r, "store") /\ UNCHANGED member
    BY <1>5 DEF Store
  <2>2. /\ req'[r].pc = "write" /\ req'[r].by = req[r].by /\ req'[r].alone = req[r].alone
        /\ req'[r].kind = req[r].kind /\ req'[r].user = req[r].user /\ req'[r].role = req[r].role
        /\ Busy(r)' = Busy(r)
    BY <1>1, <2>1, GotoKeeps
  <2> QED BY <1>1, <2>1, <2>2 DEF SoloIn, At, OtherAdmin
<1>6. CASE Write(r) /\ ~End(r)
  <2>1. Goto(r, "clear") /\ At(r, "write") /\ req[r].kind = "login"
    BY <1>6 DEF Write
  <2>2. /\ req'[r].pc = "clear" /\ req'[r].by = req[r].by /\ req'[r].alone = req[r].alone
    BY <1>1, <2>1, GotoKeeps
  <2> QED BY <1>1, <2>1, <2>2 DEF SoloIn, At
<1> QED BY <1>2, <1>3, <1>4, <1>5, <1>6

LEMMA RemovalSolo ==
  ASSUME IInv, Solo, NEW r \in Requests, Lock(r) \/ CountLocked(r) \/ Delete(r) \/ Break(r)
  PROVE  SoloIn(r)'
<1>1. ~At(r, "idle") /\ MembersStep(r) /\ SoloIn(r) /\ req[r].user \in Users
  BY DEF MembersStep, Solo, IInv, MembersTypeOK, Lock, CountLocked, Delete, Break, At
<1>2. CASE End(r)
  BY <1>2, EndSolo
<1>3. CASE ~End(r)
  <2>1. PICK pc \in {"countLocked", "delete"} : Goto(r, pc)
    BY <1>3 DEF Lock, CountLocked, Delete, Break
  <2>2. UNCHANGED member /\ (At(r, "lock") \/ At(r, "countLocked"))
    BY <1>3 DEF Lock, CountLocked, Delete, Break
  <2>3. /\ req'[r].pc = pc /\ req'[r].by = req[r].by /\ req'[r].alone = req[r].alone
        /\ req'[r].kind = req[r].kind /\ req'[r].user = req[r].user /\ req'[r].role = req[r].role
        /\ Busy(r)' = Busy(r)
    BY <1>1, <2>1, GotoKeeps
  <2>4. pc = "delete" => member[req[r].user] # "admin" \/ OtherAdmin(req[r].user)
    <3>1. SUFFICES ASSUME pc = "delete", member[req[r].user] = "admin" PROVE OtherAdmin(req[r].user)
      OBVIOUS
    <3>2. CASE Lock(r)
      <4>1. Goto(r, "countLocked")
        BY <1>3, <3>1, <3>2, MembersAssumption DEF Lock, Roles
      <4> QED BY <1>1, <2>3, <3>1, <4>1, GotoKeeps
    <3>3. CASE CountLocked(r)
      BY <1>1, <1>3, <3>3, TwoIsAnother DEF CountLocked
    <3> QED BY <1>3, <3>2, <3>3 DEF Delete, Break
  <2> QED BY <1>1, <2>1, <2>2, <2>3, <2>4 DEF SoloIn, At, OtherAdmin
<1> QED BY <1>2, <1>3
LEMMA GroupsSolo ==
  ASSUME IInv, Solo, NEW r \in Requests, Mark(r) \/ Clear(r) \/ Cleared(r) \/ Insert(r)
  PROVE  SoloIn(r)'
<1>1. ~At(r, "idle") /\ MembersStep(r) /\ SoloIn(r)
  BY DEF MembersStep, Solo, Mark, Clear, Cleared, Insert, At
<1>2. CASE Mark(r)
  <2>1. PICK pc \in {"store", "clear"} : Goto(r, pc)
    BY <1>2 DEF Mark
  <2>2. req'[r].by = req[r].by /\ req'[r].alone = req[r].alone /\ req'[r].pc = pc
    BY <1>1, <2>1, GotoKeeps
  <2> QED BY <1>1, <1>2, <2>1, <2>2 DEF SoloIn, Mark, At
<1>3. CASE Clear(r) /\ req[r].asked = None
  BY <1>3, EndSolo DEF Clear
<1>4. CASE Clear(r) /\ req[r].asked # None
  <2> DEFINE y == [req[r] EXCEPT !.pc = "wait", !.gone = OwnRows(r)]
  <2>1. req \in [Requests -> Request] /\ UNCHANGED member
    BY <1>4 DEF IInv, MembersTypeOK, Clear
  <2>2. req'[r] = y
    BY <1>4, <2>1 DEF Clear
  <2>3. /\ y.pc = "wait" /\ y.by = req[r].by /\ y.alone = req[r].alone /\ y.kind = req[r].kind
    BY <2>1 DEF Request
  <2> HIDE DEF y
  <2>4. Busy(r)' = Busy(r)
    BY <1>1, OthersKept DEF Busy, At
  <2> QED BY <1>1, <2>1, <2>2, <2>3, <2>4 DEF SoloIn, At
<1>5. CASE Cleared(r)
  <2>1. Goto(r, "insert") /\ UNCHANGED member
    BY <1>5 DEF Cleared
  <2>2. /\ req'[r].pc = "insert" /\ req'[r].by = req[r].by /\ req'[r].alone = req[r].alone
        /\ req'[r].kind = req[r].kind /\ Busy(r)' = Busy(r)
    BY <1>1, <2>1, GotoKeeps
  <2> QED BY <1>1, <2>1, <2>2 DEF SoloIn, At
<1>6. CASE Insert(r)
  <2>1. req'[r] = NoRequest /\ NoRequest.by = None
    BY <1>6 DEF Insert, NoRequest
  <2> QED BY <2>1 DEF SoloIn
<1> QED BY <1>2, <1>3, <1>4, <1>5, <1>6

LEMMA SoloStep == IInv /\ Solo /\ [MembersNext]_membersVars => Solo'
<1> SUFFICES ASSUME IInv, Solo, [MembersNext]_membersVars, NEW r \in Requests PROVE SoloIn(r)'
  BY DEF Solo
<1>1. CASE MembersStep(r)
  BY <1>1, ArriveSolo, RoleSolo, RemovalSolo, GroupsSolo DEF MembersStep
<1>2. ASSUME NEW q \in Requests \ {r}, MembersStep(q) PROVE SoloIn(r)'
  BY <1>2, OthersStep
<1>3. CASE UNCHANGED membersVars
  BY <1>3 DEF Solo, SoloIn, membersVars, membersState, At, Busy, OtherAdmin
<1> QED BY <1>1, <1>2, <1>3 DEF MembersNext

\* The write of a request by itself leaves an admin: the count was right, or who asked is one.
LEMMA WriteKeepsAdmin ==
  ASSUME IInv, Solo, NEW r \in Requests, Write(r) \/ Delete(r), req[r].alone, req[r].by # None,
         Admins(member) # {}
  PROVE  Admins(member') # {}
<1>1. SoloIn(r) /\ member \in [Users -> Roles \cup {None}] /\ req[r].user \in Users
  BY DEF Solo, IInv, MembersTypeOK, Write, Delete, At
<1>2. PICK a \in Users : member[a] = "admin"
  BY DEF Admins
<1>3. CASE Write(r)
  <2>1. member' = [member EXCEPT ![req[r].user] = req[r].role] /\ At(r, "write")
    BY <1>3 DEF Write
  <2>2. CASE req[r].role = "admin"
    BY <1>1, <2>1, <2>2 DEF Admins
  <2>3. CASE req[r].role # "admin"
    <3>1. OtherAdmin(req[r].user)
      BY <1>1, <1>2, <2>1, <2>3 DEF SoloIn, OtherAdmin, At
    <3> QED BY <1>1, <2>1, <3>1 DEF OtherAdmin, Admins
  <2> QED BY <2>2, <2>3
<1>4. CASE Delete(r)
  <2>1. member' = [member EXCEPT ![req[r].user] = None] /\ At(r, "delete")
    BY <1>4 DEF Delete
  <2>2. OtherAdmin(req[r].user)
    BY <1>1, <1>2, <2>1 DEF SoloIn, OtherAdmin, At
  <2> QED BY <1>1, <2>1, <2>2 DEF OtherAdmin, Admins
<1> QED BY <1>3, <1>4

\* A request of the console that no other overlaps never takes the last admin of a workspace
\* away, however many came before: what is lost to concurrency is all that is lost.
THEOREM AloneKeepsAdminAlways == MembersSpec => AloneKeepsAdmin
<1> DEFINE Keeps(r) == req[r].alone /\ req'[r] # req[r] /\ req[r].by # None /\ Admins(member) # {}
                         => Admins(member') # {}
<1>1. ASSUME IInv, Solo, MembersNext, ~UNCHANGED membersVars, NEW r \in Requests PROVE Keeps(r)
  <2>1. SUFFICES ASSUME req[r].alone, req[r].by # None, Admins(member) # {}, member' # member
                 PROVE  Admins(member') # {}
    OBVIOUS
  <2>2. PICK q \in Requests : Write(q) \/ Delete(q)
    <3>1. PICK q \in Requests : MembersStep(q)
      BY <1>1 DEF MembersNext
    <3>2. Arrive(q) => UNCHANGED member
      BY DEF Arrive, Begin
    <3>3. Read(q) \/ Count(q) \/ Store(q) \/ Lock(q) \/ CountLocked(q) => UNCHANGED member
      BY DEF Read, Count, Store, Lock, CountLocked
    <3>4. Mark(q) => UNCHANGED member
      BY DEF Mark
    <3>5. Clear(q) \/ Cleared(q) \/ Insert(q) \/ Break(q) => UNCHANGED member
      BY DEF Clear, Cleared, Insert, Break
    <3> QED BY <2>1, <3>1, <3>2, <3>3, <3>4, <3>5 DEF MembersStep
  <2>3. CASE q = r
    BY <1>1, <2>1, <2>2, <2>3, WriteKeepsAdmin
  <2>4. CASE q # r
    <3>1. ~At(q, "idle")
      BY <2>2 DEF Write, Delete, At
    <3>2. Busy(r) = {}
      BY <1>1, <2>1 DEF Solo, SoloIn
    <3> QED BY <2>4, <3>1, <3>2 DEF Busy
  <2> QED BY <2>3, <2>4
<1>2. IInv /\ Solo /\ [MembersNext]_membersVars => [\A r \in Requests : Keeps(r)]_membersVars
  BY <1>1
<1>3. MembersInit => Solo
  BY SoloInit
<1> QED BY <1>2, <1>3, SoloStep, MembersInv, PTL DEF MembersSpec, AloneKeepsAdmin
=============================================================================
