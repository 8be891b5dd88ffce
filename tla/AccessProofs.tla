---------------------------- MODULE AccessProofs ----------------------------
(***************************************************************************)
(* Theorems about Access, for any users, groups, fields, grants, deciders  *)
(* and calls, and about Reach, for any file, columns and requests.         *)
(***************************************************************************)
EXTENDS Access, Reach, MembersProofs, SequenceTheorems

\* A decision that is past its checks has passed them, on a row whose request is what it was.
DecisionOK(d) ==
  dec[d].pc # "idle" =>
    /\ dec[d].id \in DOMAIN grants /\ dec[d].by \in Users
    /\ dec[d].action = "approve" /\ dec[d].pc # "select" =>
         /\ dec[d].fields \subseteq grants[dec[d].id].asked
         /\ NotOwn(dec[d].id, dec[d].by)

Ended(i) == grants[i].status = "revoked" \/ Expired(i)

\* What had ended has ended, who was outside is outside, and what the call holds is neither.
CallOK(c) ==
  run[c].pc # "idle" =>
    /\ run[c].user \in Users
    /\ \A i \in run[c].ended : i \in DOMAIN grants /\ Ended(i)
    /\ run[c].lost \cap Held(run[c].user) = {}
    /\ run[c].pc = "grant" => run[c].lost \cap run[c].as = {}
    /\ run[c].pc = "answer" => /\ run[c].id \in DOMAIN grants
                               /\ run[c].id \notin run[c].ended
                               /\ grants[run[c].id].principal \notin run[c].lost

Decisions == dec \in [Deciders -> Decision] /\ \A d \in Deciders : DecisionOK(d)
CallsOK == run \in [Callers -> CallState] /\ \A c \in Callers : CallOK(c)

AccessInv == IInv /\ now \in Times /\ Possible(grants) /\ Decisions /\ CallsOK

\* What no step does to a row of the table: take it away, change who it is for or what was
\* asked, or bring back what has ended.
RowsStay ==
  \A i \in DOMAIN grants :
    /\ i \in DOMAIN grants'
    /\ grants'[i].user = grants[i].user /\ grants'[i].principal = grants[i].principal
    /\ grants'[i].env = grants[i].env /\ grants'[i].asked = grants[i].asked
    /\ Ended(i) => Ended(i)'

---------------------------------------------------------------------------

LEMMA IdleTypes == NoDecision \in Decision /\ NoCall \in CallState
BY DEF NoDecision, Decision, NoCall, CallState

LEMMA RowIds == Possible(grants) => DOMAIN grants \subseteq Ids
BY AccessAssumption DEF Possible, Ids

LEMMA AccessInit == Init => AccessInv
<1> SUFFICES ASSUME Init PROVE AccessInv
  OBVIOUS
<1>1. IInv
  BY MembersInitInv DEF Init
<1>2. now \in Times /\ Possible(grants)
  BY AccessAssumption DEF Init, Times
<1>3. Decisions
  BY IdleTypes DEF Init, Decisions, DecisionOK, NoDecision
<1>4. CallsOK
  BY IdleTypes DEF Init, CallsOK, CallOK, NoCall
<1> QED BY <1>1, <1>2, <1>3, <1>4 DEF AccessInv

\* A step of Access leaves the members alone, but for the calls it counts.
LEMMA MembersKept ==
  ASSUME IInv, UNCHANGED membersState, calls' \in 0 .. MaxCalls
  PROVE  IInv'
BY DEF IInv, MembersTypeOK, GoneIsOwn, DerivedIsSeen, membersState, At

LEMMA CallCounts == IInv /\ Call => calls' \in 0 .. MaxCalls
BY MembersAssumption DEF IInv, MembersTypeOK, Call

LEMMA RowsUnchanged == UNCHANGED <<grants, now>> => RowsStay
BY DEF RowsStay, Ended, Expired, Approved

LEMMA DecisionsKept ==
  ASSUME Decisions, RowsStay, UNCHANGED dec
  PROVE  Decisions'
<1>1. ASSUME NEW d \in Deciders PROVE DecisionOK(d)'
  BY <1>1 DEF Decisions, DecisionOK, RowsStay, NotOwn
<1> QED BY <1>1 DEF Decisions

LEMMA CallKept ==
  ASSUME NEW c \in Callers, CallOK(c), RowsStay, run'[c] = run[c], UNCHANGED groups
  PROVE  CallOK(c)'
<1>1. Held(run[c].user)' = Held(run[c].user)
  BY DEF Held
<1> QED BY <1>1 DEF CallOK, RowsStay

LEMMA CallsKept ==
  ASSUME CallsOK, RowsStay, UNCHANGED <<run, groups>>
  PROVE  CallsOK'
BY CallKept DEF CallsOK

---------------------------------------------------------------------------
(* Members, time and requests *)

LEMMA MembershipInv == AccessInv /\ Membership => AccessInv'
<1> SUFFICES ASSUME AccessInv, Membership PROVE AccessInv'
  OBVIOUS
<1>1. IInv'
  BY StepInv DEF AccessInv, Membership
<1>2. RowsStay
  BY RowsUnchanged DEF Membership
<1>3. Decisions'
  BY <1>2, DecisionsKept DEF AccessInv, Membership
<1>4. ASSUME NEW c \in Callers
      PROVE  /\ run'[c] \in CallState /\ CallOK(c)'
  <2> DEFINE left == {g \in run[c].lost : \A src \in Sources : <<run[c].user, g, src>> \notin groups'}
  <2>1. run'[c] = [run[c] EXCEPT !.lost = left] /\ run[c] \in CallState
    BY DEF Membership, AccessInv, CallsOK
  <2>2. /\ run'[c] \in CallState /\ run'[c].lost = left /\ left \subseteq run[c].lost
        /\ run'[c].pc = run[c].pc /\ run'[c].user = run[c].user /\ run'[c].ended = run[c].ended
        /\ run'[c].as = run[c].as /\ run'[c].id = run[c].id
    BY <2>1 DEF CallState
  <2>3. left \cap Held(run[c].user)' = {}
    BY <2>2 DEF Held
  <2>4. CallOK(c)
    BY DEF AccessInv, CallsOK
  <2> HIDE DEF left
  <2> QED BY <1>2, <2>2, <2>3, <2>4 DEF CallOK, RowsStay
<1>5. CallsOK'
  BY <1>4 DEF CallsOK, Membership
<1>6. now' \in Times /\ Possible(grants)'
  BY DEF AccessInv, Membership, Possible
<1> QED BY <1>1, <1>3, <1>5, <1>6 DEF AccessInv

LEMMA TickInv == AccessInv /\ Tick => AccessInv'
<1> SUFFICES ASSUME AccessInv, Tick PROVE AccessInv'
  OBVIOUS
<1>1. now \in Nat /\ now' = now + 1 /\ now' \in Times
  BY AccessAssumption DEF AccessInv, Tick, Times
<1>2. Possible(grants)' /\ grants \in Seq(Grant)
  BY DEF AccessInv, Tick, Possible
<1>3. RowsStay
  <2>1. ASSUME NEW i \in DOMAIN grants, Expired(i) PROVE Expired(i)'
    <3>1. grants[i] \in Grant /\ UNCHANGED grants
      BY <1>2 DEF Tick
    <3>2. grants[i].expires \in Nat /\ grants[i].expires <= now /\ grants[i].expires # None
      BY <2>1, <3>1 DEF Expired, Grant
    <3> QED BY <1>1, <2>1, <3>1, <3>2 DEF Expired, Approved
  <2> QED BY <2>1 DEF RowsStay, Ended, Tick
<1>4. IInv'
  BY MembersKept DEF AccessInv, Tick, IInv, MembersTypeOK
<1>5. Decisions' /\ CallsOK'
  BY <1>3, DecisionsKept, CallsKept DEF AccessInv, Tick, membersState
<1> QED BY <1>1, <1>2, <1>4, <1>5 DEF AccessInv

LEMMA RequestInv ==
  ASSUME AccessInv, NEW u \in Users, NEW p \in Users \cup Groups, NEW env \in Envs,
         NEW F \in SUBSET Fields, RequestGrant(u, p, env, F)
  PROVE  AccessInv'
<1> DEFINE row == [user |-> u, principal |-> p, env |-> env, asked |-> F, fields |-> F,
                   status |-> "pending", expires |-> None, decider |-> None]
<1>1. row \in Grant
  BY DEF Grant
<1>2. /\ grants' = Append(grants, row) /\ Len(grants) < MaxGrants /\ grants \in Seq(Grant)
      /\ MaxGrants \in Nat
  BY AccessAssumption DEF RequestGrant, AccessInv, Possible
<1>3. /\ grants' \in Seq(Grant) /\ Len(grants') = Len(grants) + 1 /\ Len(grants') <= MaxGrants
      /\ DOMAIN grants' = DOMAIN grants \cup {Len(grants) + 1}
      /\ \A i \in DOMAIN grants : grants'[i] = grants[i]
      /\ grants'[Len(grants) + 1] = row
  BY <1>1, <1>2
<1>4. row.status = "pending" /\ row.fields \subseteq row.asked
  OBVIOUS
<1> HIDE DEF row
<1>5. Possible(grants)'
  <2>1. Possible(grants)
    BY DEF AccessInv
  <2> QED BY <1>3, <1>4, <2>1 DEF Possible
<1>6. RowsStay
  BY <1>3 DEF RowsStay, Ended, Expired, Approved, RequestGrant
<1>7. IInv'
  BY MembersKept, CallCounts DEF AccessInv, RequestGrant
<1>8. Decisions' /\ CallsOK'
  BY <1>6, DecisionsKept, CallsKept DEF AccessInv, RequestGrant, membersState
<1> QED BY <1>5, <1>7, <1>8 DEF AccessInv, RequestGrant

---------------------------------------------------------------------------
(* Decisions *)

\* A decision moves on, to where it has what it needs.
LEMMA DecisionMoves ==
  ASSUME AccessInv, NEW d \in Deciders, NEW x \in Decision,
         dec' = [dec EXCEPT ![d] = x], UNCHANGED <<membersState, now, grants, run>>,
         calls' \in 0 .. MaxCalls, DecisionOK(d)'
  PROVE  AccessInv'
<1>1. RowsStay
  BY RowsUnchanged
<1>2. IInv' /\ CallsOK'
  BY <1>1, MembersKept, CallsKept DEF AccessInv, membersState
<1>3. Decisions'
  <2>1. ASSUME NEW e \in Deciders PROVE DecisionOK(e)'
    BY <1>1 DEF AccessInv, Decisions, DecisionOK, RowsStay, NotOwn
  <2> QED BY <2>1 DEF AccessInv, Decisions
<1> QED BY <1>2, <1>3 DEF AccessInv, Possible

LEMMA BeginDecisionInv ==
  ASSUME AccessInv, NEW d \in Deciders, NEW u \in Users, NEW i \in DOMAIN grants,
         NEW action \in {"approve", "deny", "revoke"}, BeginDecision(d, u, i, action)
  PROVE  AccessInv'
<1> DEFINE x == [NoDecision EXCEPT !.pc = IF action = "approve" THEN "select" ELSE "update",
                                   !.action = action, !.by = u, !.id = i]
<1>1. /\ x \in Decision /\ x.id = i /\ x.by = u
      /\ x.action = "approve" => x.pc = "select"
  BY RowIds DEF AccessInv, NoDecision, Decision
<1>2. dec' = [dec EXCEPT ![d] = x] /\ UNCHANGED <<membersState, now, grants, run>>
  BY DEF BeginDecision
<1> HIDE DEF x
<1>3. dec'[d] = x
  BY <1>2 DEF AccessInv, Decisions
<1>4. DecisionOK(d)'
  BY <1>1, <1>2, <1>3 DEF DecisionOK
<1>5. calls' \in 0 .. MaxCalls
  BY CallCounts DEF AccessInv, BeginDecision
<1> QED BY <1>1, <1>2, <1>4, <1>5, DecisionMoves

\* Back to where it waits for a decision.
LEMMA DecisionEnds ==
  ASSUME AccessInv, NEW d \in Deciders, dec' = [dec EXCEPT ![d] = NoDecision],
         UNCHANGED <<membersState, calls, now, grants, run>>
  PROVE  AccessInv'
<1>1. dec'[d] = NoDecision
  BY DEF AccessInv, Decisions
<1>2. DecisionOK(d)'
  BY <1>1 DEF DecisionOK, NoDecision
<1>3. calls' \in 0 .. MaxCalls
  BY DEF AccessInv, IInv, MembersTypeOK
<1> QED BY <1>2, <1>3, IdleTypes, DecisionMoves

LEMMA SelectInv ==
  ASSUME AccessInv, NEW d \in Deciders, NEW F \in SUBSET Fields, NEW expires \in Times \cup {None},
         Select(d, F, expires)
  PROVE  AccessInv'
<1> DEFINE i == dec[d].id
           x == [dec[d] EXCEPT !.pc = "warn", !.fields = F, !.expires = expires]
<1>1. dec[d] \in Decision /\ DecisionOK(d) /\ dec[d].pc = "select" /\ F \subseteq grants[i].fields
  BY DEF AccessInv, Decisions, Select
<1>2. CASE dec' = [dec EXCEPT ![d] = NoDecision]
  BY <1>2, DecisionEnds DEF Select
<1>3. CASE NotOwn(i, dec[d].by) /\ dec' = [dec EXCEPT ![d] = x]
  <2>1. x \in Decision /\ x.id = i /\ x.by = dec[d].by /\ x.fields = F
    <3>1. expires \in Nat \cup {None}
      BY DEF Times
    <3> QED BY <1>1, <3>1 DEF Decision
  <2>2. dec'[d] = x
    BY <1>3 DEF AccessInv, Decisions
  <2>3. i \in DOMAIN grants /\ dec[d].by \in Users /\ grants[i].fields \subseteq grants[i].asked
    BY <1>1 DEF DecisionOK, AccessInv, Possible
  <2>4. UNCHANGED <<membersState, calls, now, grants, run>>
    BY DEF Select
  <2> HIDE DEF x
  <2>5. DecisionOK(d)'
    BY <1>1, <1>3, <2>1, <2>2, <2>3, <2>4 DEF DecisionOK, NotOwn
  <2>6. calls' \in 0 .. MaxCalls
    BY <2>4 DEF AccessInv, IInv, MembersTypeOK
  <2> QED BY <1>3, <2>1, <2>4, <2>5, <2>6, DecisionMoves
<1> QED BY <1>2, <1>3 DEF Select

LEMMA WarnInv == ASSUME AccessInv, NEW d \in Deciders, Warn(d) PROVE AccessInv'
<1> DEFINE lost == Losing(dec[d].id, dec[d].fields)
           x == [dec[d] EXCEPT !.pc = "update", !.losing = lost]
<1>1. dec[d] \in Decision /\ DecisionOK(d) /\ dec[d].pc = "warn" /\ grants \in Seq(Grant)
  BY DEF AccessInv, Decisions, Warn, Possible
<1>2. lost \subseteq Fields
  <2>1. ASSUME NEW j \in DOMAIN grants PROVE grants[j].fields \subseteq Fields
    <3>1. grants[j] \in Grant
      BY <1>1
    <3> QED BY <3>1 DEF Grant
  <2>2. \A u, env : Inherited(u, env) \subseteq DOMAIN grants
    BY DEF Inherited, Latest
  <2> QED BY <2>1, <2>2 DEF Losing
<1>3. /\ x \in Decision /\ x.id = dec[d].id /\ x.by = dec[d].by /\ x.fields = dec[d].fields
      /\ x.action = dec[d].action
  BY <1>1, <1>2 DEF Decision
<1>4. dec' = [dec EXCEPT ![d] = x] /\ UNCHANGED <<membersState, calls, now, grants, run>>
  BY DEF Warn
<1> HIDE DEF x
<1>5. dec'[d] = x
  BY <1>4 DEF AccessInv, Decisions
<1>6. DecisionOK(d)'
  BY <1>1, <1>3, <1>4, <1>5 DEF DecisionOK, NotOwn
<1>7. calls' \in 0 .. MaxCalls
  BY <1>4 DEF AccessInv, IInv, MembersTypeOK
<1> QED BY <1>3, <1>4, <1>6, <1>7, DecisionMoves

\* What an update makes of a row: it is for whom it was, what had ended has ended, an
\* approval holds what was asked and has a second person, and is the only one of its holder.
LEMMA OutcomeRow ==
  ASSUME AccessInv, NEW d \in Deciders, dec[d].pc = "update", Applies(d)
  PROVE  LET i == dec[d].id
             old == grants[i]
             new == Outcome(d)
         IN /\ i \in DOMAIN grants /\ new \in Grant
            /\ new.user = old.user /\ new.principal = old.principal
            /\ new.env = old.env /\ new.asked = old.asked
            /\ new.fields \subseteq new.asked
            /\ new.status = "approved" => /\ Pending(i) /\ ~Taken(i)
                                          /\ new.env = "live" => new.decider # new.user
            /\ old.status \in {"pending", "approved"}
            /\ old.status = "approved" =>
                 new = [old EXCEPT !.status = "revoked", !.decider = dec[d].by]
            /\ dec[d].by \in Users
<1> DEFINE i == dec[d].id
           as(status) == [grants[i] EXCEPT !.status = status, !.decider = dec[d].by]
<1>1. /\ dec[d] \in Decision /\ i \in DOMAIN grants /\ dec[d].by \in Users
      /\ dec[d].action = "approve" => /\ dec[d].fields \subseteq grants[i].asked
                                      /\ NotOwn(i, dec[d].by)
  BY DEF AccessInv, Decisions, DecisionOK
<1>2. grants \in Seq(Grant) /\ grants[i].fields \subseteq grants[i].asked
  BY <1>1 DEF AccessInv, Possible
<1>3. grants[i] \in Grant
  BY <1>1, <1>2
<1>4. ASSUME NEW status \in {"approved", "denied", "revoked"}
      PROVE  /\ as(status) \in Grant /\ as(status).user = grants[i].user
             /\ as(status).principal = grants[i].principal /\ as(status).env = grants[i].env
             /\ as(status).asked = grants[i].asked /\ as(status).fields = grants[i].fields
             /\ as(status).status = status /\ as(status).decider = dec[d].by
  BY <1>1, <1>3 DEF Grant
<1>5. CASE dec[d].action = "approve"
  <2>1. Outcome(d) = [as("approved") EXCEPT !.fields = dec[d].fields, !.expires = Expiry(d)]
    BY <1>5 DEF Outcome
  <2>2. Expiry(d) \in Nat \cup {None}
    BY <1>1, AccessAssumption DEF Expiry, Decision, AccessInv, Times
  <2>3. dec[d].fields \in SUBSET Fields
    BY <1>1 DEF Decision
  <2>4. Pending(i) /\ ~Taken(i)
    BY <1>5 DEF Applies
  <2>5. /\ Outcome(d) \in Grant /\ Outcome(d).user = grants[i].user
        /\ Outcome(d).principal = grants[i].principal /\ Outcome(d).env = grants[i].env
        /\ Outcome(d).asked = grants[i].asked /\ Outcome(d).fields = dec[d].fields
        /\ Outcome(d).status = "approved" /\ Outcome(d).decider = dec[d].by
    <3> HIDE DEF as
    <3> QED BY <1>4, <2>1, <2>2, <2>3 DEF Grant
  <2> QED BY <1>1, <1>5, <2>4, <2>5 DEF NotOwn, Pending
<1>6. CASE dec[d].action = "deny"
  <2>1. Outcome(d) = as("denied") /\ Pending(i)
    BY <1>6 DEF Outcome, Applies
  <2> QED BY <1>1, <1>2, <1>4, <2>1 DEF Pending
<1>7. CASE dec[d].action = "revoke"
  <2>1. Outcome(d) = as("revoked") /\ Approved(i)
    BY <1>7 DEF Outcome, Applies
  <2> QED BY <1>1, <1>2, <1>4, <2>1 DEF Approved
<1> QED BY <1>1, <1>5, <1>6, <1>7 DEF Decision

LEMMA UpdateInv == ASSUME AccessInv, NEW d \in Deciders, Update(d) PROVE AccessInv'
<1> DEFINE i == dec[d].id
           new == Outcome(d)
<1>1. /\ dec[d].pc = "update" /\ dec' = [dec EXCEPT ![d] = NoDecision]
      /\ UNCHANGED <<membersState, calls, now, run>>
  BY DEF Update
<1>2. CASE ~Applies(d)
  BY <1>1, <1>2, DecisionEnds DEF Update
<1>3. CASE Applies(d)
  <2>1. grants' = [grants EXCEPT ![i] = new] /\ grants \in Seq(Grant) /\ Possible(grants)
    BY <1>3 DEF Update, AccessInv, Possible
  <2>2. /\ i \in DOMAIN grants /\ new \in Grant
        /\ new.user = grants[i].user /\ new.principal = grants[i].principal
        /\ new.env = grants[i].env /\ new.asked = grants[i].asked
        /\ new.fields \subseteq new.asked
        /\ new.status = "approved" => /\ ~Taken(i)
                                      /\ new.env = "live" => new.decider # new.user
        /\ grants[i].status \in {"pending", "approved"}
        /\ grants[i].status = "approved" => new.status = "revoked"
    <3>1. /\ i \in DOMAIN grants /\ new \in Grant
          /\ new.user = grants[i].user /\ new.principal = grants[i].principal
          /\ new.env = grants[i].env /\ new.asked = grants[i].asked
          /\ new.fields \subseteq new.asked
          /\ new.status = "approved" => /\ ~Taken(i)
                                        /\ new.env = "live" => new.decider # new.user
          /\ grants[i].status \in {"pending", "approved"}
          /\ grants[i].status = "approved" =>
               new = [grants[i] EXCEPT !.status = "revoked", !.decider = dec[d].by]
      BY <1>1, <1>3, OutcomeRow
    <3>2. grants[i] \in Grant
      BY <2>1, <3>1
    <3>3. [grants[i] EXCEPT !.status = "revoked", !.decider = dec[d].by].status = "revoked"
      BY <3>2 DEF Grant
    <3> HIDE DEF new
    <3> QED BY <3>1, <3>3
  <2> HIDE DEF new
  <2>3. /\ grants' \in Seq(Grant) /\ Len(grants') = Len(grants)
        /\ DOMAIN grants' = DOMAIN grants /\ grants'[i] = new
        /\ \A j \in DOMAIN grants \ {i} : grants'[j] = grants[j]
    BY <2>1, <2>2
  <2>4. Possible(grants)'
    BY <2>1, <2>2, <2>3 DEF Possible, Taken, Approved, SameHolder
  <2>5. RowsStay
    BY <1>1, <2>2, <2>3 DEF RowsStay, Ended, Expired, Approved
  <2>6. IInv' /\ CallsOK'
    <3>1. calls' \in 0 .. MaxCalls
      BY <1>1 DEF AccessInv, IInv, MembersTypeOK
    <3> QED BY <1>1, <2>5, <3>1, MembersKept, CallsKept DEF AccessInv, membersState
  <2>7. Decisions'
    <3>1. ASSUME NEW e \in Deciders \ {d} PROVE DecisionOK(e)'
      BY <1>1, <2>5 DEF AccessInv, Decisions, DecisionOK, RowsStay, NotOwn
    <3>2. dec'[d] = NoDecision
      BY <1>1 DEF AccessInv, Decisions
    <3>3. DecisionOK(d)'
      BY <3>2 DEF DecisionOK, NoDecision
    <3> QED BY <1>1, <3>1, <3>3, IdleTypes DEF AccessInv, Decisions
  <2> QED BY <1>1, <2>4, <2>6, <2>7 DEF AccessInv
<1> QED BY <1>2, <1>3

---------------------------------------------------------------------------
(* Calls *)

\* A call moves on.
LEMMA CallMoves ==
  ASSUME AccessInv, NEW c \in Callers, NEW x \in CallState,
         run' = [run EXCEPT ![c] = x], UNCHANGED <<membersState, now, grants, dec>>,
         calls' \in 0 .. MaxCalls, CallOK(c)'
  PROVE  AccessInv'
<1>1. RowsStay
  BY RowsUnchanged
<1>2. IInv' /\ Decisions'
  BY <1>1, MembersKept, DecisionsKept DEF AccessInv, membersState
<1>3. CallsOK'
  <2>1. ASSUME NEW e \in Callers \ {c} PROVE CallOK(e)'
    <3>1. CallOK(e) /\ run'[e] = run[e] /\ UNCHANGED groups
      BY DEF AccessInv, CallsOK, membersState
    <3> QED BY <1>1, <3>1, CallKept
  <2>2. run' \in [Callers -> CallState]
    BY DEF AccessInv, CallsOK
  <2> QED BY <2>1, <2>2 DEF CallsOK
<1> QED BY <1>2, <1>3 DEF AccessInv, Possible

LEMMA BeginCallInv ==
  ASSUME AccessInv, NEW c \in Callers, NEW u \in Users, NEW env \in Envs, BeginCall(c, u, env)
  PROVE  AccessInv'
<1> DEFINE over == {i \in DOMAIN grants : grants[i].status = "revoked" \/ Expired(i)}
           x == [NoCall EXCEPT !.pc = "principals", !.user = u, !.env = env,
                               !.ended = over, !.lost = Groups \ Held(u)]
<1>1. /\ x \in CallState /\ x.pc = "principals" /\ x.user = u /\ x.ended = over
      /\ x.lost = Groups \ Held(u)
  BY RowIds DEF AccessInv, NoCall, CallState
<1>2. run' = [run EXCEPT ![c] = x] /\ UNCHANGED <<membersState, now, grants, dec>>
  BY DEF BeginCall
<1>3. \A i \in over : i \in DOMAIN grants /\ Ended(i)
  BY DEF Ended
<1> HIDE DEF x, over
<1>4. run'[c] = x
  BY <1>2 DEF AccessInv, CallsOK
<1>5. CallOK(c)'
  <2>1. Held(u)' = Held(u)
    BY <1>2 DEF Held, membersState
  <2>2. \A i \in over : i \in DOMAIN grants' /\ Ended(i)'
    BY <1>2, <1>3 DEF Ended, Expired, Approved
  <2> QED BY <1>1, <1>4, <2>1, <2>2 DEF CallOK
<1>6. calls' \in 0 .. MaxCalls
  BY CallCounts DEF AccessInv, BeginCall
<1> QED BY <1>1, <1>2, <1>5, <1>6, CallMoves

LEMMA LoadPrincipalsInv ==
  ASSUME AccessInv, NEW c \in Callers, LoadPrincipals(c)
  PROVE  AccessInv'
<1> DEFINE x == [run[c] EXCEPT !.pc = "grant", !.as = Principals(run[c].user)]
<1>1. run[c] \in CallState /\ CallOK(c) /\ run[c].pc = "principals"
  BY DEF AccessInv, CallsOK, LoadPrincipals
<1>2. /\ x \in CallState /\ x.pc = "grant" /\ x.as = Principals(run[c].user)
      /\ x.user = run[c].user /\ x.lost = run[c].lost /\ x.ended = run[c].ended
  <2>1. Principals(run[c].user) \subseteq Users \cup Groups
    BY <1>1 DEF Principals, Held, CallOK
  <2> QED BY <1>1, <2>1 DEF CallState
<1>3. run[c].lost \cap Principals(run[c].user) = {}
  BY <1>1, MembersAssumption DEF CallOK, Principals, CallState
<1>4. /\ run' = [run EXCEPT ![c] = x] /\ calls' \in 0 .. MaxCalls
      /\ UNCHANGED <<membersState, now, grants, dec>>
  BY DEF LoadPrincipals, AccessInv, IInv, MembersTypeOK
<1> HIDE DEF x
<1>5. run'[c] = x
  BY <1>4 DEF AccessInv, CallsOK
<1>6. CallOK(c)'
  <2>1. Held(run[c].user) = {g \in Groups : \E src \in Sources : <<run[c].user, g, src>> \in groups'}
    BY <1>4 DEF Held, membersState
  <2>2. \A i \in x.ended : i \in DOMAIN grants' /\ Ended(i)'
    BY <1>1, <1>2, <1>4 DEF CallOK, Ended, Expired, Approved
  <2> QED BY <1>1, <1>2, <1>3, <1>5, <2>1, <2>2 DEF CallOK, Held
<1> QED BY <1>2, <1>4, <1>6, CallMoves

LEMMA CallEnds ==
  ASSUME AccessInv, NEW c \in Callers, run' = [run EXCEPT ![c] = NoCall],
         UNCHANGED <<membersState, calls, now, grants, dec>>
  PROVE  AccessInv'
<1>1. run'[c] = NoCall
  BY DEF AccessInv, CallsOK
<1>2. CallOK(c)'
  BY <1>1 DEF CallOK, NoCall
<1>3. calls' \in 0 .. MaxCalls
  BY DEF AccessInv, IInv, MembersTypeOK
<1> QED BY <1>2, <1>3, IdleTypes, CallMoves

LEMMA LoadGrantInv == ASSUME AccessInv, NEW c \in Callers, LoadGrant(c) PROVE AccessInv'
<1> DEFINE found == ActiveGrant(run[c].as, run[c].env)
<1>1. run[c] \in CallState /\ CallOK(c) /\ run[c].pc = "grant"
  BY DEF AccessInv, CallsOK, LoadGrant
<1>2. CASE run' = [run EXCEPT ![c] = NoCall]
  BY <1>2, CallEnds DEF LoadGrant
<1>3. ASSUME NEW i \in found, run' = [run EXCEPT ![c].pc = "answer", ![c].id = i]
      PROVE  AccessInv'
  <2> DEFINE x == [run[c] EXCEPT !.pc = "answer", !.id = i]
  <2>1. i \in DOMAIN grants /\ Live(i) /\ grants[i].principal \in run[c].as
    BY <1>3 DEF ActiveGrant, Specific, Latest
  <2>2. i \in Ids
    BY <2>1, RowIds DEF AccessInv
  <2>3. /\ x \in CallState /\ x.pc = "answer" /\ x.id = i
        /\ x.user = run[c].user /\ x.lost = run[c].lost /\ x.ended = run[c].ended
    BY <1>1, <2>2 DEF CallState
  <2>4. /\ run' = [run EXCEPT ![c] = x] /\ calls' \in 0 .. MaxCalls
        /\ UNCHANGED <<membersState, now, grants, dec>>
    BY <1>3 DEF LoadGrant, AccessInv, IInv, MembersTypeOK
  <2>5. ~Ended(i)
    <3>1. grants[i] \in Grant /\ now \in Nat
      BY <2>1 DEF AccessInv, Possible, Times
    <3> QED BY <2>1, <3>1 DEF Live, Ended, Expired, Approved, Grant
  <2> HIDE DEF x, found
  <2>6. run'[c] = x
    BY <2>4 DEF AccessInv, CallsOK
  <2>7. CallOK(c)'
    <3>1. Held(run[c].user) = {g \in Groups : \E src \in Sources : <<run[c].user, g, src>> \in groups'}
      BY <2>4 DEF Held, membersState
    <3>2. \A j \in x.ended : j \in DOMAIN grants' /\ Ended(j)'
      BY <1>1, <2>3, <2>4 DEF CallOK, Ended, Expired, Approved
    <3>3. i \notin x.ended /\ grants'[i].principal \notin x.lost /\ i \in DOMAIN grants'
      BY <1>1, <2>1, <2>3, <2>4, <2>5 DEF CallOK
    <3> QED BY <1>1, <2>3, <2>6, <3>1, <3>2, <3>3 DEF CallOK, Held
  <2> QED BY <2>3, <2>4, <2>7, CallMoves
<1> QED BY <1>2, <1>3 DEF LoadGrant

---------------------------------------------------------------------------

LEMMA AccessStep == AccessInv /\ [Next]_vars => AccessInv'
<1> SUFFICES ASSUME AccessInv, [Next]_vars PROVE AccessInv'
  OBVIOUS
<1>1. CASE UNCHANGED vars
  <2>1. IInv' /\ RowsStay
    BY <1>1, StutterInv, RowsUnchanged DEF vars, accessVars, AccessInv
  <2> QED BY <1>1, <2>1, DecisionsKept, CallsKept
          DEF vars, accessVars, membersVars, membersState, AccessInv, Possible
<1>2. ASSUME NEW d \in Deciders, Warn(d) \/ Update(d) PROVE AccessInv'
  BY <1>2, WarnInv, UpdateInv
<1>3. ASSUME NEW d \in Deciders, NEW F \in SUBSET Fields, NEW expires \in Times \cup {None},
             Select(d, F, expires)
      PROVE  AccessInv'
  BY <1>3, SelectInv
<1>4. ASSUME NEW d \in Deciders, NEW u \in Users, NEW i \in DOMAIN grants,
             NEW action \in {"approve", "deny", "revoke"}, BeginDecision(d, u, i, action)
      PROVE  AccessInv'
  BY <1>4, BeginDecisionInv
<1>5. ASSUME NEW c \in Callers, LoadPrincipals(c) \/ LoadGrant(c) \/ Answer(c) PROVE AccessInv'
  BY <1>5, LoadPrincipalsInv, LoadGrantInv, CallEnds DEF Answer
<1>6. ASSUME NEW c \in Callers, NEW u \in Users, NEW env \in Envs, BeginCall(c, u, env)
      PROVE  AccessInv'
  BY <1>6, BeginCallInv
<1>7. ASSUME NEW u \in Users, NEW p \in Users \cup Groups, NEW env \in Envs,
             NEW F \in SUBSET Fields, RequestGrant(u, p, env, F)
      PROVE  AccessInv'
  BY <1>7, RequestInv
<1>8. CASE Membership
  BY <1>8, MembershipInv
<1>9. CASE Tick
  BY <1>9, TickInv
<1>10. CASE Done
  BY <1>1, <1>10 DEF Done
<1> QED BY <1>1, <1>2, <1>3, <1>4, <1>5, <1>6, <1>7, <1>8, <1>9, <1>10 DEF Next

LEMMA AccessInductive == Spec => []AccessInv
BY AccessInit, AccessStep, PTL DEF Spec

\* A decision and a call name a grant that is there, and a principal holds one grant that
\* has been approved and not revoked, whatever is decided at once.
THEOREM AccessTypeCorrect == Spec => []TypeOK
<1>1. AccessInv => TypeOK
  <2> SUFFICES ASSUME AccessInv PROVE TypeOK
    OBVIOUS
  <2>1. MembersTypeOK /\ now \in Times
    BY DEF AccessInv, IInv
  <2>2. /\ dec \in [Deciders -> Decision] /\ run \in [Callers -> CallState]
        /\ \A d \in Deciders : dec[d].pc # "idle" => dec[d].id \in DOMAIN grants
        /\ \A c \in Callers : run[c].pc = "answer" => run[c].id \in DOMAIN grants
    BY DEF AccessInv, Decisions, DecisionOK, CallsOK, CallOK
  <2>3. /\ grants \in Seq(Grant) /\ Len(grants) <= MaxGrants
        /\ \A i, j \in DOMAIN grants : Approved(i) /\ Approved(j) /\ SameHolder(i, j) => i = j
    BY DEF AccessInv, Possible, Approved, SameHolder
  <2> QED BY <2>1, <2>2, <2>3 DEF TypeOK
<1> QED BY <1>1, AccessInductive, PTL

\* Revocation, expiry and the end of a membership hold for every call that begins later,
\* although it reads its groups in one statement and its grant in another.
THEOREM EndedIsEndedAlways == Spec => []EndedIsEnded
<1>1. AccessInv => EndedIsEnded
  BY DEF AccessInv, CallsOK, CallOK, EndedIsEnded
<1> QED BY <1>1, AccessInductive, PTL

\* However decisions overlap, nobody has approved a grant on live data that they asked for,
\* nor granted a field that was not asked for.
THEOREM SecondPersonAlways == Spec => []SecondPerson
<1>1. AccessInv => SecondPerson
  BY DEF AccessInv, Possible, Approved, SecondPerson
<1> QED BY <1>1, AccessInductive, PTL

\* Of two decisions on one grant the first stands; an approval ends by being revoked.
THEOREM DecisionsStandAlways == Spec => DecisionsStand
<1> DEFINE Stands(i) ==
      grants[i].status # "pending" =>
        \/ grants'[i] = grants[i]
        \/ /\ Approved(i)
           /\ \E u \in Users : grants'[i] = [grants[i] EXCEPT !.status = "revoked", !.decider = u]
<1>1. ASSUME AccessInv, Next, NEW i \in DOMAIN grants PROVE Stands(i)
  <2>1. ASSUME NEW d \in Deciders, Update(d) PROVE Stands(i)
    <3>1. CASE ~Applies(d) \/ dec[d].id # i
      BY <2>1, <3>1 DEF Update
    <3>2. CASE Applies(d) /\ dec[d].id = i
      <4>1. grants' = [grants EXCEPT ![i] = Outcome(d)] /\ dec[d].pc = "update"
        BY <2>1, <3>2 DEF Update
      <4>2. grants'[i] = Outcome(d)
        BY <1>1, <4>1 DEF AccessInv, Possible
      <4>3. /\ dec[d].by \in Users /\ grants[i].status \in {"pending", "approved"}
            /\ grants[i].status = "approved" =>
                 Outcome(d) = [grants[i] EXCEPT !.status = "revoked", !.decider = dec[d].by]
        BY <1>1, <3>2, <4>1, OutcomeRow
      <4> QED BY <4>2, <4>3 DEF Approved
    <3> QED BY <3>1, <3>2
  <2>2. ASSUME NEW u \in Users, NEW p \in Users \cup Groups, NEW env \in Envs,
               NEW F \in SUBSET Fields, RequestGrant(u, p, env, F)
        PROVE  Stands(i)
    <3>1. grants'[i] = grants[i]
      BY <1>1, <2>2 DEF RequestGrant, AccessInv, Possible
    <3> QED BY <3>1
  <2>3. CASE UNCHANGED grants
    BY <2>3
  <2> QED
    <3>1. Membership \/ Tick \/ Done => UNCHANGED grants
      BY DEF Membership, Tick, Done, vars, accessVars
    <3>2. \A d \in Deciders : Warn(d) => UNCHANGED grants
      BY DEF Warn
    <3>3. \A d \in Deciders, F \in SUBSET Fields, e \in Times \cup {None} :
            Select(d, F, e) => UNCHANGED grants
      BY DEF Select
    <3>4. \A d \in Deciders, u \in Users, j \in DOMAIN grants, a \in {"approve", "deny", "revoke"} :
            BeginDecision(d, u, j, a) => UNCHANGED grants
      BY DEF BeginDecision
    <3>5. \A c \in Callers : LoadPrincipals(c) \/ LoadGrant(c) \/ Answer(c) => UNCHANGED grants
      BY DEF LoadPrincipals, LoadGrant, Answer
    <3>6. \A c \in Callers, u \in Users, e \in Envs : BeginCall(c, u, e) => UNCHANGED grants
      BY DEF BeginCall
    <3> HIDE DEF Stands
    <3> QED BY <1>1, <2>1, <2>2, <2>3, <3>1, <3>2, <3>3, <3>4, <3>5, <3>6 DEF Next
<1>2. AccessInv /\ [Next]_vars => [\A i \in DOMAIN grants : Stands(i)]_vars
  BY <1>1
<1> QED BY <1>2, AccessInductive, PTL DEF Spec, DecisionsStand

---------------------------------------------------------------------------
(* What an approval takes away *)

\* An approval shadows at most the grant its holder has through a group: for a grant somebody
\* asked for itself, the warning is the whole of what is lost.
THEOREM LossIsWarnedAlways == Spec => LossIsWarned
<1>1. ASSUME AccessInv, NEW u \in Users PROVE ToldOf(u, u)
  <2> SUFFICES ASSUME NEW d \in Deciders, NEW i \in Ids, NEW env \in Envs,
                      Approving(d), i = dec[d].id, dec[d].losing = Losing(i, dec[d].fields),
                      grants[i].principal = u, grants[i].user = u, grants[i].env = env
               PROVE  Effective(u, env) \ Effective(u, env)' \subseteq dec[d].losing
    BY DEF ToldOf
  <2> DEFINE live == {j \in DOMAIN grants : /\ grants[j].principal \in Principals(u)
                                            /\ grants[j].env = env /\ Live(j)}
             had == UNION {grants[j].fields : j \in Latest(live)}
  <2>1. /\ i \in DOMAIN grants /\ grants[i].status = "pending" /\ ~Taken(i)
        /\ grants' = [grants EXCEPT ![i] = Outcome(d)] /\ UNCHANGED <<now, groups>>
        /\ Outcome(d).principal = u /\ Outcome(d).env = env /\ Outcome(d).fields = dec[d].fields
    <3>1. dec[d].pc = "update" /\ Applies(d) /\ dec[d].action = "approve"
      BY DEF Approving, Update
    <3>2. /\ i \in DOMAIN grants
          /\ Outcome(d).principal = u /\ Outcome(d).env = env
      BY <1>1, <3>1, OutcomeRow
    <3>3. grants[i] \in Grant
      BY <1>1, <3>2 DEF AccessInv, Possible
    <3>4. Outcome(d).fields = dec[d].fields
      BY <3>1, <3>3 DEF Outcome, Grant
    <3>5. Pending(i) /\ ~Taken(i)
      BY <3>1 DEF Applies
    <3> QED BY <3>1, <3>2, <3>4, <3>5 DEF Approving, Update, Pending, membersState
  <2>2. /\ DOMAIN grants' = DOMAIN grants /\ grants'[i] = Outcome(d)
        /\ \A j \in DOMAIN grants \ {i} : grants'[j] = grants[j] /\ (Live(j)' <=> Live(j))
    BY <1>1, <2>1 DEF AccessInv, Possible, Live, Approved
  <2>3. Principals(u)' = Principals(u) /\ u \in Principals(u) /\ Principals(u) \cap Users = {u}
    BY <2>1, MembersAssumption DEF Principals, Held
  <2>4. i \notin live /\ ~\E j \in live : grants[j].principal \in Users
    BY <2>1, <2>3 DEF Live, Approved, Taken, SameHolder
  <2>5. Effective(u, env) = had
    BY <2>4 DEF Effective, ActiveGrant, Specific
  <2>6. CASE ~Live(i)'
    <3>1. {j \in DOMAIN grants : /\ grants[j].principal \in Principals(u)
                                 /\ grants[j].env = env /\ Live(j)}' = live
      BY <2>2, <2>3, <2>4, <2>6
    <3>2. Effective(u, env)' = UNION {grants'[j].fields : j \in Latest(live)}
      <4>1. ~\E j \in live : grants'[j].principal \in Users
        BY <2>2, <2>4
      <4> HIDE DEF live
      <4> QED BY <3>1, <4>1 DEF Effective, ActiveGrant, Specific, Latest
    <3>3. \A j \in Latest(live) : grants'[j].fields = grants[j].fields
      BY <2>2, <2>4 DEF Latest
    <3>4. ASSUME NEW f \in Effective(u, env) PROVE f \in Effective(u, env)'
      <4>1. PICK j \in Latest(live) : f \in grants[j].fields
        BY <2>5
      <4>2. f \in grants'[j].fields
        BY <3>3, <4>1
      <4> HIDE DEF live
      <4> QED BY <3>2, <4>1, <4>2
    <3> QED BY <3>4
  <2>7. CASE Live(i)'
    <3> DEFINE then == {j \in DOMAIN grants' : /\ grants'[j].principal \in Principals(u)
                                               /\ grants'[j].env = env /\ Live(j)'}
    <3>1. {j \in then : grants'[j].principal \in Users} = {i}
      BY <2>1, <2>2, <2>3, <2>4, <2>7
    <3>2. ActiveGrant(Principals(u), env)' = Latest({i})
      <4>1. {j \in DOMAIN grants : /\ grants[j].principal \in Principals(u)
                                   /\ grants[j].env = env /\ Live(j)}' = then
        BY <2>3
      <4> HIDE DEF then
      <4> QED BY <3>1, <4>1 DEF ActiveGrant, Specific, Latest
    <3>3. i \in Latest({i})
      BY DEF Latest, Ids
    <3>4. dec[d].fields \subseteq Effective(u, env)'
      BY <2>1, <2>2, <3>2, <3>3 DEF Effective
    <3>5. live = {j \in DOMAIN grants : grants[j].principal \in Held(u) /\ grants[j].env = env /\ Live(j)}
      BY <2>3, <2>4 DEF Principals
    <3>6. dec[d].losing = had \ dec[d].fields
      <4>1. Inherited(u, env) = Latest(live)
        BY <3>5 DEF Inherited
      <4>2. dec[d].losing = (UNION {grants[j].fields : j \in Inherited(u, env)}) \ dec[d].fields
        BY DEF Losing
      <4> HIDE DEF live
      <4> QED BY <4>1, <4>2
    <3> HIDE DEF had
    <3> QED BY <2>5, <3>4, <3>6
  <2> QED BY <2>6, <2>7
<1>2. AccessInv /\ [Next]_vars => [\A u \in Users : ToldOf(u, u)]_vars
  BY <1>1
<1> QED BY <1>2, AccessInductive, PTL DEF Spec, LossIsWarned

---------------------------------------------------------------------------
(* What a grant reaches: the inductive invariant of Reach *)

AskRow ==
  [asked : SUBSET Columns, fields : SUBSET Columns, raw : SUBSET Columns, verbs : SUBSET GrantVerbs,
   status : {"pending", "approved", "denied", "revoked"}, by : Approvers \cup {None},
   expires : Nat \cup {None}, offer : SUBSET Columns, used : BOOLEAN, served : BOOLEAN]

\* What was asked for bounds a row until it is decided, and the ruling of a second person after.
RowFits(w) ==
  /\ w \in AskRow
  /\ w.status \in {"pending", "approved"} => w.fields \subseteq w.asked
  /\ w.status = "approved" => /\ w.raw \subseteq w.fields \cap w.offer
                              /\ w.by \in Approvers \ {Requester}
                              /\ "approve" \in w.verbs => "read" \in w.verbs
  /\ w.served => w.used

Ruling ==
  [id : Nat, fields : SUBSET Columns, raw : SUBSET Columns, verbs : SUBSET GrantVerbs,
   until : Nat \cup {None}, days : Nat \cup {None}, offer : SUBSET Columns]

\* A ruling that is not written yet is still about a row, and within what that row asked for.
RulingFits(a, rows) ==
  ruling[a] # None =>
    /\ a # Requester /\ ruling[a] \in Ruling /\ ruling[a].id \in DOMAIN rows
    /\ ruling[a].fields \subseteq rows[ruling[a].id].asked
    /\ ruling[a].raw \subseteq ruling[a].fields \cap ruling[a].offer
    /\ "approve" \in ruling[a].verbs => "read" \in ruling[a].verbs

SheetFits ==
  /\ sheet \in [open : BOOLEAN, asking : BOOLEAN, picked : BOOLEAN, fields : SUBSET Columns,
                list : [there : BOOLEAN, fields : SUBSET Columns, taken : BOOLEAN] \cup {None},
                sent : (SUBSET Columns) \cup {None}]

RowsFit(rows) ==
  /\ rows \in Seq(AskRow) /\ Len(rows) <= MaxAsks
  /\ \A i \in DOMAIN rows : RowFits(rows[i])
  /\ \A i, j \in DOMAIN rows : rows[i].status = "approved" /\ rows[j].status = "approved" => i = j

ReachInv ==
  /\ layout \in Layouts /\ rewrites \in 0 .. MaxRewrites /\ day \in 0 .. MaxDay
  /\ RowsFit(asks) /\ SheetFits
  /\ ruling = [a \in Approvers |-> ruling[a]] /\ \A a \in Approvers : RulingFits(a, asks)

LEMMA ReachStart == ReachInit => ReachInv
  <1> SUFFICES ASSUME ReachInit PROVE ReachInv
    OBVIOUS
  <1>1. RowsFit(asks)
    <2>1. asks \in Seq(AskRow) /\ Len(asks) = 0 /\ DOMAIN asks = {}
      BY DEF ReachInit
    <2> QED BY <2>1, ReachAssumption DEF RowsFit
  <1>2. SheetFits
    BY DEF ReachInit, EmptySheet, SheetFits
  <1> QED BY <1>1, <1>2, ReachAssumption DEF ReachInit, ReachInv, RulingFits

\* Rows change in place or one is added; rulings stay about theirs as long as what was asked for does.
LEMMA SameRows ==
  ASSUME NEW rows \in Seq(AskRow), NEW new, new = [i \in DOMAIN rows |-> new[i]],
         \A i \in DOMAIN rows : new[i] \in AskRow
  PROVE  new \in Seq(AskRow) /\ Len(new) = Len(rows) /\ DOMAIN new = DOMAIN rows
  <1>1. DOMAIN rows = 1 .. Len(rows) /\ Len(rows) \in Nat
    BY LenProperties
  <1>2. new \in [1 .. Len(rows) -> AskRow]
    BY <1>1
  <1>3. new \in Seq(AskRow)
    BY <1>1, <1>2
  <1> QED BY <1>1, <1>2, <1>3, LenProperties

LEMMA RulingsStay ==
  ASSUME ReachInv, UNCHANGED ruling, DOMAIN asks \subseteq DOMAIN asks',
         \A i \in DOMAIN asks : asks'[i].asked = asks[i].asked
  PROVE  ruling' = [a \in Approvers |-> ruling'[a]] /\ \A a \in Approvers : RulingFits(a, asks)'
  BY DEF ReachInv, RulingFits

LEMMA OfferTyped == ReachInv => Grantable \subseteq Columns /\ Unmaskable \subseteq Columns
  BY ReachAssumption DEF ReachInv, Grantable, Unmaskable

LEMMA AskedRow ==
  ASSUME ReachInv, NEW F \in SUBSET Columns, RequestOK(F), Len(asks) < MaxAsks,
         asks' = Append(asks, NewAsk(F)), UNCHANGED ruling
  PROVE  RowsFit(asks)' /\ ruling' = [a \in Approvers |-> ruling'[a]] /\ \A a \in Approvers : RulingFits(a, asks)'
  <1> DEFINE w == NewAsk(F)
  <1>1. w \in AskRow /\ RowFits(w) /\ w.status = "pending"
    <2>1. Requested(F) \subseteq Columns
      BY OfferTyped DEF RequestOK
    <2> QED BY <2>1 DEF NewAsk, RowFits, AskRow, GrantVerbs
  <1>2. asks \in Seq(AskRow) /\ Len(asks) \in Nat /\ DOMAIN asks = 1 .. Len(asks)
    BY LenProperties DEF ReachInv, RowsFit
  <1> HIDE DEF w
  <1>3. /\ asks' \in Seq(AskRow) /\ Len(asks') = Len(asks) + 1 /\ DOMAIN asks' = 1 .. Len(asks) + 1
        /\ \A i \in DOMAIN asks : asks'[i] = asks[i]
        /\ asks'[Len(asks) + 1] = w
    BY <1>1, <1>2 DEF w
  <1>4. \A i \in DOMAIN asks' : i \in DOMAIN asks \/ i = Len(asks) + 1
    BY <1>2, <1>3
  <1>5. RowsFit(asks)'
    <2>1. Len(asks') <= MaxAsks
      BY <1>2, <1>3, ReachAssumption
    <2>2. \A i \in DOMAIN asks' : RowFits(asks'[i])
      BY <1>1, <1>3, <1>4 DEF ReachInv, RowsFit
    <2>3. \A i, j \in DOMAIN asks' : asks'[i].status = "approved" /\ asks'[j].status = "approved" => i = j
      BY <1>1, <1>3, <1>4 DEF ReachInv, RowsFit
    <2> QED BY <1>3, <2>1, <2>2, <2>3 DEF RowsFit, RowFits
  <1>6. DOMAIN asks \subseteq DOMAIN asks'
    BY <1>2, <1>3
  <1> QED BY <1>3, <1>5, <1>6, RulingsStay

\* One row replaced by another that asks for the same: no more approved ones than before.
LEMMA OneRow ==
  ASSUME ReachInv, NEW k \in DOMAIN asks, NEW w, RowFits(w), w.asked = asks[k].asked,
         asks' = [asks EXCEPT ![k] = w],
         w.status = "approved" => asks[k].status = "approved" \/ \A j \in DOMAIN asks : asks[j].status # "approved"
  PROVE  RowsFit(asks)' /\ DOMAIN asks' = DOMAIN asks /\ \A i \in DOMAIN asks : asks'[i].asked = asks[i].asked
  <1>1. w \in AskRow /\ asks \in Seq(AskRow) /\ \A i \in DOMAIN asks : asks[i] \in AskRow
    BY DEF RowFits, ReachInv, RowsFit
  <1>2. asks' = [i \in DOMAIN asks |-> asks'[i]] /\ asks'[k] = w /\ \A i \in DOMAIN asks : i # k => asks'[i] = asks[i]
    OBVIOUS
  <1>3. asks' \in Seq(AskRow) /\ Len(asks') = Len(asks) /\ DOMAIN asks' = DOMAIN asks
    <2>1. \A i \in DOMAIN asks : asks'[i] \in AskRow
      BY <1>1, <1>2
    <2> QED BY <1>1, <1>2, <2>1, SameRows
  <1>4. \A i \in DOMAIN asks' : RowFits(asks'[i])
    BY <1>2, <1>3 DEF ReachInv, RowsFit
  <1>5. \A i, j \in DOMAIN asks' : asks'[i].status = "approved" /\ asks'[j].status = "approved" => i = j
    BY <1>2, <1>3 DEF ReachInv, RowsFit
  <1>6. Len(asks') <= MaxAsks
    BY <1>3 DEF ReachInv, RowsFit
  <1> QED BY <1>2, <1>3, <1>4, <1>5, <1>6 DEF RowsFit, RowFits

LEMMA ReachFile == ReachInv /\ FileStep => ReachInv'
  <1> SUFFICES ASSUME ReachInv, FileStep PROVE ReachInv'
    OBVIOUS
  <1>1. layout' \in Layouts /\ rewrites' \in 0 .. MaxRewrites /\ day' \in 0 .. MaxDay
    BY ReachAssumption DEF FileStep, Rewrite, Midnight, ReachInv
  <1>2. UNCHANGED <<asks, sheet, ruling>>
    BY DEF FileStep, Rewrite, Midnight
  <1> QED BY <1>1, <1>2 DEF ReachInv, RowsFit, RowFits, SheetFits, RulingFits

LEMMA SheetMoves ==
  ASSUME ReachInv, SheetFits', UNCHANGED <<layout, rewrites, day, asks, ruling>>
  PROVE  ReachInv'
  BY DEF ReachInv, RowsFit, RowFits, RulingFits

LEMMA ListTyped == ReachInv => MyCollection \in [there : BOOLEAN, fields : SUBSET Columns, taken : BOOLEAN]
  BY OfferTyped DEF MyCollection

LEMMA ReachSheet == ReachInv /\ SheetStep => ReachInv'
  <1> SUFFICES ASSUME ReachInv, SheetStep PROVE ReachInv'
    OBVIOUS
  <1>1. CASE OpenSheet \/ CancelSheet
    BY <1>1, SheetMoves DEF OpenSheet, CancelSheet, ReachInv, SheetFits
  <1>2. CASE ListArrives
    BY <1>2, SheetMoves, ListTyped DEF ListArrives, ReachInv, SheetFits
  <1>3. CASE PickCollection
    BY <1>3, SheetMoves DEF PickCollection, ReachInv, SheetFits
  <1>4. CASE Submit
    BY <1>4, SheetMoves DEF Submit, ReachInv, SheetFits
  <1>5. ASSUME NEW f \in Columns, TickColumn(f) PROVE ReachInv'
    BY <1>5, SheetMoves DEF TickColumn, ReachInv, SheetFits
  <1>6. CASE PostRequest
    <2>1. sheet.sent \in SUBSET Columns
      BY <1>6 DEF PostRequest, ReachInv, SheetFits
    <2>2. CASE RequestOK(sheet.sent)
      <3>1. SheetFits'
        BY <1>6, <2>2 DEF PostRequest, EmptySheet, ReachInv, SheetFits
      <3>2. RowsFit(asks)' /\ ruling' = [a \in Approvers |-> ruling'[a]] /\ \A a \in Approvers : RulingFits(a, asks)'
        BY <1>6, <2>1, <2>2, AskedRow DEF PostRequest
      <3> QED BY <1>6, <3>1, <3>2 DEF PostRequest, ReachInv
    <2>3. CASE ~RequestOK(sheet.sent)
      BY <1>6, <2>3, SheetMoves DEF PostRequest, ReachInv, SheetFits
    <2> QED BY <2>2, <2>3
  <1> QED BY <1>1, <1>2, <1>3, <1>4, <1>5, <1>6 DEF SheetStep

LEMMA ReachBegin ==
  ASSUME ReachInv, NEW a \in Approvers, NEW i \in DOMAIN asks, NEW F \in SUBSET Columns, NEW V \in VerbSets,
         NEW until \in 1 .. MaxDay \cup {None}, NEW U \in SUBSET F, BeginApproval(a, i, F, U, V, until)
  PROVE  ReachInv'
  <1> DEFINE r == [id |-> i, fields |-> F, raw |-> U, verbs |-> V, until |-> until, days |-> layout.days,
                   offer |-> Unmaskable]
  <1>1. ruling' = [ruling EXCEPT ![a] = r] /\ UNCHANGED <<layout, rewrites, day, asks, sheet>>
    BY DEF BeginApproval
  <1>2. r \in Ruling
    <2>1. i \in Nat
      BY LenProperties DEF ReachInv, RowsFit
    <2>2. until \in Nat \cup {None}
      BY ReachAssumption
    <2>3. layout.days \in Nat \cup {None}
      BY ReachAssumption DEF ReachInv, BeginApproval, BuildOK
    <2>4. V \in SUBSET GrantVerbs /\ Unmaskable \in SUBSET Columns
      BY ReachAssumption, OfferTyped
    <2> QED BY <2>1, <2>2, <2>3, <2>4 DEF Ruling
  <1>3. /\ a # Requester /\ r.id \in DOMAIN asks /\ r.raw \subseteq r.fields \cap r.offer
        /\ "approve" \in r.verbs => "read" \in r.verbs
    BY DEF BeginApproval, BuildOK, VerbsOK
  <1>4. r.fields \subseteq asks[r.id].asked
    BY DEF BeginApproval, BuildOK, ReachInv, RowsFit, RowFits
  <1> HIDE DEF r
  <1>5. ruling' = [b \in Approvers |-> ruling'[b]] /\ ruling'[a] = r
        /\ \A b \in Approvers \ {a} : ruling'[b] = ruling[b]
    BY <1>1 DEF ReachInv
  <1>6. \A b \in Approvers : RulingFits(b, asks)'
    <2> SUFFICES ASSUME NEW b \in Approvers PROVE RulingFits(b, asks)'
      OBVIOUS
    <2>1. CASE b = a
      BY <1>1, <1>2, <1>3, <1>4, <1>5, <2>1 DEF RulingFits
    <2>2. CASE b # a
      BY <1>1, <1>5, <2>2 DEF RulingFits, ReachInv
    <2> QED BY <2>1, <2>2
  <1> QED BY <1>1, <1>5, <1>6 DEF ReachInv, RowsFit, RowFits, SheetFits

LEMMA ExpiryTyped ==
  ASSUME ReachInv, NEW r \in Ruling PROVE ResolveExpiry(r) \in Nat \cup {None}
  BY ReachAssumption DEF ReachInv, Ruling, ResolveExpiry

LEMMA ReachWrite == ASSUME ReachInv, NEW a \in Approvers, WriteApproval(a) PROVE ReachInv'
  <1> DEFINE r == ruling[a]
             k == r.id
             w == [asks[k] EXCEPT !.status = "approved", !.by = a, !.fields = r.fields, !.raw = r.raw,
                                  !.verbs = r.verbs, !.expires = ResolveExpiry(r), !.offer = r.offer]
  <1>1. /\ r # None /\ ruling' = [ruling EXCEPT ![a] = None] /\ UNCHANGED <<layout, rewrites, day, sheet>>
        /\ asks' = IF asks[k].status = "pending" /\ \A j \in DOMAIN asks : asks[j].status # "approved"
                   THEN [asks EXCEPT ![k] = w] ELSE asks
    BY DEF WriteApproval
  <1>2. /\ a # Requester /\ r \in Ruling /\ k \in DOMAIN asks /\ r.fields \subseteq asks[k].asked
        /\ r.raw \subseteq r.fields \cap r.offer
        /\ "approve" \in r.verbs => "read" \in r.verbs
    BY <1>1 DEF ReachInv, RulingFits
  <1>3. asks[k] \in AskRow /\ RowFits(asks[k])
    BY <1>2 DEF ReachInv, RowsFit, RowFits
  <1>4. RowFits(w) /\ w.asked = asks[k].asked
    <2>1. ResolveExpiry(r) \in Nat \cup {None}
      BY <1>2, ExpiryTyped
    <2> HIDE DEF r
    <2>2. w \in AskRow
      BY <1>2, <1>3, <2>1 DEF AskRow, Ruling
    <2>3. /\ w.fields = r.fields /\ w.asked = asks[k].asked /\ w.raw = r.raw /\ w.offer = r.offer /\ w.by = a
          /\ w.verbs = r.verbs /\ w.served = asks[k].served /\ w.used = asks[k].used
      BY <1>3 DEF AskRow
    <2>4. r.fields \subseteq asks[k].asked /\ r.raw \subseteq r.fields \cap r.offer
      BY <1>2
    <2>5. asks[k].served => asks[k].used
      BY <1>3 DEF RowFits
    <2>6. a \in Approvers \ {Requester} /\ ("approve" \in r.verbs => "read" \in r.verbs)
      BY <1>2
    <2> HIDE DEF w, k
    <2> QED BY <2>2, <2>3, <2>4, <2>5, <2>6 DEF RowFits
  <1> HIDE DEF w
  <1>5. RowsFit(asks)' /\ DOMAIN asks' = DOMAIN asks /\ \A i \in DOMAIN asks : asks'[i].asked = asks[i].asked
    <2>1. CASE asks[k].status = "pending" /\ \A j \in DOMAIN asks : asks[j].status # "approved"
      BY <1>1, <1>2, <1>4, <2>1, OneRow
    <2>2. CASE ~(asks[k].status = "pending" /\ \A j \in DOMAIN asks : asks[j].status # "approved")
      BY <1>1, <2>2 DEF ReachInv, RowsFit, RowFits
    <2> QED BY <2>1, <2>2
  <1>6. ruling' = [b \in Approvers |-> ruling'[b]] /\ ruling'[a] = None
        /\ \A b \in Approvers \ {a} : ruling'[b] = ruling[b]
    BY <1>1 DEF ReachInv
  <1>7. \A b \in Approvers : RulingFits(b, asks)'
    BY <1>5, <1>6 DEF RulingFits, ReachInv
  <1> QED BY <1>1, <1>5, <1>6, <1>7 DEF ReachInv, SheetFits

LEMMA ReachEnd == ASSUME ReachInv, NEW a \in Approvers, NEW k \in DOMAIN asks, EndAsk(a, k) PROVE ReachInv'
  <1>1. UNCHANGED <<layout, rewrites, day, sheet, ruling>>
    BY DEF EndAsk
  <1>2. asks[k] \in AskRow /\ RowFits(asks[k])
    BY DEF ReachInv, RowsFit, RowFits
  <1>3. PICK s \in {"denied", "revoked"} : asks' = [asks EXCEPT ![k] = [asks[k] EXCEPT !.status = s, !.by = a]]
    BY DEF EndAsk
  <1> DEFINE w == [asks[k] EXCEPT !.status = s, !.by = a]
  <1>4. RowFits(w) /\ w.asked = asks[k].asked /\ w.status # "approved"
    <2>1. w \in AskRow
      BY <1>2 DEF AskRow
    <2>2. /\ w.asked = asks[k].asked /\ w.status = s /\ w.used = asks[k].used /\ w.served = asks[k].served
      BY <1>2 DEF AskRow
    <2> HIDE DEF w
    <2> QED BY <1>2, <2>1, <2>2 DEF RowFits
  <1> HIDE DEF w
  <1>5. RowsFit(asks)' /\ DOMAIN asks' = DOMAIN asks /\ \A i \in DOMAIN asks : asks'[i].asked = asks[i].asked
    BY <1>3, <1>4, OneRow DEF w
  <1> QED BY <1>1, <1>5, RulingsStay DEF ReachInv, SheetFits

\* A call changes only what is remembered of the use of a row.
LEMMA ReachUses ==
  ASSUME ReachInv, UNCHANGED <<layout, rewrites, day, sheet, ruling>>,
         asks' = [i \in DOMAIN asks |-> asks'[i]],
         \A i \in DOMAIN asks : \E u, s \in BOOLEAN :
           asks'[i] = [asks[i] EXCEPT !.used = u, !.served = s] /\ (s => u)
  PROVE  ReachInv'
  <1>1. \A i \in DOMAIN asks :
          /\ RowFits(asks'[i]) /\ asks'[i] \in AskRow
          /\ asks'[i].asked = asks[i].asked /\ asks'[i].status = asks[i].status
    <2> SUFFICES ASSUME NEW i \in DOMAIN asks
                 PROVE  /\ RowFits(asks'[i]) /\ asks'[i] \in AskRow
                        /\ asks'[i].asked = asks[i].asked /\ asks'[i].status = asks[i].status
      OBVIOUS
    <2>1. asks[i] \in AskRow /\ RowFits(asks[i])
      BY DEF ReachInv, RowsFit, RowFits
    <2>2. PICK u, s \in BOOLEAN : asks'[i] = [asks[i] EXCEPT !.used = u, !.served = s] /\ (s => u)
      OBVIOUS
    <2> QED BY <2>1, <2>2 DEF RowFits, AskRow
  <1>2. asks \in Seq(AskRow)
    BY DEF ReachInv, RowsFit
  <1>3. asks' \in Seq(AskRow) /\ Len(asks') = Len(asks) /\ DOMAIN asks' = DOMAIN asks
    BY <1>1, <1>2, SameRows
  <1>4. RowsFit(asks)'
    <2>1. \A i \in DOMAIN asks' : RowFits(asks'[i])
      BY <1>1, <1>3
    <2>2. \A i, j \in DOMAIN asks' : asks'[i].status = "approved" /\ asks'[j].status = "approved" => i = j
      BY <1>1, <1>3 DEF ReachInv, RowsFit
    <2> QED BY <1>3, <2>1, <2>2 DEF RowsFit, RowFits, ReachInv
  <1> QED BY <1>1, <1>3, <1>4, RulingsStay DEF ReachInv, SheetFits

LEMMA ReachCall ==
  ASSUME ReachInv, NEW verb \in GrantVerbs, NEW F \in SUBSET Columns, CallVerb(verb, F) PROVE ReachInv'
  <1> DEFINE verdict == Verdict(verb, F)
             e(i) == IF i \in Loaded /\ Named(verdict)
                     THEN [asks[i] EXCEPT !.used = TRUE, !.served = @ \/ verdict = "ok"]
                     ELSE asks[i]
  <1>1. asks' = [i \in DOMAIN asks |-> e(i)] /\ UNCHANGED <<layout, rewrites, day, sheet, ruling>>
    BY DEF CallVerb
  <1>2. \A i \in DOMAIN asks : \E u, s \in BOOLEAN : e(i) = [asks[i] EXCEPT !.used = u, !.served = s] /\ (s => u)
    <2> SUFFICES ASSUME NEW i \in DOMAIN asks
                 PROVE  \E u, s \in BOOLEAN : e(i) = [asks[i] EXCEPT !.used = u, !.served = s] /\ (s => u)
      OBVIOUS
    <2>1. asks[i] \in AskRow /\ (asks[i].served => asks[i].used)
      BY DEF ReachInv, RowsFit, RowFits
    <2>2. CASE i \in Loaded /\ Named(verdict)
      <3> HIDE DEF verdict
      <3> WITNESS TRUE \in BOOLEAN, (asks[i].served \/ verdict = "ok") \in BOOLEAN
      <3> QED BY <2>2
    <2>3. CASE ~(i \in Loaded /\ Named(verdict))
      <3> HIDE DEF verdict
      <3> asks[i].used \in BOOLEAN /\ asks[i].served \in BOOLEAN
        BY <2>1 DEF AskRow
      <3>1. asks[i] = [asks[i] EXCEPT !.used = asks[i].used, !.served = asks[i].served]
        BY <2>1 DEF AskRow
      <3> WITNESS asks[i].used \in BOOLEAN, asks[i].served \in BOOLEAN
      <3> QED BY <2>1, <2>3, <3>1
    <2> QED BY <2>2, <2>3
  <1> HIDE DEF e
  <1> QED BY <1>1, <1>2, ReachUses

LEMMA ReachExplain ==
  ASSUME ReachInv, NEW u \in Approvers \cup {Requester}, ExplainAccess(u) PROVE ReachInv'
  <1> DEFINE e(i) == IF i \in Loaded THEN [asks[i] EXCEPT !.used = TRUE] ELSE asks[i]
  <1>1. asks' = [i \in DOMAIN asks |-> e(i)] /\ UNCHANGED <<layout, rewrites, day, sheet, ruling>>
    BY DEF ExplainAccess
  <1>2. \A i \in DOMAIN asks : \E v, s \in BOOLEAN : e(i) = [asks[i] EXCEPT !.used = v, !.served = s] /\ (s => v)
    <2> SUFFICES ASSUME NEW i \in DOMAIN asks
                 PROVE  \E v, s \in BOOLEAN : e(i) = [asks[i] EXCEPT !.used = v, !.served = s] /\ (s => v)
      OBVIOUS
    <2>1. asks[i] \in AskRow /\ (asks[i].served => asks[i].used)
      BY DEF ReachInv, RowsFit, RowFits
    <2> asks[i].used \in BOOLEAN /\ asks[i].served \in BOOLEAN
      BY <2>1 DEF AskRow
    <2>3. CASE i \in Loaded
      <3>1. e(i) = [asks[i] EXCEPT !.used = TRUE, !.served = asks[i].served]
        BY <2>1, <2>3 DEF AskRow
      <3> HIDE DEF e
      <3> WITNESS TRUE \in BOOLEAN, asks[i].served \in BOOLEAN
      <3> QED BY <3>1
    <2>4. CASE i \notin Loaded
      <3>1. e(i) = [asks[i] EXCEPT !.used = asks[i].used, !.served = asks[i].served]
        BY <2>1, <2>4 DEF AskRow
      <3> HIDE DEF e
      <3> WITNESS asks[i].used \in BOOLEAN, asks[i].served \in BOOLEAN
      <3> QED BY <2>1, <3>1
    <2> QED BY <2>3, <2>4
  <1> HIDE DEF e
  <1> QED BY <1>1, <1>2, ReachUses

LEMMA ReachStep == ReachInv /\ [ReachNext]_reachVars => ReachInv'
  <1> SUFFICES ASSUME ReachInv, [ReachNext]_reachVars PROVE ReachInv'
    OBVIOUS
  <1>1. CASE FileStep
    BY <1>1, ReachFile
  <1>2. CASE SheetStep
    BY <1>2, ReachSheet
  <1>3. CASE GrantStep
    <2>1. ASSUME NEW F \in SUBSET Columns, RequestAccess(F) PROVE ReachInv'
      <3>1. RowsFit(asks)' /\ ruling' = [a \in Approvers |-> ruling'[a]] /\ \A a \in Approvers : RulingFits(a, asks)'
        BY <2>1, AskedRow DEF RequestAccess
      <3> QED BY <2>1, <3>1 DEF RequestAccess, ReachInv, SheetFits
    <2>2. ASSUME NEW a \in Approvers, NEW i \in DOMAIN asks, NEW F \in SUBSET Columns, NEW V \in VerbSets,
                 NEW until \in 1 .. MaxDay \cup {None}, NEW U \in SUBSET F, BeginApproval(a, i, F, U, V, until)
          PROVE  ReachInv'
      BY <2>2, ReachBegin
    <2>3. ASSUME NEW a \in Approvers, WriteApproval(a) PROVE ReachInv'
      BY <2>3, ReachWrite
    <2>4. ASSUME NEW a \in Approvers, NEW i \in DOMAIN asks, EndAsk(a, i) PROVE ReachInv'
      BY <2>4, ReachEnd
    <2>5. ASSUME NEW verb \in GrantVerbs \ {"approve"}, NEW F \in SUBSET Columns, CallVerb(verb, F) PROVE ReachInv'
      BY <2>5, ReachCall
    <2>6. ASSUME NEW u \in Approvers \cup {Requester}, ExplainAccess(u) PROVE ReachInv'
      BY <2>6, ReachExplain
    <2> QED BY <1>3, <2>1, <2>2, <2>3, <2>4, <2>5, <2>6 DEF GrantStep
  <1>4. CASE UNCHANGED reachVars
    BY <1>4 DEF reachVars, ReachInv, RowsFit, RowFits, SheetFits, RulingFits
  <1> QED BY <1>1, <1>2, <1>3, <1>4 DEF ReachNext

LEMMA ReachInductive == ReachSpec => []ReachInv
  BY ReachStart, ReachStep, PTL DEF ReachSpec

\* The one grant in force is the row that the pages show as approved.
LEMMA OneInForce == ReachInv => Loaded = {i \in DOMAIN asks : InForce(i)}
  <1> SUFFICES ASSUME ReachInv PROVE Loaded = {i \in DOMAIN asks : InForce(i)}
    OBVIOUS
  <1>1. DOMAIN asks \subseteq Nat
    BY LenProperties DEF ReachInv, RowsFit
  <1>2. \A i, j \in DOMAIN asks : InForce(i) /\ InForce(j) => i = j
    BY DEF ReachInv, RowsFit, InForce
  <1> QED BY <1>1, <1>2 DEF Loaded

LEMMA LoadedRow ==
  ASSUME ReachInv, NEW i \in Loaded
  PROVE  i \in DOMAIN asks /\ asks[i].status = "approved" /\ RowFits(asks[i])
  BY DEF Loaded, InForce, ReachInv, RowsFit

LEMMA ReachTypes == ReachInv => ReachTypeOK
  BY ReachAssumption DEF ReachInv, RowsFit, RowFits, AskRow, SheetFits, ReachTypeOK

LEMMA InsideHolds == ReachInv => DecidedInside
  BY DEF ReachInv, RowsFit, RowFits, DecidedInside

LEMMA VerdictOk ==
  ASSUME NEW verb, NEW F, Verdict(verb, F) = "ok"
  PROVE  Loaded # {} /\ \A i \in Loaded : verb \in asks[i].verbs /\ F \subseteq asks[i].fields
  BY DEF Verdict

LEMMA UnaskedHolds == ReachInv => NothingUnasked
  BY VerdictOk, LoadedRow DEF RowFits, NothingUnasked

LEMMA RawHolds == ReachInv => RawWasDecided
  <1> SUFFICES ASSUME ReachInv, NEW f \in MaskedNow({}), Received(f) = "raw"
               PROVE  \E i \in Loaded : f \in asks[i].raw \cap asks[i].offer /\ asks[i].by # Requester
    BY DEF RawWasDecided
  <1>1. Verdict("read", {f}) = "ok" /\ \A i \in Loaded : f \notin MaskedNow(asks[i].raw)
    BY DEF Received
  <1>2. PICK i \in Loaded : TRUE
    BY <1>1, VerdictOk
  <1>3. f \in asks[i].raw
    BY <1>1, <1>2 DEF MaskedNow
  <1> QED BY <1>2, <1>3, LoadedRow DEF RowFits

LEMMA NoGrantHolds == NoGrantIsNoGrant
  BY DEF NoGrantIsNoGrant, Verdict, Mutating

LEMMA ExplainedHolds == ReachInv => ExplainedIsRead
  <1> SUFFICES ASSUME ReachInv, \A i \in Loaded : "read" \in asks[i].verbs, NEW f \in Grantable
               PROVE  Effect(f) = Received(f)
    BY DEF ExplainedIsRead
  <1>1. layout # None
    BY DEF Grantable
  <1>2. Verdict("read", {f}) = IF Loaded = {} THEN "no_grant"
                               ELSE IF \E i \in Loaded : f \notin asks[i].fields THEN "field_denied" ELSE "ok"
    BY <1>1 DEF Verdict, Mutating
  <1> QED BY <1>2 DEF Effect, Received

LEMMA PagesHold == ReachInv => PagesAgree
  <1> SUFFICES ASSUME ReachInv PROVE PagesAgree
    OBVIOUS
  <1>1. \A i \in DOMAIN asks : asks[i].status = "approved" /\ asks[i].expires # None =>
          (asks[i].expires > day <=> ~(asks[i].expires <= day))
    BY ReachAssumption DEF ReachInv, RowsFit, RowFits, AskRow
  <1>2. \A i \in DOMAIN asks : EffectiveStatus(i) = "approved" <=> InForce(i)
    BY <1>1 DEF EffectiveStatus, InForce
  <1>3. Expiring \subseteq {i \in DOMAIN asks : InForce(i)}
    BY DEF Expiring, InForce
  <1> QED BY <1>2, <1>3, OneInForce DEF PagesAgree

LEMMA UnusedHolds == ReachInv => NeverUsedGaveNothing
  BY DEF ReachInv, RowsFit, RowFits, NeverUsed, NeverUsedGaveNothing

\* ReachCorrect: what a user reads and writes stays within what was asked for and what somebody else
\* allowed of it, however warehousd.yml changes between the sheet, the decision and the call; the
\* explanation and the pages say what a read gives.
THEOREM ReachCorrectAlways == ReachSpec => []ReachCorrect
  <1>1. ReachInv => ReachCorrect
    BY ReachTypes, InsideHolds, UnaskedHolds, RawHolds, NoGrantHolds, ExplainedHolds, PagesHold, UnusedHolds
       DEF ReachCorrect
  <1> QED BY <1>1, ReachInductive, PTL
=============================================================================
