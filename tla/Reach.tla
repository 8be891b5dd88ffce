------------------------------- MODULE Reach -------------------------------
(***************************************************************************)
(* What a grant reaches while warehousd.yml changes: it is asked for on a  *)
(* sheet that read the file a while ago, decided under what the file says  *)
(* by then, and served under what it says later (packages/broker/src:      *)
(* grants/manage.ts, verbs/guard.ts, verbs/mutate.ts, verbs/explain.ts;    *)
(* apps/web: lib/approve.ts, app/api/grants/route.ts,                      *)
(* app/member/RequestAccessSheet.tsx, app/lib/broker.ts).                  *)
(*                                                                         *)
(* One collection, live, and the personal grants of one user.  Groups and  *)
(* the statements of a call are Access's, document filters are Filters'.   *)
(***************************************************************************)
EXTENDS Naturals, Sequences, FiniteSets, Absent

CONSTANTS
  Columns,      \* the fields of the collection
  Layouts,      \* what warehousd.yml may say of it; None where it has no such collection.  read is the
                \* posture, raw the fields with `unmask: allow`, write those with `write: allow`, verbs
                \* what the kind supports, days its grant_expiry_days
  FirstLayout,
  Requester,
  Approvers,    \* the managers and admins, the requester among them or not
  VerbSets,     \* what a decision may carry
  Soon,         \* EXPIRING_SOON_DAYS
  MaxAsks,      \* BOUND: requests
  MaxDay,       \* BOUND: the clock
  MaxRewrites   \* BOUND: changes of warehousd.yml

Mutating == {"create", "update", "delete"}
GrantVerbs == {"read", "approve"} \cup Mutating

ASSUME ReachAssumption ==
  /\ \A l \in Layouts :
       l # None => /\ l.read \in [Columns -> {"allow", "mask", "deny"}]
                   /\ l.raw \subseteq {f \in Columns : l.read[f] = "mask"}
                   /\ l.write \subseteq Columns /\ l.verbs \subseteq Mutating
                   /\ l.days # None => l.days \in Nat \ {0}
  /\ FirstLayout \in Layouts
  /\ \A V \in VerbSets : V \subseteq GrantVerbs
  /\ None \notin Nat
  /\ {Soon, MaxAsks, MaxDay, MaxRewrites} \subseteq Nat

VARIABLES
  layout,    \* what the file says now: the configuration is read again when its mtime changes
  rewrites,
  day,
  asks,      \* app.grants, in the order of requested_at; asked, offer and served are history
  sheet,     \* RequestAccessSheet
  ruling     \* per approver, the approval that was found in order and is not written yet

reachVars == <<layout, rewrites, day, asks, sheet, ruling>>

EmptySheet ==
  [open |-> FALSE, asking |-> FALSE, list |-> None, picked |-> FALSE, fields |-> {}, sent |-> None]

ReachInit ==
  /\ layout = FirstLayout /\ rewrites = 0 /\ day = 0
  /\ asks = <<>> /\ sheet = EmptySheet /\ ruling = [a \in Approvers |-> None]

-----------------------------------------------------------------------------
(* What the configuration allows, and the grant that decides *)

Grantable == IF layout = None THEN {} ELSE {f \in Columns : layout.read[f] # "deny"}
Unmaskable == IF layout = None THEN {} ELSE layout.raw
MaskedNow(raw) == IF layout = None THEN {} ELSE {f \in Columns : layout.read[f] = "mask"} \ raw

InForce(i) ==
  asks[i].status = "approved" /\ (asks[i].expires # None => asks[i].expires > day)

\* loadActiveGrant: of those in force the one requested last.
Loaded == {i \in DOMAIN asks : InForce(i) /\ \A j \in DOMAIN asks : InForce(j) => j <= i}

\* validateGrantRequest: no fields are all of them.
Requested(F) == IF F = {} THEN Grantable ELSE F
RequestOK(F) == layout # None /\ Requested(F) \subseteq Grantable

\* validateVerbs: approve takes read, and a write verb something to write.
VerbsOK(V, F) ==
  /\ V # {} /\ ("approve" \in V => "read" \in V)
  /\ V \cap Mutating \subseteq layout.verbs
  /\ V \cap Mutating # {} => F \cap layout.write # {}

\* Mutant: what the requester did not ask for may be added.
BuildWider(i, F, U) ==
  /\ layout # None
  /\ F # {} /\ F \subseteq Grantable
  /\ U \subseteq F \cap Unmaskable

\* buildApproval: an approver trims what was asked for, and unmasks what the file lets him unmask.
BuildOK(i, F, U) ==
  /\ layout # None
  /\ F # {} /\ F \subseteq Grantable \cap asks[i].fields
  /\ U \subseteq F \cap Unmaskable

-----------------------------------------------------------------------------
(* The sheet that asks *)

\* The file is edited, and the next request loads it; what is under way keeps what it has read.
Rewrite ==
  /\ rewrites < MaxRewrites /\ rewrites' = rewrites + 1
  /\ layout' \in Layouts \ {layout}
  /\ UNCHANGED <<day, asks, sheet, ruling>>

Midnight ==
  /\ day < MaxDay /\ day' = day + 1
  /\ UNCHANGED <<layout, rewrites, asks, sheet, ruling>>

\* GET /api/me/collections: the fields that can be asked for, and whether a request stands or was
\* approved, an expired one included.
MyCollection ==
  [there |-> layout # None, fields |-> Grantable,
   taken |-> \E i \in DOMAIN asks : asks[i].status \in {"pending", "approved"}]

OpenSheet ==
  /\ ~sheet.open /\ sheet' = [sheet EXCEPT !.open = TRUE, !.asking = TRUE]
  /\ UNCHANGED <<layout, rewrites, day, asks, ruling>>

\* The answer comes when it comes, whatever was picked from the one before it.
ListArrives ==
  /\ sheet.asking /\ sheet' = [sheet EXCEPT !.asking = FALSE, !.list = MyCollection]
  /\ UNCHANGED <<layout, rewrites, day, asks, ruling>>

\* The select: the collection, for the first time or after another one.  Only this ticks the fields.
PickCollection ==
  /\ sheet.open /\ sheet.list # None /\ sheet.list.there /\ ~sheet.list.taken
  /\ sheet' = [sheet EXCEPT !.picked = TRUE, !.fields = sheet.list.fields]
  /\ UNCHANGED <<layout, rewrites, day, asks, ruling>>

\* A checkbox: those of the list that is shown.
TickColumn(f) ==
  /\ sheet.open /\ sheet.picked /\ sheet.list # None /\ sheet.list.there /\ f \in sheet.list.fields
  /\ sheet' = [sheet EXCEPT !.fields = IF f \in @ THEN @ \ {f} ELSE @ \cup {f}]
  /\ UNCHANGED <<layout, rewrites, day, asks, ruling>>

CancelSheet ==
  /\ sheet.open /\ sheet' = [sheet EXCEPT !.open = FALSE]
  /\ UNCHANGED <<layout, rewrites, day, asks, ruling>>

\* submit, unless one is under way or nothing is ticked.
Submit ==
  /\ sheet.open /\ sheet.picked /\ sheet.sent = None /\ sheet.fields # {}
  /\ sheet' = [sheet EXCEPT !.sent = sheet.fields]
  /\ UNCHANGED <<layout, rewrites, day, asks, ruling>>

\* requestGrant: the defaults of the table are the verb read and no expiry.
NewAsk(F) ==
  [asked |-> Requested(F), fields |-> Requested(F), raw |-> {}, verbs |-> {"read"}, status |-> "pending",
   by |-> None, expires |-> None, offer |-> {}, used |-> FALSE, served |-> FALSE]

\* POST /api/grants, action request: a refusal leaves the sheet as it is, and what was asked for
\* empties it.
PostRequest ==
  /\ sheet.sent # None /\ Len(asks) < MaxAsks
  /\ IF RequestOK(sheet.sent)
     THEN /\ asks' = Append(asks, NewAsk(sheet.sent))
          /\ sheet' = [EmptySheet EXCEPT !.list = sheet.list, !.asking = sheet.asking]
     ELSE sheet' = [sheet EXCEPT !.sent = None] /\ UNCHANGED asks
  /\ UNCHANGED <<layout, rewrites, day, ruling>>

\* The MCP tool request_access, with fields or without.
RequestAccess(F) ==
  /\ RequestOK(F) /\ Len(asks) < MaxAsks
  /\ asks' = Append(asks, NewAsk(F))
  /\ UNCHANGED <<layout, rewrites, day, sheet, ruling>>

-----------------------------------------------------------------------------
(* Decisions *)

\* POST approve, up to the update: the row is pending and somebody else's, and what the approver
\* chose is in order under the configuration of this request.  Every refusal ends it here.
BeginApproval(a, i, F, U, V, until) ==
  /\ ruling[a] = None /\ asks[i].status = "pending" /\ a # Requester
  /\ BuildOK(i, F, U) /\ VerbsOK(V, F)
  /\ until # None => until > day
  /\ ruling' = [ruling EXCEPT ![a] =
       [id |-> i, fields |-> F, raw |-> U, verbs |-> V, until |-> until, days |-> layout.days,
        offer |-> Unmaskable]]
  /\ UNCHANGED <<layout, rewrites, day, asks, sheet>>

\* The approver's choice, or the collection's default.
ResolveExpiry(r) == IF r.until # None \/ r.days = None THEN r.until ELSE day + r.days

\* The update finds the row pending or changes nothing, and grants_one_active_principal refuses a
\* second approved one, be the first expired or not.
WriteApproval(a) ==
  LET r == ruling[a] IN
  /\ r # None /\ ruling' = [ruling EXCEPT ![a] = None]
  /\ asks' = IF /\ asks[r.id].status = "pending"
                /\ \A j \in DOMAIN asks : asks[j].status # "approved"
             THEN [asks EXCEPT ![r.id] =
                     [@ EXCEPT !.status = "approved", !.by = a, !.fields = r.fields, !.raw = r.raw,
                               !.verbs = r.verbs, !.expires = ResolveExpiry(r), !.offer = r.offer]]
             ELSE asks
  /\ UNCHANGED <<layout, rewrites, day, sheet>>

\* denyGrant ends a pending row, revokeGrant an approved one, each in one statement.
EndAsk(a, i) ==
  /\ \/ asks[i].status = "pending" /\ asks' = [asks EXCEPT ![i].status = "denied", ![i].by = a]
     \/ asks[i].status = "approved" /\ asks' = [asks EXCEPT ![i].status = "revoked", ![i].by = a]
  /\ UNCHANGED <<layout, rewrites, day, sheet, ruling>>

-----------------------------------------------------------------------------
(* Calls *)

\* resolveGranted: the first thing that is wrong.  No verb for a read is no grant.
Verdict(verb, F) ==
  IF layout = None THEN "unknown_collection"
  ELSE IF verb \in Mutating /\ verb \notin layout.verbs THEN "not_supported"
  ELSE IF Loaded = {} THEN "no_grant"
  ELSE IF \E i \in Loaded : verb \notin asks[i].verbs
       THEN (IF verb = "read" THEN "no_grant" ELSE "verb_denied")
  ELSE IF verb \in Mutating /\ ~(F \subseteq layout.write) THEN "field_not_writable"
  ELSE IF \E i \in Loaded : ~(F \subseteq asks[i].fields) THEN "field_denied"
  ELSE "ok"

\* The audit row of a verdict names the grant when it was reached by consulting it.
Named(verdict) == verdict \in {"ok", "verb_denied", "field_not_writable", "field_denied"}

\* A read or a write of those fields, and its audit row.
CallVerb(verb, F) ==
  /\ Loaded # {}
  /\ LET verdict == Verdict(verb, F) IN
     asks' = [i \in DOMAIN asks |->
                IF i \in Loaded /\ Named(verdict)
                THEN [asks[i] EXCEPT !.used = TRUE, !.served = @ \/ verdict = "ok"]
                ELSE asks[i]]
  /\ UNCHANGED <<layout, rewrites, day, sheet, ruling>>

\* explainAccess, by the requester or by who manages: its own audit row names the grant as well.
ExplainAccess(u) ==
  /\ u \in Approvers \cup {Requester} /\ layout # None
  /\ asks' = [i \in DOMAIN asks |-> IF i \in Loaded THEN [asks[i] EXCEPT !.used = TRUE] ELSE asks[i]]
  /\ UNCHANGED <<layout, rewrites, day, sheet, ruling>>

\* What a read of one field gives the requester.
Received(f) ==
  IF Verdict("read", {f}) # "ok" THEN "none"
  ELSE IF \E i \in Loaded : f \in MaskedNow(asks[i].raw) THEN "masked"
  ELSE "raw"

\* What explainAccess says it gives.
Effect(f) ==
  IF f \notin Grantable \/ Loaded = {} \/ \E i \in Loaded : f \notin asks[i].fields THEN "none"
  ELSE IF \E i \in Loaded : f \in MaskedNow(asks[i].raw) THEN "masked"
  ELSE "raw"

\* The status on the requester's page: an approved one that has lapsed is expired.
EffectiveStatus(i) ==
  IF asks[i].status = "approved" /\ asks[i].expires # None /\ asks[i].expires <= day
  THEN "expired" ELSE asks[i].status

\* The inbox: what lapses soon.
Expiring ==
  {i \in DOMAIN asks : /\ asks[i].status = "approved" /\ asks[i].expires # None
                       /\ asks[i].expires > day /\ asks[i].expires < day + Soon}

\* The access review, of grants of any age: those that no audit row names.
NeverUsed == {i \in DOMAIN asks : asks[i].status = "approved" /\ ~asks[i].used}

FileStep == Rewrite \/ Midnight
SheetStep ==
  \/ OpenSheet \/ ListArrives \/ PickCollection \/ CancelSheet \/ Submit \/ PostRequest
  \/ \E f \in Columns : TickColumn(f)
GrantStep ==
  \/ \E F \in SUBSET Columns : RequestAccess(F)
  \/ \E a \in Approvers, i \in DOMAIN asks, F \in SUBSET Columns, V \in VerbSets,
        until \in 1 .. MaxDay \cup {None} :
       \E U \in SUBSET F : BeginApproval(a, i, F, U, V, until)
  \/ \E a \in Approvers : WriteApproval(a)
  \/ \E a \in Approvers, i \in DOMAIN asks : EndAsk(a, i)
  \/ \E verb \in GrantVerbs \ {"approve"}, F \in SUBSET Columns : CallVerb(verb, F)
  \/ \E u \in Approvers \cup {Requester} : ExplainAccess(u)

ReachNext == FileStep \/ SheetStep \/ GrantStep
ReachSpec == ReachInit /\ [][ReachNext]_reachVars

-----------------------------------------------------------------------------
(* Properties *)

ReachTypeOK ==
  /\ layout \in Layouts /\ rewrites \in 0 .. MaxRewrites /\ day \in 0 .. MaxDay
  /\ Len(asks) <= MaxAsks
  /\ \A i \in DOMAIN asks :
       /\ asks[i].asked \cup asks[i].offer \subseteq Columns
       /\ asks[i].verbs \subseteq GrantVerbs
       /\ asks[i].expires # None => asks[i].expires \in Nat
  /\ sheet.fields \subseteq Columns

\* A decision is within what was asked for and what the file offered when it was made, was made by
\* somebody else, and nobody may approve who may not read (approve.ts:46, manage.ts:42, :257).
DecidedInside ==
  \A i \in DOMAIN asks : asks[i].status = "approved" =>
    /\ asks[i].fields \subseteq asks[i].asked
    /\ asks[i].raw \subseteq asks[i].fields \cap asks[i].offer
    /\ asks[i].by \in Approvers \ {Requester}
    /\ "approve" \in asks[i].verbs => "read" \in asks[i].verbs

\* Nothing is read or written that the requester has not asked for, whatever the file has said
\* since then.
NothingUnasked ==
  \A verb \in GrantVerbs, F \in SUBSET Columns :
    Verdict(verb, F) = "ok" => \E i \in Loaded : F \subseteq asks[i].asked /\ verb \in asks[i].verbs

\* The stored value of a field that is masked now comes only to who was given it by name, by
\* somebody else, while the file offered that (manage.ts:290).
RawWasDecided ==
  \A f \in MaskedNow({}) : Received(f) = "raw" =>
    \E i \in Loaded : f \in asks[i].raw \cap asks[i].offer /\ asks[i].by # Requester

\* Who may not read gets one answer, with a grant for something else or without any (guard.ts:21).
NoGrantIsNoGrant ==
  (\A i \in Loaded : "read" \notin asks[i].verbs) =>
    \A F \in SUBSET Columns : Verdict("read", F) \in {"unknown_collection", "no_grant"}

\* The explanation is what a read would give, of a field that the file does not deny and to who may
\* read at all (explain.ts:39).
ExplainedIsRead ==
  (\A i \in Loaded : "read" \in asks[i].verbs) => \A f \in Grantable : Effect(f) = Received(f)

\* The pages and the calls agree on which grant is in force: the requester's page shows the loaded
\* one as approved and no other, and what the inbox warns of still works (me/grants/route.ts:22).
PagesAgree ==
  /\ {i \in DOMAIN asks : EffectiveStatus(i) = "approved"} = Loaded
  /\ Expiring \subseteq Loaded

\* A grant that the review calls never used has given nobody anything (manage.ts:414).
NeverUsedGaveNothing == \A i \in NeverUsed : ~asks[i].served

\* The promises of a grant under a file that changes, together.
ReachCorrect ==
  /\ ReachTypeOK /\ DecidedInside /\ NothingUnasked /\ RawWasDecided /\ NoGrantIsNoGrant
  /\ ExplainedIsRead /\ PagesAgree /\ NeverUsedGaveNothing

\* NOT KEPT: a denied field "is never selected" (docs/configuration.md:282), "an admin flipping a
\* posture to `deny` has to bind" enforcement at once (app/lib/broker.ts:129).  A read looks at the
\* fields of the grant and masks what the file masks: one that is denied since comes raw.
DeniedIsNeverSelected == \A f \in Columns \ Grantable : Received(f) = "none"

\* NOT KEPT: the posture is "the ceiling: no grant can widen it" (explain.ts:32).  A grant that was
\* approved unmasked stays so when `unmask: allow` is taken back.
WithdrawnIsMasked == \A f \in MaskedNow({}) \ Unmaskable : Received(f) # "raw"

\* NOT KEPT: "what the subject would actually receive" (explain.ts:39), of whoever holds a grant to
\* create: a read of his is refused, and the explanation says raw.
ExplainedToWriters == \A f \in Grantable : Effect(f) = Received(f)

\* NOT KEPT: "zero is the interesting number" of uses (manage.ts:435).  The explanation is audited
\* under the grant, so opening it, as the approve sheet does, makes the grant look used.
UsedWasServed == \A i \in DOMAIN asks : asks[i].used => asks[i].served

\* NOT KEPT: what is sent is what is ticked on the screen.  A list that comes back shorter leaves
\* the ticks of the fields it no longer shows, and the request is refused for them.
TickedIsShown == sheet.picked /\ ~sheet.asking => sheet.fields \subseteq sheet.list.fields

\* NOT KEPT: "an expired grant behaves exactly like a revoked one" (ApproveSheet.tsx:219) and
\* "renewing is a new request" (Inbox.tsx:116).  The sheet keeps the collection of an expired one
\* disabled.
LapsedMayAskAgain ==
  (\A i \in DOMAIN asks : EffectiveStatus(i) \in {"expired", "denied", "revoked"}) => ~MyCollection.taken
=============================================================================
