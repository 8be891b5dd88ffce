------------------------------- MODULE Filters -------------------------------
(***************************************************************************)
(* The rows a grant reaches (packages/broker, grants/filters.ts).  A       *)
(* grant's document filters are evaluated twice: by the read path in SQL   *)
(* (sql/build.ts) and by the write path in process, on a row the driver    *)
(* handed over.  The module has both evaluators over the spellings of a    *)
(* value, and the life of a filter: accepted when the grant is approved,   *)
(* bound to the caller and checked again at each call, under a             *)
(* configuration that is redeployed in between.                            *)
(***************************************************************************)
EXTENDS Integers, Sequences, FiniteSets, FiniteSetsExt, SequencesExt, Absent

CONSTANTS
  Subjects,     \* the users the grant's principal stands for
  Self,         \* "$self"
  Definitions,  \* what a deployment may declare the field as: [type, many, base]
  Scopes,       \* the sets of filters an approver may write; a filter is [op, value]
  Cells(_),     \* the values the column of such a definition may hold, None for NULL
  Spelt(_),     \* a subject's id as a text value
  Tick,         \* the driver's resolution of an instant, in the units of the column
  Widest,       \* BOUND: the largest int4
  MaxDeployments, MaxFilterEdits   \* BOUNDS

VARIABLES
  field,    \* the definition of the filtered field, None when the collection has no such field
  stored,   \* the document: [value, acl], acl None without a row in _acl
  scope,    \* the grant's filters, None when none has been accepted
  accepted, \* history: the number of deployments when they were
  deployed, filterEdits,
  asking    \* a subject's call; calls change nothing, so one at a time is enough

filterVars == <<field, stored, scope, accepted, deployed, filterEdits, asking>>

Unasked == [step |-> "idle", by |-> None, of |-> {}, since |-> 0, filters |-> {}, row |-> None,
            read |-> FALSE, write |-> FALSE]

FilterInit ==
  /\ field \in Definitions /\ scope = None /\ accepted = 0 /\ deployed = 0 /\ filterEdits = 0
  /\ stored \in {[value |-> v, acl |-> None] : v \in Cells(field)}
  /\ asking = Unasked

---------------------------------------------------------------------------
(* The in-process evaluator *)

\* Mutant: the decimal point is moved, and insignificant zeros are kept.
DecimalAsWritten(d) ==
  LET ds == d.whole \o d.frac IN
  IF ds = <<>> THEN None ELSE [neg |-> d.neg, digits |-> ds, scale |-> d.exp - Len(d.frac)]

\* canonicalDecimal: sign, digits without leading or trailing zeros, and a power of ten.
CanonicalDecimal(d) ==
  LET ds == d.whole \o d.frac
      significant == {i \in DOMAIN ds : ds[i] # 0}
  IN IF ds = <<>> THEN None
     ELSE IF significant = {} THEN [neg |-> FALSE, digits |-> <<0>>, scale |-> 0]
     ELSE [neg |-> d.neg, digits |-> SubSeq(ds, Min(significant), Max(significant)),
           scale |-> d.exp - Len(d.frac) + Len(ds) - Max(significant)]

\* An int takes digits and a sign; neither a point nor an exponent.
CanonicalInt(d) == IF d.frac = <<>> /\ d.exp = 0 THEN CanonicalDecimal(d) ELSE None

\* A filter's instant needs a full offset; the driver gives a column's as a Date.
CanonicalInstant(t) == IF t.zone = None THEN None ELSE (t.at - t.zone) \div Tick

\* A date is a calendar day, read back with the local accessors; that it exists is not asked.
CanonicalDate(d) == d.day

\* The unambiguous prefixes that Postgres takes as well are refused.
CanonicalBoolean(b) == IF b.canonical THEN b.is ELSE None
\* Case, hyphens and braces are insignificant; a brace need not be closed.
CanonicalUuid(u) == u.hex

Canonicalize(type, v) ==
  IF v = None \/ (v.kind # type /\ (type # "text" \/ v.kind = "list")) THEN None
  ELSE CASE type = "text" -> v
         [] type = "numeric" -> CanonicalDecimal(v)
         [] type = "int" -> CanonicalInt(v)
         [] type = "timestamptz" -> CanonicalInstant(v)
         [] type = "date" -> CanonicalDate(v)
         [] type = "boolean" -> CanonicalBoolean(v)
         [] type = "uuid" -> CanonicalUuid(v)
         [] OTHER -> None

Wanted(f) == IF f.op = "in" /\ f.value.kind = "list" THEN f.value.items ELSE {f.value}
HeldBy(row) == IF row.value # None /\ row.value.kind = "list" THEN row.value.items ELSE {row.value}

\* matchesFilter: any of the wanted with any of the held, and null with nothing.
MatchesFilter(row, f, def) == \E w \in Wanted(f), h \in HeldBy(row) :
  Canonicalize(def.type, w) # None /\ Canonicalize(def.type, w) = Canonicalize(def.type, h)

\* aclAdmits: no list, or an empty one, is public.
AclAdmits(list, u) == list = None \/ list = {} \/ u \in list

\* admits, on a row that was fetched with its list.
AdmitsRow(row, fs, def, u) == (\A f \in fs : MatchesFilter(row, f, def)) /\ AclAdmits(row.acl, u)

---------------------------------------------------------------------------
(* The database's comparison, as buildSelect asks for it *)

\* The value of a decimal, in ten-thousandths.
Amount(d) ==
  LET n == FoldLeft(LAMBDA x, y : 10 * x + y, 0, d.whole \o d.frac) * 10 ^ (d.exp - Len(d.frac) + 4)
  IN IF d.neg THEN 0 - n ELSE n

\* What a parameter is read as by the column's type; None when the cast raises.
Cast(type, v) ==
  CASE type = "text" -> v
    [] type = "numeric" -> Amount(v)
    [] type = "int" -> IF v.frac = <<>> /\ v.exp = 0 /\ Amount(v) \in (-Widest * 10000)..(Widest * 10000)
                       THEN Amount(v) ELSE None
    [] type = "timestamptz" -> v.at - v.zone
    [] type = "date" -> IF v.real THEN v.day ELSE None
    [] type = "boolean" -> v.is
    [] type = "uuid" -> IF v.closed THEN v.hex ELSE None
    [] OTHER -> None

\* A filter of the read path: `=`, `in (...)`, `= any` or `&&`; null is never equal.
Selects(row, f, def) ==
  LET wanted == {w \in Wanted(f) : w # None}  held == {h \in HeldBy(row) : h # None} IN
  /\ \A w \in wanted : Cast(def.type, w) # None
  /\ \E w \in wanted, h \in held : Cast(def.type, w) = Cast(def.type, h)

AclPredicate(list, u) == list = None \/ Cardinality(list) = 0 \/ list \cap {u} # {}
SelectsRow(row, fs, def, u) == (\A f \in fs : Selects(row, f, def)) /\ AclPredicate(row.acl, u)

---------------------------------------------------------------------------
(* The life of a filter *)

\* validateDocumentFilters: a stored field, and values that can be compared exactly; null is one.
ValidateDocumentFilters(fs, def) ==
  fs = {} \/ (/\ def # None /\ def.base
              /\ \A f \in fs : \A v \in Wanted(f) : v = None \/ Canonicalize(def.type, v) # None)

WithValue(f, by) ==
  CASE f.value = Self -> [f EXCEPT !.value = by]
    [] f.value # Self /\ f.value # None /\ f.op = "in" /\ f.value.kind = "list" ->
         [f EXCEPT !.value.items = {IF v = Self THEN by ELSE v : v \in @}]
    [] OTHER -> f

\* validateGrantFilters: "$self" has no value yet, and is put to the check as null.
ValidateGrantFilters(fs, def) == ValidateDocumentFilters({WithValue(f, None) : f \in fs}, def)

\* approveGrant, with the configuration of this moment.
AcceptFilters(fs) ==
  /\ filterEdits < MaxFilterEdits /\ filterEdits' = filterEdits + 1
  /\ field # None /\ ValidateGrantFilters(fs, field)
  /\ scope' = fs /\ accepted' = deployed
  /\ UNCHANGED <<field, stored, deployed, asking>>

\* The values of the column under a definition.
Migrated(def) == IF def = None THEN {None} ELSE Cells(def)
\* A deployment with another definition of the field, and the column's values with it.
Redeploy == \E def \in Definitions \cup {None} :
  /\ deployed < MaxDeployments /\ def # field
  /\ field' = def /\ deployed' = deployed + 1
  /\ stored' \in {[stored EXCEPT !.value = v] : v \in Migrated(def)}
  /\ asking' = Unasked   \* the processes are new
  /\ UNCHANGED <<scope, accepted, filterEdits>>

EditDocument == \E v \in Cells(field), list \in SUBSET Subjects \cup {None} :
  /\ filterEdits < MaxFilterEdits /\ filterEdits' = filterEdits + 1 /\ stored' = [value |-> v, acl |-> list]
  /\ UNCHANGED <<field, scope, accepted, deployed, asking>>

Asks(call) == asking' = call /\ UNCHANGED <<field, stored, scope, accepted, deployed, filterEdits>>

\* toActiveGrant: "$self" is the caller, by predicate and by element.
Bound(u) == {WithValue(f, Spelt(u)) : f \in scope}

LoadFilters(u) ==
  /\ asking.step = "idle" /\ scope # None
  /\ Asks([Unasked EXCEPT !.step = "bound", !.by = u, !.of = scope, !.since = accepted, !.filters = Bound(u)])

\* resolveGranted and mutate: the same check, before either evaluator.
CheckFilters ==
  /\ asking.step = "bound"
  /\ Asks([asking EXCEPT !.step = IF ValidateDocumentFilters(asking.filters, field) THEN "evaluable" ELSE "invalid_intent"])

\* The same row, asked by a read and by a write.
Evaluate ==
  /\ asking.step = "evaluable"
  /\ Asks([asking EXCEPT !.step = "evaluated", !.row = stored.value,
             !.read = SelectsRow(stored, asking.filters, field, asking.by),
             !.write = AdmitsRow(stored, asking.filters, field, asking.by)])

AskAgain == asking.step \in {"invalid_intent", "evaluated"} /\ Asks(Unasked)

FilterNext ==
  \/ \E fs \in Scopes : AcceptFilters(fs)
  \/ Redeploy
  \/ field # None /\ EditDocument
  \/ \E u \in Subjects : LoadFilters(u)
  \/ CheckFilters \/ Evaluate \/ AskAgain

FilterSpec == FilterInit /\ [][FilterNext]_filterVars
---------------------------------------------------------------------------
(* Properties *)

FilterTypeOK ==
  /\ field \in Definitions \cup {None} /\ scope \in Scopes \cup {None}
  /\ stored.acl \in SUBSET Subjects \cup {None} /\ stored.value \in IF field = None THEN {None} ELSE Cells(field)
  /\ asking.step \in {"idle", "bound", "evaluable", "invalid_intent", "evaluated"}

Evaluated == asking.step = "evaluated"

\* An instant that the driver's Date does not hold exactly.
Finer(v) == v # None /\ v.kind = "timestamptz" /\ v.at % Tick # 0
\* A value that passes the check and that the database will not read as the column's type: an int
\* out of range, a uuid with one brace.
Raises(v) == v # None /\ field # None /\ Cast(field.type, v) = None
Comparable == \A f \in asking.filters : \A v \in Wanted(f) \cup {asking.row} : ~Finer(v) /\ (v = asking.row \/ ~Raises(v))

\* The read path and the write path admit the same rows under a grant (filters.ts:11: "whenever they
\* disagree, the same grant admits a row on read and refuses it on write"), for values that the
\* driver holds exactly and the database takes.
PathsAgree == Evaluated /\ Comparable => (asking.read <=> asking.write)

\* "The set of filters that can be evaluated is therefore the set on which the two paths provably
\* agree" (filters.ts:34).  NOT KEPT: the driver's Date is cut to the millisecond while the database
\* compares microseconds, and a uuid with one brace matches in process and raises in the database:
\* the write path then admits a row that the read path does not.
PathsAlwaysAgree == Evaluated => (asking.read <=> asking.write)

\* A filter that says no value, or one that cannot be compared, reaches no row on either path:
\* evaluated without the check it fails closed (filters.ts:299), and it never widens a grant.
FailsClosed == asking.step \in {"bound", "evaluated"} => \A f \in UNION Scopes :
  (f.value = None \/ (f.op = "in" /\ Wanted(f) = {})
     \/ (field # None /\ f.op = "eq" /\ f.value # Self /\ ~ValidateDocumentFilters({f}, field))) =>
    /\ field # None => ~MatchesFilter(stored, f, field)
    /\ Evaluated /\ f \in asking.filters => ~asking.read /\ ~asking.write

\* A grant scoped to "$self" reaches, for each of the subjects it stands for, only rows of his own.
SelfReachesOwn ==
  Evaluated /\ [op |-> "eq", value |-> Self] \in asking.of /\ (asking.read \/ asking.write) =>
    Spelt(asking.by) \in HeldBy([value |-> asking.row])

\* "A malformed predicate is refused while an approver is still present" (manage.ts:278): a call
\* is refused for its filters only when the configuration changed since, or when "$self" is on a
\* column that holds no user ids.
ApprovedIsUsable == asking.step = "invalid_intent" =>
  asking.since # deployed \/ (field.type # "text" /\ \E f \in asking.of : Self \in Wanted(f))

\* The promises about the filters of a grant, together: they mean one thing on both paths, and
\* nothing that cannot be evaluated widens the grant.
FiltersCorrect ==
  /\ FilterTypeOK /\ PathsAgree /\ FailsClosed /\ SelfReachesOwn /\ ApprovedIsUsable
=============================================================================
