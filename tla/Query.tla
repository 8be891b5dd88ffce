------------------------------- MODULE Query -------------------------------
(***************************************************************************)
(* The read verbs of the broker (verbs/read.ts): query with its keyset     *)
(* pagination, queryBatch, searchDocuments over every collection, and      *)
(* getDocument with the ETag that a later PUT carries; and explainAccess   *)
(* (verbs/explain.ts), which says what a read would return.                *)
(*                                                                         *)
(* A request is one caller's: the intent is checked, the grant is loaded,  *)
(* one statement selects, and the audit row is written, each at a time of  *)
(* its own, while other people write documents and decide grants.          *)
(*                                                                         *)
(* Values are naturals and 0 is SQL null.  A document's key is its number. *)
(***************************************************************************)
EXTENDS Naturals, Sequences, FiniteSets, Ordering, Absent

CONSTANTS
  Colls,        \* collections, numbered as warehousd.yml lists them
  Keyed,        \* those that declare a primary key
  DocKeys,         \* key values: document numbers
  Cols,         \* fields, Pk among them
  Pk, Rank,     \* the primary key; the field a search ranks by
  MaskedCols,   \* fields with posture mask
  NullableCols,
  Stamps,       \* timestamptz fields: stored finer than a JSON date
  Me,           \* the principals of the caller
  FirstDocs,    \* the documents at first
  Contents,     \* what a write may make of a document
  GrantsFor,    \* collection -> the grants the caller may hold on it
  Intents,      \* the queries the caller asks
  Batches,      \* sequences of them
  SearchLimit,
  ReadOps,      \* which of AllReadOps are asked for
  MaxPages,     \* BOUND on requests
  MaxEdits      \* BOUND on writes of other people and changes of grants

AllReadOps == {"query", "batch", "search", "get"}

(* An intent and a document, as the schema lets them be: a limit is clamped to 1 or more, and a batch *)
(* is not empty.                                                                                      *)
AnyIntent ==
  [coll : Colls, fields : SUBSET STRING, filters : SUBSET [field : STRING, op : STRING, value : Nat],
   by : {None} \cup STRING, agg : {None} \cup STRING, group : {None} \cup STRING,
   dir : {"asc", "desc"}, offset : Nat, limit : Nat \ {0}, plain : BOOLEAN]

DocumentsFor(readers) == [data : [Cols -> Nat], readers : {readers}, rev : Nat]
DocumentRow(x) == x \in DocumentsFor(x.readers) /\ None \notin DocumentsFor(x.readers)

ASSUME QueryAssumption ==
  /\ Colls \subseteq Nat /\ Keyed \subseteq Colls /\ DocKeys \subseteq Nat \ {0} /\ {Pk, Rank} \subseteq Cols
  /\ IsFiniteSet(Colls) /\ IsFiniteSet(DocKeys) /\ IsFiniteSet(Cols)
  /\ MaskedCols \cup NullableCols \cup Stamps \subseteq Cols
  /\ Pk \notin MaskedCols \cup NullableCols
  /\ ReadOps \subseteq AllReadOps /\ MaxPages \in Nat /\ MaxEdits \in Nat /\ SearchLimit \in Nat
  /\ None \notin Nat \cup Cols /\ None \notin [f : Cols, d : {"asc", "desc"}, v : Nat, k : DocKeys]
  /\ Intents \subseteq AnyIntent /\ Batches \subseteq Seq(AnyIntent) \ {<<>>}
  /\ FirstDocs = [c \in Colls |-> [d \in DocKeys |-> FirstDocs[c][d]]]
  /\ \A c \in Colls, d \in DocKeys : LET x == FirstDocs[c][d] IN
       x # None => DocumentRow(x) /\ x.data[Pk] = d
  /\ \A x \in Contents : DocumentRow(x)
  /\ \A c \in Colls : \A g \in GrantsFor[c] : g # None => g.fields \subseteq Cols

VARIABLES
  docs,    \* collection -> key -> document, None without a current one
  held,    \* collection -> the caller's approved grant, None without one
  req,     \* the request under way
  written,   \* its rows in the audit trail
  walk,    \* the caller's walk over pages, None while there is none
  got,     \* the last document the caller read by its key, with its ETag; None
  pages, edits

queryVars == <<docs, held, req, written, walk, got, pages, edits>>

NoRead ==
  [pc |-> "idle", op |-> "query", slots |-> <<>>, at |-> 1, after |-> None, grant |-> None,
   since |-> {}, found |-> [keys |-> <<>>, rows |-> <<>>, next |-> None], read |-> 0, tag |-> 0, out |-> <<>>]
NoneWritten == [allowed |-> 0, refused |-> 0]

QueryInit ==
  /\ docs = FirstDocs
  /\ held \in [Colls -> UNION {GrantsFor[c] : c \in Colls}] /\ \A c \in Colls : held[c] \in GrantsFor[c]
  /\ req = NoRead /\ written = NoneWritten /\ walk = None /\ got = None /\ pages = 0 /\ edits = 0

---------------------------------------------------------------------------
(* What an intent refers to, and whether it is answered *)

NoIntent(c) ==
  [coll |-> c, fields |-> {}, filters |-> {}, by |-> None, dir |-> "asc", agg |-> None,
   group |-> None, offset |-> 0, limit |-> SearchLimit, plain |-> TRUE]

\* Mutant: the field that a query is grouped by is not computed over.
ComputedUngrouped(i) == ({x.field : x \in i.filters} \cup {i.by, i.agg}) \ {None}
\* collectComputed
Computed(i) == ({x.field : x \in i.filters} \cup {i.by, i.agg, i.group}) \ {None}
\* collectReferenced
Referenced(i) == i.fields \cup Computed(i)

SortField(i) == IF i.by = None THEN Pk ELSE i.by
\* A search and getDocument build their statement without a keyset.
KeysetActive(i) == i.coll \in Keyed /\ i.agg = None /\ i.offset = 0 /\ ~i.plain

\* What can be the order of a walk: a comparison with null is not false but unknown.
SortsTotally(i) == SortField(i) \notin NullableCols

\* The checks before a grant is loaded.
CheckIntent(i, after) ==
  IF i.agg # None /\ i.fields # {} THEN "invalid_intent"
  ELSE IF ~(Referenced(i) \subseteq Cols) THEN "unknown_field"
  ELSE IF after # None /\ ~KeysetActive(i) THEN "invalid_intent"
  ELSE IF KeysetActive(i) /\ ~SortsTotally(i) THEN "invalid_intent"
  ELSE "ok"

\* A field comes back transformed unless the grant carries its raw value.
Masked(g) == MaskedCols \ g.raw
Keyset(i, g) == KeysetActive(i) /\ Pk \in g.fields

\* decodeCursor, and the comparison with the order that is asked for.
SameOrder(i, after) == after.f = SortField(i) /\ after.d = i.dir

\* resolveGranted and the checks that follow it, in their order.
Guard(i, after, g) ==
  IF g = None THEN "no_grant"
  ELSE IF "read" \notin g.verbs THEN "no_grant"
  ELSE IF ~(Referenced(i) \cup (IF after # None THEN {Pk} ELSE {}) \subseteq g.fields) THEN "field_denied"
  ELSE IF Computed(i) \cap Masked(g) # {} THEN "field_denied"
  ELSE IF after # None /\ ~SameOrder(i, after) THEN "invalid_intent"
  ELSE "ok"

---------------------------------------------------------------------------
(* The statement (sql/build.ts) *)

Mask(v) == IF v = 0 THEN 0 ELSE 10 + v \div 2
Shown(f, v, g) == IF f \in Masked(g) THEN Mask(v) ELSE v
Selected(i, g) == IF i.fields # {} THEN i.fields ELSE g.fields

Compares(x, v) == v # 0 /\ IF x.op = "eq" THEN v = x.value ELSE v > x.value
\* The document filters of the grant, and aclPredicate.
Reaches(doc, g) ==
  /\ \A x \in g.filters : Compares(x, doc.data[x.field])
  /\ doc.readers = {} \/ doc.readers \cap Me # {}

\* The ascending order of values: a null after all others, as Postgres has it.
Lower(v, w) == v # w /\ (w = 0 \/ (v # 0 /\ v < w))

\* (field, pk) of d comes before that of e in the ascending order.
RanksBefore(D, f, d, e) ==
  Lower(D[d].data[f], D[e].data[f]) \/ (D[d].data[f] = D[e].data[f] /\ d < e)

\* The row-value comparison with the cursor: unknown, which is not true, where there is a null.
Beyond(D, i, after, d) ==
  LET v == D[d].data[after.f] IN
  v # 0 /\ after.v # 0 /\ IF i.dir = "asc" THEN v > after.v \/ (v = after.v /\ d > after.k)
                            ELSE v < after.v \/ (v = after.v /\ d < after.k)

\* The documents of D that an intent finds under a grant.
Matching(D, i, after, g) ==
  {d \in DocKeys :
     /\ D[d] # None
     /\ Reaches(D[d], g)
     /\ \A x \in i.filters : Compares(x, D[d].data[x.field])
     /\ after = None \/ Beyond(D, i, after, d)}

\* order by: field and primary key for a walk, the field alone or nothing otherwise.
InOrderOf(D, i, g, s) ==
  \A m, n \in DOMAIN s : m < n =>
    IF Keyset(i, g)
    THEN IF i.dir = "asc" THEN RanksBefore(D, SortField(i), s[m], s[n]) ELSE RanksBefore(D, SortField(i), s[n], s[m])
    ELSE i.by = None \/ LET v == D[s[m]].data[i.by]  w == D[s[n]].data[i.by] IN
                        IF i.dir = "asc" THEN ~Lower(w, v) ELSE ~Lower(v, w)

\* What JSON keeps of a value: a date has milliseconds, a timestamptz microseconds.
Json(f, v) == IF f \in Stamps THEN v - (v % 2) ELSE v

\* nextCursor: of the last document, when the page is full.
NextCursor(D, i, g, s) ==
  IF Keyset(i, g) /\ Len(s) = i.limit /\ s # <<>>
  THEN LET d == s[Len(s)] IN
       [f |-> SortField(i), d |-> i.dir, v |-> Json(SortField(i), D[d].data[SortField(i)]), k |-> d]
  ELSE None

Project(D, i, g, d) == [f \in Selected(i, g) |-> Shown(f, D[d].data[f], g)]

\* select max(agg) ... group by group
Aggregated(D, i, S) ==
  LET Group(d) == IF i.group = None THEN 0 ELSE D[d].data[i.group]
      Top(v) == CHOOSE x \in {D[d].data[i.agg] : d \in {e \in S : Group(e) = v}} :
                  \A e \in S : Group(e) = v => D[e].data[i.agg] <= x
  IN {<<v, Top(v)>> : v \in {Group(d) : d \in S}}

\* limit and offset
Page(s, offset, limit) == SubSeq(s, offset + 1, IF offset + limit < Len(s) THEN offset + limit ELSE Len(s))

\* The answers the statement may give: an order leaves open what it does not determine.
Answers(D, i, after, g) ==
  LET S == Matching(D, i, after, g) IN
  IF i.agg # None THEN {[keys |-> <<>>, rows |-> Aggregated(D, i, S), next |-> None]}
  ELSE {[keys |-> s, rows |-> [n \in DOMAIN s |-> Project(D, i, g, s[n])], next |-> NextCursor(D, i, g, s)] :
         s \in {Page(o, i.offset, i.limit) :
                 o \in {p \in Enumerations(S) : InOrderOf(D, i, g, p)}}}

---------------------------------------------------------------------------
(* One request *)

Slot == req.slots[req.at]
Others == <<docs, held, walk, got, pages, edits>>

\* A request arrives: a page of a query, a batch, a search, a document by its key.
BeginRead(op, slots, after) ==
  /\ op \in ReadOps /\ req.pc = "idle" /\ pages < MaxPages /\ pages' = pages + 1
  /\ req' = [NoRead EXCEPT !.pc = "check", !.op = op, !.slots = slots, !.after = after,
               !.since = {held[slots[1].coll]}]
  /\ written' = NoneWritten
  /\ UNCHANGED <<docs, held, got, edits>>

\* A query.  When its pages can be walked, the caller counts what it sees from here.
AskQuery == \E i \in Intents :
  /\ BeginRead("query", <<i>>, None)
  /\ walk' = IF held[i.coll] = None \/ ~Keyset(i, held[i.coll]) THEN None
             ELSE [intent |-> i, grant |-> held[i.coll], seen |-> [d \in DocKeys |-> 0],
                   steady |-> {d \in DocKeys : docs[i.coll][d] # None}, next |-> None, ended |-> FALSE]

\* The next one, in the order of the first or, by mistake, in the other.
AskNext == \E dir \in {"asc", "desc"} :
  /\ walk # None /\ walk.next # None
  /\ BeginRead("query", <<[walk.intent EXCEPT !.dir = dir]>>, walk.next)
  /\ walk' = walk

AskBatch == \E b \in Batches : BeginRead("batch", b, None) /\ walk' = None

AskGet == \E c \in Keyed, d \in DocKeys :
  /\ BeginRead("get", <<[NoIntent(c) EXCEPT !.filters = {[field |-> Pk, op |-> "eq", value |-> d]}, !.limit = 1]>>, None)
  /\ walk' = None

\* searchAll: the collections whose grants carry read, all read in one statement; then searchOne of
\* each, which ranks what matches.
AskSearch ==
  LET granted == {c \in Colls : held[c] # None /\ "read" \in held[c].verbs}
      reachable == SortedBy(granted, [c \in granted |-> {b \in granted : b < c}]) IN
  /\ reachable # <<>>
  /\ BeginRead("search", [n \in DOMAIN reachable |->
               [NoIntent(reachable[n]) EXCEPT !.by = Rank, !.dir = "desc",
                  !.filters = {[field |-> Rank, op |-> "gt", value |-> 0]}]], None)
  /\ walk' = None

\* The slot is done: the next one, or the end.
After(out) ==
  IF req.at < Len(req.slots)
  THEN [req EXCEPT !.pc = "check", !.at = @ + 1, !.out = out, !.since = {held[req.slots[req.at + 1].coll]}]
  ELSE [req EXCEPT !.pc = IF req.op \in {"batch", "search"} THEN "envelope" ELSE "answer", !.out = out]

NothingFound == [keys |-> <<>>, rows |-> <<>>, next |-> None]
Refused(reason) == [ok |-> FALSE, reason |-> reason, found |-> NothingFound]

\* audit.refuse: the refusal stands whether or not its row is written.
RefuseRead(reason) ==
  /\ \E recorded \in {0, 1} : written' = [written EXCEPT !.refused = @ + recorded]
  /\ req' = After(Append(req.out, Refused(reason)))
  /\ UNCHANGED Others

Checked == IF req.op \in {"query", "batch"} THEN CheckIntent(Slot, req.after) ELSE "ok"

RefusedIntent == req.pc = "check" /\ Checked # "ok" /\ RefuseRead(Checked)

\* loadActiveGrant, for every slot by itself.
Loaded == held[Slot.coll]

LoadGrant ==
  /\ req.pc = "check" /\ Checked = "ok"
  /\ req' = [req EXCEPT !.pc = "guard", !.grant = Loaded]
  /\ UNCHANGED <<written, Others>>

\* getDocument and a search name no field: they need the verb alone.
Verdict ==
  IF req.op \in {"query", "batch"} THEN Guard(Slot, req.after, req.grant)
  ELSE IF req.grant # None /\ "read" \in req.grant.verbs THEN "ok" ELSE "no_grant"

RefusedGrant == req.pc = "guard" /\ Verdict # "ok" /\ RefuseRead(Verdict)

\* The one statement.  A document that is not there and one out of reach are the same answer.
Select ==
  /\ req.pc = "guard" /\ Verdict = "ok"
  /\ \E a \in Answers(docs[Slot.coll], Slot, req.after, req.grant) :
       IF req.op = "get" /\ a.keys = <<>> THEN RefuseRead("not_found")
       ELSE /\ req' = [req EXCEPT !.pc = IF req.op = "get" THEN "rev" ELSE "audit", !.found = a,
                         !.read = IF req.op = "get" THEN docs[Slot.coll][a.keys[1]].rev ELSE 0]
            /\ UNCHANGED <<written, Others>>

\* A driver error: it is logged, and the reason code alone goes to the caller.
SelectFails == req.pc = "guard" /\ Verdict = "ok" /\ RefuseRead("internal_error")

\* currentRev: a statement of another transaction, on another pool, by the key alone.
ReadRev ==
  /\ req.pc = "rev"
  /\ LET doc == docs[Slot.coll][req.found.keys[1]] IN
     req' = [req EXCEPT !.pc = "audit", !.tag = IF doc = None THEN 0 ELSE doc.rev]
  /\ UNCHANGED <<written, Others>>

\* sealed: an allow whose row could not be written does not stand.
Sealed(recorded) == recorded = 1

\* audit.allow of the slot.
Allow == \E recorded \in {0, 1} :
  /\ req.pc = "audit"
  /\ written' = [written EXCEPT !.allowed = @ + recorded]
  /\ req' = After(Append(req.out, IF Sealed(recorded) THEN [ok |-> TRUE, reason |-> None, found |-> req.found]
                                  ELSE Refused("internal_error")))
  /\ UNCHANGED Others

\* audit.allow of the batch, or of the search.
AllowAll == \E recorded \in {0, 1} :
  /\ req.pc = "envelope"
  /\ written' = [written EXCEPT !.allowed = @ + recorded]
  /\ req' = [req EXCEPT !.pc = "answer", !.out = IF Sealed(recorded) THEN @ ELSE <<Refused("internal_error")>>]
  /\ UNCHANGED Others

\* fuseByRank: 1 / (60 + rank) sorts by rank, and ties by where they stood.
Outranks(x, y) == x.rank < y.rank \/ (x.rank = y.rank /\ x.slot < y.slot)
\* The merged page of a search.
MergedPage ==
  LET hits == UNION {{[slot |-> n, rank |-> m] : m \in DOMAIN req.out[n].found.keys} : n \in DOMAIN req.out}
      fused == SortedBy(hits, [x \in hits |-> {y \in hits : Outranks(y, x)}])
  IN Page(fused, 0, SearchLimit)

\* The answer reaches the caller, who goes on with what it asked for.
Answer ==
  LET first == req.out[1]  keys == {first.found.keys[n] : n \in DOMAIN first.found.keys} IN
  /\ req.pc = "answer"
  /\ walk' = IF walk = None THEN None
             ELSE IF ~first.ok THEN [walk EXCEPT !.next = None]
             ELSE [walk EXCEPT !.seen = [d \in DocKeys |-> @[d] + IF d \in keys THEN 1 ELSE 0],
                     !.next = first.found.next, !.ended = first.found.next = None]
  /\ got' = IF req.op = "get" /\ first.ok
            THEN [coll |-> Slot.coll, key |-> first.found.keys[1], read |-> req.read, tag |-> req.tag] ELSE got
  /\ req' = NoRead /\ UNCHANGED <<docs, held, written, pages, edits>>

---------------------------------------------------------------------------
(* What others do meanwhile *)

\* BOUND: at most MaxEdits.  A write gives the document a new revision.
WriteDocument(c, d, doc) ==
  /\ docs' = [docs EXCEPT ![c][d] = IF doc = None THEN None ELSE [doc EXCEPT !.rev = edits + 1]]
  /\ walk' = IF walk = None \/ walk.intent.coll # c THEN walk ELSE [walk EXCEPT !.steady = @ \ {d}]
  /\ edits < MaxEdits /\ edits' = edits + 1

Edit == \E c \in Colls, d \in DocKeys, doc \in Contents \cup {None} :
  /\ docs[c][d] # None \/ doc # None
  /\ WriteDocument(c, d, IF doc = None THEN None ELSE [doc EXCEPT !.data[Pk] = d])
  /\ UNCHANGED <<held, req, written, got, pages>>

\* A grant is approved, narrowed or revoked; the caller starts its walk again if it notices.
Regrant == \E c \in Colls : \E g \in GrantsFor[c] \ {held[c]} :
  /\ held' = [held EXCEPT ![c] = g]
  /\ edits < MaxEdits /\ edits' = edits + 1
  /\ req' = IF req.pc = "check" /\ Slot.coll = c THEN [req EXCEPT !.since = @ \cup {g}] ELSE req
  /\ walk' = IF walk = None \/ walk.intent.coll # c THEN walk ELSE [walk EXCEPT !.steady = {}]
  /\ UNCHANGED <<docs, written, got, pages>>

\* PUT with the ETag as If-Match: the revision is compared and the new one stored in one transaction.
PutDocument == \E doc \in Contents :
  /\ got # None /\ req.pc = "idle"
  /\ docs[got.coll][got.key] # None /\ docs[got.coll][got.key].rev = got.tag
  /\ WriteDocument(got.coll, got.key, [doc EXCEPT !.data[Pk] = got.key])
  /\ got' = None
  /\ UNCHANGED <<held, req, written, pages>>

QueryDone == req.pc = "idle" /\ pages = MaxPages /\ UNCHANGED queryVars

QueryNext ==
  \/ AskQuery \/ AskNext \/ AskBatch \/ AskGet \/ AskSearch
  \/ RefusedIntent \/ LoadGrant \/ RefusedGrant \/ Select \/ SelectFails \/ ReadRev
  \/ Allow \/ AllowAll \/ Answer
  \/ Edit \/ Regrant \/ PutDocument \/ QueryDone

QuerySpec == QueryInit /\ [][QueryNext]_queryVars

---------------------------------------------------------------------------
(* explainAccess *)

\* blockedBy, in the order of the rules, and the effect.
Explained(f, g) ==
  IF g = None THEN "none" ELSE IF f \notin g.fields THEN "none" ELSE IF f \in Masked(g) THEN "masked" ELSE "raw"
\* countMatched
Counted(D, g) == Cardinality({d \in DocKeys : D[d] # None /\ Reaches(D[d], g)})

\* listCollections: how many fields a collection is listed with, None for one without access.
Listed(g) == IF g # None /\ "read" \in g.verbs THEN Cardinality(g.fields \cap Cols) ELSE None
\* describeCollection: the fields that come back transformed are marked.
Described(g) == [f \in g.fields \cap Cols |-> f \in Masked(g)]

---------------------------------------------------------------------------
(* Properties *)

\* The verbs keep the shape of what they work on: a request has one result for every slot that is
\* over, and a page holds documents that differ.
QueryTypeOK ==
  /\ \A c \in Colls : held[c] \in GrantsFor[c] /\ \A d \in DocKeys : docs[c][d] # None => docs[c][d].data[Pk] = d
  /\ req.pc \in {"idle", "check", "guard", "rev", "audit", "envelope", "answer"}
  /\ req.pc \in {"check", "guard", "rev", "audit"} => Len(req.out) = req.at - 1
  /\ \A m, n \in DOMAIN req.found.keys : req.found.keys[m] = req.found.keys[n] => m = n
  /\ pages \in 0..MaxPages /\ edits \in 0..MaxEdits

\* Keyset pagination (rest-api.md:46): while others write, a walk under one grant returns a document
\* that stays as it is at most once, and by the page that ends the walk exactly once.
WalkSeesEach ==
  walk # None => \A d \in walk.steady :
    /\ walk.seen[d] <= 1
    /\ walk.ended /\ d \in Matching(docs[walk.intent.coll], walk.intent, None, walk.grant) => walk.seen[d] = 1

\* D with another value in a field that g does not show: outside the grant, or the same under the mask.
Disguised(D, d, f, v) == [D EXCEPT ![d].data[f] = v]
HiddenFrom(g, f, v, w) ==
  /\ f # Pk /\ \A x \in g.filters : x.field # f
  /\ f \notin g.fields \/ (f \in Masked(g) /\ Mask(v) = Mask(w))

\* Masking is for projection alone (collectComputed): what a query may answer, its page, its order
\* and its cursor, is the same whatever a document holds in a field the grant hides.
HiddenStaysHidden ==
  req.pc = "guard" /\ req.op \in {"query", "batch"} /\ Verdict = "ok" =>
    LET D == docs[Slot.coll]  i == Slot  g == req.grant IN
    \A d \in DocKeys, f \in Cols, v \in {1, 2, 3} :
      D[d] # None /\ HiddenFrom(g, f, D[d].data[f], v) =>
        Answers(Disguised(D, d, f, v), i, req.after, g) = Answers(D, i, req.after, g)

\* A document with an access control list is in no answer to a caller it does not name, not even
\* counted in an aggregate: every page is one that those documents do not change.
ListedForOthers ==
  req.pc = "guard" /\ Verdict = "ok" =>
    LET D == docs[Slot.coll]
        Mine == [d \in DocKeys |-> IF D[d] # None /\ D[d].readers # {} /\ D[d].readers \cap Me = {} THEN None ELSE D[d]]
    IN Answers(Mine, Slot, req.after, req.grant) = Answers(D, Slot, req.after, req.grant)

\* queryBatch: every slot is decided by a grant that was in force after the slot began, so that a
\* grant revoked during a batch, or a search, ends it for the slots that remain.
SlotByItsOwnGrant == req.pc = "guard" => req.grant \in req.since

\* Every answer that holds documents has its own allow row, and a batch or a search one more; a
\* slot without a row is an internal_error.
ReadsRecorded ==
  req.pc = "answer" /\ (\E n \in DOMAIN req.out : req.out[n].ok) =>
    written.allowed >= Cardinality({n \in DOMAIN req.out : req.out[n].ok}) + IF req.op \in {"batch", "search"} THEN 1 ELSE 0

\* fuseByRank: no collection crowds another out of the merged page; one has two hits more than
\* another only when that one has no more.
NoneCrowdedOut ==
  req.pc = "answer" /\ req.op = "search" =>
    LET Of(n) == Cardinality({m \in DOMAIN MergedPage : MergedPage[m].slot = n}) IN
    \A m, n \in DOMAIN req.out : Of(m) < Len(req.out[m].found.keys) => Of(n) <= Of(m) + 1

\* The three verbs that say what a query would return say the same, and it is true: a collection is
\* listed as granted when a query of it is not refused for want of a grant, described with the
\* fields the query returns, and explained field by field and with the count of the documents.
ExplainsTheQuery ==
  \A c \in Colls : LET g == held[c]  i == [NoIntent(c) EXCEPT !.limit = Cardinality(DocKeys)] IN
    /\ g = None => \A f \in Cols : Explained(f, g) = "none"
    /\ Listed(g) # None <=> Guard(i, None, g) # "no_grant"
    /\ Guard(i, None, g) = "ok" => \A a \in Answers(docs[c], i, None, g) :
         /\ Counted(docs[c], g) = Len(a.keys)
         /\ \A n \in DOMAIN a.keys :
              /\ DOMAIN a.rows[n] = DOMAIN Described(g) /\ Listed(g) = Cardinality(DOMAIN a.rows[n])
              /\ \A f \in Cols : LET v == docs[c][a.keys[n]].data[f] IN
                   CASE Explained(f, g) = "none" -> f \notin DOMAIN a.rows[n]
                     [] Explained(f, g) = "raw" -> a.rows[n][f] = v /\ ~Described(g)[f]
                     [] Explained(f, g) = "masked" -> a.rows[n][f] = Mask(v) /\ Described(g)[f]

\* If-Match is for concurrency control (read.ts:704): a PUT that carries the ETag of a GET is
\* accepted only over the revision whose content the GET returned.
PutOverWhatWasRead == [][PutDocument => docs[got.coll][got.key].rev = got.read]_queryVars

\* The promises of the read verbs, together: a page, a walk, a batch, a search and an explanation
\* hold what the grant of their moment reaches, and are recorded.
ReadsCorrect ==
  /\ QueryTypeOK /\ WalkSeesEach /\ HiddenStaysHidden /\ ListedForOthers /\ SlotByItsOwnGrant
  /\ ReadsRecorded /\ NoneCrowdedOut /\ ExplainsTheQuery
=============================================================================
