------------------------------ MODULE Revisions ------------------------------
(***************************************************************************)
(* The revisioned documents of one dataset collection, and the broker      *)
(* calls that write them: mutate (create, update, delete; direct or        *)
(* proposal_only), revertDocument and decideProposals (packages/broker,    *)
(* verbs/mutate.ts, verbs/propose.ts, verbs/revert.ts, db/revisions.ts).   *)
(*                                                                         *)
(* Every call runs in its own Postgres transaction under READ COMMITTED.   *)
(* Each action below is one SQL statement together with the code around    *)
(* it that touches no shared state.  revs is the committed table;          *)
(* mine[s] holds the row versions the transaction of s has written and not *)
(* yet committed, so a statement of s sees View(s), and a row that another *)
(* transaction has written makes a write to it wait.                       *)
(***************************************************************************)
EXTENDS Naturals, Sequences, FiniteSets

CONSTANTS
  Docs,       \* primary key values
  Fields,     \* data columns other than the primary key
  Values,     \* column values other than null
  Null,       \* SQL null
  Users,      \* callers that hold an active grant on the collection
  Proposers,  \* the users whose grant has mode proposal_only
  Approvers,  \* the users whose grant carries the approve verb
  Allowed,    \* Allowed[u]: the allowed_fields of u's grant
  Reach,      \* Reach[u]: the documents the document filter of u admits
  Patches,    \* the value maps callers submit
  Calls,      \* Calls[u]: the calls u makes; its grant carries the verbs they need
  MaxBatch,   \* the most decisions in one decideProposals call
  AuditOn,    \* audit.enabled
  Sessions,   \* connections of the write pool: calls that can overlap
  Revs,       \* the revision ids (_rev) the run may draw
  NoRev       \* "no revision"

Data == Values \cup {Null}
Document == [Fields -> Data]
Patch == UNION {[D -> Data] : D \in SUBSET Fields}
Ops == {"create", "update", "delete"}
Statuses == {"pending", "approved", "rejected", "superseded"}

ASSUME ConstantsAssumption ==
  /\ Docs # {} /\ Users # {}
  /\ Proposers \subseteq Users /\ Approvers \subseteq Users
  /\ Allowed \in [Users -> SUBSET Fields]
  /\ Reach \in [Users -> SUBSET Document]
  /\ Patches \subseteq Patch
  /\ Calls \in [Users -> SUBSET (Ops \cup {"revert", "decide"})]
  /\ MaxBatch \in Nat \ {0}
  /\ AuditOn \in BOOLEAN
  /\ NoRev \notin Revs

\* A row of the table: the _rev* bookkeeping columns and the data columns; base 0
\* stands for the null a create stores.
Row == [doc : Docs, seq : Nat, by : Users, op : Ops, status : Statuses,
        fields : SUBSET Fields, base : Nat, current : BOOLEAN, data : Document]

Actions == {"approve", "reject"}
Decision == [prop : Revs, action : Actions]

VARIABLES
  revs,     \* the committed table: a function from the ids in use to rows
  mine,     \* mine[s]: the uncommitted row versions of session s
  call,     \* call[s]: the call session s is serving
  audited   \* allow rows of the trail: <<revision or proposal, deciding user>>

vars == <<revs, mine, call, audited>>

---------------------------------------------------------------------------
(* Data *)

Blank == [f \in Fields |-> Null]
NoRows == [r \in {} |-> Blank]
NoValues == [f \in {} |-> Null]

\* Mutant: untouched columns are written as null.
Replaced(doc, patch) ==
  [f \in Fields |-> IF f \in DOMAIN patch THEN patch[f] ELSE Null]

\* nextDataRow: untouched columns are carried forward.
Overlay(doc, patch) ==
  [f \in Fields |-> IF f \in DOMAIN patch THEN patch[f] ELSE doc[f]]

\* The part of a document its listed fields make up.
Slice(doc, fs) == [f \in fs |-> doc[f]]

\* Row x written under id r: a new version of a row, or a new row.
Put(m, r, x) == [q \in DOMAIN m \cup {r} |-> IF q = r THEN x ELSE m[q]]

\* Table t with the row versions of m in place of, and added to, its own.
Over(m, t) == [r \in DOMAIN m \cup DOMAIN t |-> IF r \in DOMAIN m THEN m[r] ELSE t[r]]

\* What a statement of session s reads: committed rows and its own writes.
View(s) == Over(mine[s], revs)

CurrentOf(t, d) == {r \in DOMAIN t : t[r].doc = d /\ t[r].current}
ApprovedOf(t, d) == {r \in DOMAIN t : t[r].doc = d /\ t[r].status = "approved"}
PendingOf(t, d) == {r \in DOMAIN t : t[r].doc = d /\ t[r].status = "pending"}

\* currentRevision: the row of d with _current set, or none.
CurrentRevision(t, d) ==
  IF CurrentOf(t, d) = {} THEN NoRev ELSE CHOOSE r \in CurrentOf(t, d) : TRUE

\* randomUUID: an id no row has, committed or not, nor any audit row.
FreshRevs ==
  Revs \ (DOMAIN revs \cup (UNION {DOMAIN mine[s] : s \in Sessions}) \cup {a[1] : a \in audited})
NewRev == CHOOSE r \in FreshRevs : TRUE

---------------------------------------------------------------------------
(* Calls *)

Idle == [pc |-> "idle", user |-> CHOOSE u \in Users : TRUE, verb |-> "create",
         doc |-> CHOOSE d \in Docs : TRUE, patch |-> NoValues, expect |-> NoRev,
         target |-> NoRev, cur |-> NoRev, todo |-> <<>>, found |-> {}, done |-> {}]

Init ==
  /\ revs = NoRows
  /\ mine = [s \in Sessions |-> NoRows]
  /\ call = [s \in Sessions |-> Idle]
  /\ audited = {}

At(s, pc) == call[s].pc = pc

\* BOUND: a call begins while there is an id for it and for each open call; an
\* insert of a longer list that finds none fails.
Room == Cardinality(FreshRevs) > Cardinality({s \in Sessions : ~At(s, "idle")})

Goto(s, pc) == call' = [call EXCEPT ![s].pc = pc]

\* The transaction of s is over and its writes are gone; the caller has an answer.
Refuse(s) ==
  /\ call' = [call EXCEPT ![s] = Idle]
  /\ mine' = [mine EXCEPT ![s] = NoRows]
  /\ UNCHANGED <<revs, audited>>

\* Session t has a version of row r that it has not committed.
LockedByOther(s, r) == \E t \in Sessions \ {s} : r \in DOMAIN mine[t]

\* Session t has inserted a current row of d, or demoted the one there was.
Holds(t, d) ==
  \E r \in DOMAIN mine[t] : /\ mine[t][r].doc = d /\ mine[t][r].status = "approved"
                            /\ r \in DOMAIN revs => revs[r].current

\* Mutant: the index is not there.
NoIndex(s, d) == FALSE

\* The partial unique index on (workspace_id, pk) where _current: the insert of a
\* current row waits for a transaction whose outcome decides if there is another.
IndexBusy(s, d) == \E t \in Sessions \ {s} : Holds(t, d)

---------------------------------------------------------------------------
(* mutate: the checks before the transaction *)

\* A client sends If-Match (expect) with the revision it last saw, or does not.
\* A proposal_only grant is routed to proposeDataset before the loop over the
\* submitted fields, which a direct grant has to pass.
BeginMutate(s, u, verb, d, patch, expect) ==
  /\ At(s, "idle") /\ Room
  /\ verb \in Calls[u] \cap Ops
  /\ verb = "create" => DOMAIN patch # {}
  /\ verb = "delete" => DOMAIN patch = {}
  /\ u \notin Proposers => DOMAIN patch \subseteq Allowed[u]
  /\ expect = NoRev \/ (verb # "create" /\ expect \in CurrentOf(revs, d))
  /\ call' = [call EXCEPT ![s] = [Idle EXCEPT !.pc = "read", !.user = u, !.verb = verb,
                                    !.doc = d, !.patch = patch, !.expect = expect]]
  /\ UNCHANGED <<revs, mine, audited>>

\* revertDocument: one statement reads the target revision and the current one,
\* the fields that differ become the values of an ordinary update.
BeginRevert(s, u, d, target, expect) ==
  LET cur  == CurrentRevision(revs, d)
      diff == {f \in Fields : revs[target].data[f] # revs[cur].data[f]}
  IN /\ At(s, "idle") /\ Room
     /\ "revert" \in Calls[u]
     /\ target \in DOMAIN revs /\ revs[target].doc = d /\ revs[target].status # "superseded"
     /\ cur # NoRev
     /\ revs[cur].data \in Reach[u]
     /\ diff # {}
     /\ u \notin Proposers => diff \subseteq Allowed[u]
     /\ expect \in {NoRev, cur}
     /\ call' = [call EXCEPT ![s] = [Idle EXCEPT !.pc = "read", !.user = u, !.verb = "update",
                                       !.doc = d, !.patch = Slice(revs[target].data, diff),
                                       !.expect = expect, !.target = target]]
     /\ UNCHANGED <<revs, mine, audited>>

(* mutateDataset and proposeDataset: the transaction *)

\* create: the post-image must pass the filter and no document may be there; a
\* proposal is also turned away by a pending create of the same document.
ReadForCreate(s) ==
  LET c == call[s]
      clash == CurrentOf(View(s), c.doc) \cup
               IF c.user \in Proposers THEN PendingOf(View(s), c.doc) ELSE {}
  IN /\ At(s, "read") /\ c.verb = "create"
     /\ IF Overlay(Blank, c.patch) \in Reach[c.user] /\ clash = {}
          THEN Goto(s, "insert") /\ UNCHANGED <<revs, mine, audited>>
          ELSE Refuse(s)

\* Mutant: the filter is asked about the stored document only.
PreImageOnly(c, old) == old \in Reach[c.user]

\* The filter must admit the document as stored and, for an update, as written.
FilterAdmits(c, old) ==
  /\ old \in Reach[c.user]
  /\ c.verb = "update" => Overlay(old, c.patch) \in Reach[c.user]

\* Mutant: If-Match is not looked at.
AnyRevision(c, cur) == TRUE

\* The optimistic check, which the proposal path does not make.
AsExpected(c, cur) == c.user \notin Proposers /\ c.expect # NoRev => c.expect = cur

\* update, delete: what currentRevision answers is admitted, or the call is refused.
ReadForRevise(s) ==
  LET c == call[s]
      cur == CurrentRevision(View(s), c.doc)
  IN /\ At(s, "read") /\ c.verb \in {"update", "delete"}
     /\ IF cur # NoRev /\ FilterAdmits(c, View(s)[cur].data) /\ AsExpected(c, cur)
          THEN /\ call' = [call EXCEPT ![s].cur = cur,
                             ![s].pc = IF c.user \in Proposers THEN "insert" ELSE "demote"]
               /\ UNCHANGED <<revs, mine, audited>>
          ELSE Refuse(s)

\* demoteRevision: update ... set _current = false where _rev = cur.  It waits
\* for a transaction that wrote the row, then applies to the row as committed.
Demote(s) ==
  LET r == call[s].cur
  IN /\ At(s, "demote")
     /\ ~LockedByOther(s, r)
     /\ mine' = [mine EXCEPT ![s] = Put(mine[s], r, [View(s)[r] EXCEPT !.current = FALSE])]
     /\ Goto(s, "insert")
     /\ UNCHANGED <<revs, audited>>

---------------------------------------------------------------------------
(* decideProposals: one transaction for a list of decisions *)

\* A list without duplicates of proposals pending in listProposals; any may be decided
\* by the time LoadPending asks again.
BeginDecide(s, u, todo) ==
  /\ At(s, "idle") /\ Room
  /\ "decide" \in Calls[u]
  /\ Len(todo) \in 1 .. MaxBatch
  /\ \A i, j \in 1 .. Len(todo) : i # j => todo[i].prop # todo[j].prop
  /\ \A i \in 1 .. Len(todo) : /\ todo[i].prop \in DOMAIN revs
                              /\ revs[todo[i].prop].status = "pending"
  /\ call' = [call EXCEPT ![s] = [Idle EXCEPT !.pc = "load", !.user = u, !.verb = "decide",
                                    !.todo = todo]]
  /\ UNCHANGED <<revs, mine, audited>>

\* loadPendingMany: which of the ids are pending, asked once and not locked.
LoadPending(s) ==
  /\ At(s, "load")
  /\ call' = [call EXCEPT ![s].pc = "next",
       ![s].found = {p \in DOMAIN View(s) : /\ \E i \in 1 .. Len(call[s].todo) : call[s].todo[i].prop = p
                                           /\ View(s)[p].status = "pending"}]
  /\ UNCHANGED <<revs, mine, audited>>

Proposal(s) == View(s)[Head(call[s].todo).prop]

\* Mutant: no four-eyes check.
DecidesOwn(u, row, action) ==
  u \in Approvers /\ (action = "approve" => row.fields \subseteq Allowed[u])

\* authorizeDecision: four eyes and the approve verb for both actions; an
\* approval also needs read coverage of every field the proposal lists.
MayDecide(u, row, action) ==
  /\ u \in Approvers
  /\ row.by # u
  /\ action = "approve" => row.fields \subseteq Allowed[u]

\* The head of the list: authorizeDecision, and for an approval the statement
\* of resolveBase that reads the revision the proposal will be merged onto.
NextDecision(s) ==
  LET c == call[s]
      h == Head(c.todo)
      p == Proposal(s)
      t == View(s)
      cur == CurrentRevision(t, p.doc)
      reachable == IF p.op = "create" THEN p.data \in Reach[c.user]
                   ELSE cur # NoRev /\ t[cur].data \in Reach[c.user]
  IN /\ At(s, "next")
     /\ IF h.prop \in c.found /\ MayDecide(c.user, p, h.action)
             /\ (h.action = "approve" => reachable)
          THEN /\ call' = [call EXCEPT ![s].cur = IF p.op = "create" THEN NoRev ELSE cur,
                             ![s].doc = p.doc,
                             ![s].pc = IF h.action = "reject" THEN "retire"
                                       ELSE IF p.op = "create" THEN "insert" ELSE "scan"]
               /\ UNCHANGED <<revs, mine, audited>>
          ELSE Refuse(s)

\* Mutant: the proposal is promoted as it was stored.
AsProposed(s) == Proposal(s).data

\* mergeRevision: the current document with the fields of the proposal over it.
Merged(s) ==
  LET p == Proposal(s)
  IN IF call[s].cur = NoRev THEN p.data
     ELSE Overlay(View(s)[call[s].cur].data, Slice(p.data, p.fields))

\* Mutant: the first revision after the base is not looked at.
ChangedLater(t, p) ==
  UNION {t[r].fields : r \in {q \in ApprovedOf(t, p.doc) : t[q].seq > p.base + 1}}

\* The fields approved revisions have changed since the base of the proposal.
ChangedSince(t, p) ==
  UNION {t[r].fields : r \in {q \in ApprovedOf(t, p.doc) : t[q].seq > p.base}}

\* The rest of resolveBase, and the filter on the merged document.
ScanConflicts(s) ==
  LET p == Proposal(s)
  IN /\ At(s, "scan")
     /\ IF /\ p.fields \cap ChangedSince(View(s), p) = {}
           /\ p.op = "update" => Merged(s) \in Reach[call[s].user]
          THEN Goto(s, "demote") /\ UNCHANGED <<revs, mine, audited>>
          ELSE Refuse(s)

---------------------------------------------------------------------------
(* The statements the write paths share *)

\* insertRevision, as mutateDataset and proposeDataset call it ...
WrittenRow(s) ==
  LET c == call[s]
      fresh == c.verb = "create"
      direct == c.user \notin Proposers
      seq == IF fresh THEN 0 ELSE View(s)[c.cur].seq
      old == IF fresh THEN Blank ELSE View(s)[c.cur].data
  IN [doc |-> c.doc, seq |-> seq + 1, by |-> c.user, op |-> c.verb,
      status |-> IF direct THEN "approved" ELSE "pending",
      fields |-> DOMAIN c.patch, base |-> seq, current |-> direct,
      data |-> Overlay(old, c.patch)]

\* Mutant: numbered after every row of the document, pending ones included.
NumberedByMax(s) ==
  LET p == Proposal(s)
      seqs == {View(s)[r].seq : r \in {q \in DOMAIN View(s) : View(s)[q].doc = p.doc}}
  IN [p EXCEPT !.seq = 1 + CHOOSE n \in seqs : \A m \in seqs : m <= n,
               !.status = "approved", !.current = TRUE, !.data = Merged(s)]

\* ... and as commitRevision does: authorship stays with the proposer.
MergedRow(s) ==
  LET p == Proposal(s)
      cur == call[s].cur
  IN [p EXCEPT !.seq = IF cur = NoRev THEN 1 ELSE View(s)[cur].seq + 1,
               !.status = "approved", !.current = TRUE, !.data = Merged(s)]

NewRow(s) == IF call[s].verb = "decide" THEN MergedRow(s) ELSE WrittenRow(s)

\* The unique index answers a second current row with 23505, which rolls back.
Insert(s) ==
  LET x == NewRow(s)
      n == NewRev
  IN /\ At(s, "insert")
     /\ x.current => ~IndexBusy(s, x.doc)
     /\ IF FreshRevs = {} \/ (x.current /\ CurrentOf(View(s), x.doc) # {})
          THEN Refuse(s)
          ELSE /\ mine' = [mine EXCEPT ![s] = Put(mine[s], n, x)]
               /\ call' = [call EXCEPT ![s].done = @ \cup {n},
                             ![s].pc = IF call[s].verb = "decide" THEN "retire" ELSE "audit"]
               /\ UNCHANGED <<revs, audited>>

\* The proposal row: superseded by commitRevision, rejected by applyRejection.
\* Neither statement asks what the status is by now.
Retire(s) ==
  LET h == Head(call[s].todo)
      status == IF h.action = "approve" THEN "superseded" ELSE "rejected"
  IN /\ At(s, "retire")
     /\ ~LockedByOther(s, h.prop)
     /\ mine' = [mine EXCEPT ![s] = Put(mine[s], h.prop, [Proposal(s) EXCEPT !.status = status])]
     /\ call' = [call EXCEPT ![s].todo = Tail(@),
                   ![s].done = IF h.action = "reject" THEN @ \cup {h.prop} ELSE @,
                   ![s].pc = IF Tail(call[s].todo) = <<>> THEN "audit" ELSE "next"]
     /\ UNCHANGED <<revs, audited>>

\* The allow rows go through the app pool: they stand whatever becomes of s.
Audit(s) ==
  /\ At(s, "audit")
  /\ audited' = audited \cup (IF AuditOn THEN call[s].done \X {call[s].user} ELSE {})
  /\ Goto(s, "commit")
  /\ UNCHANGED <<revs, mine>>

\* Mutant: the outcome of the audit write is not looked at.
AuditUnchecked(s) == At(s, "audit") /\ AuditOn /\ Goto(s, "commit") /\ UNCHANGED <<revs, mine, audited>>

\* assertRecorded: a row that cannot be written undoes the whole transaction;
\* the rows of the decisions before it stay.
AuditFails(s) ==
  /\ At(s, "audit") /\ AuditOn
  /\ \E A \in SUBSET call[s].done :
       /\ A # call[s].done
       /\ audited' = audited \cup (A \X {call[s].user})
  /\ call' = [call EXCEPT ![s] = Idle]
  /\ mine' = [mine EXCEPT ![s] = NoRows]
  /\ UNCHANGED revs

Commit(s) ==
  /\ At(s, "commit")
  /\ revs' = View(s)
  /\ mine' = [mine EXCEPT ![s] = NoRows]
  /\ call' = [call EXCEPT ![s] = Idle]
  /\ UNCHANGED audited

\* The process dies or its connection drops: Postgres rolls back.
Lost(s) == ~At(s, "idle") /\ Refuse(s)

---------------------------------------------------------------------------
(* Lock waits and the deadlock detector of Postgres *)

WaitsFor(s, t) ==
  /\ s # t
  /\ \/ At(s, "demote") /\ call[s].cur \in DOMAIN mine[t]
     \/ At(s, "retire") /\ Head(call[s].todo).prop \in DOMAIN mine[t]
     \/ At(s, "insert") /\ NewRow(s).current /\ Holds(t, NewRow(s).doc)

\* Every member of some set of sessions waits for another member of it.
Deadlocked(s) ==
  \E C \in SUBSET Sessions :
    /\ s \in C
    /\ \A t \in C : /\ \E u \in C : WaitsFor(t, u)
                    /\ \E u \in C : WaitsFor(u, t)

\* Mutant: nobody looks for deadlocks.
NoDetector(s) == FALSE /\ Refuse(s)

DeadlockVictim(s) == Deadlocked(s) /\ Refuse(s)

---------------------------------------------------------------------------
(* The specification *)

Begin(s) ==
  /\ At(s, "idle") /\ Room
  /\ \E u \in Users :
       \/ \E d \in Docs : \E e \in CurrentOf(revs, d) \cup {NoRev} :
            \/ \E verb \in Ops : \E patch \in Patches : BeginMutate(s, u, verb, d, patch, e)
            \/ \E target \in DOMAIN revs : BeginRevert(s, u, d, target, e)
       \/ \E n \in 1 .. MaxBatch :
            \E todo \in [1 .. n -> [prop : DOMAIN revs, action : Actions]] : BeginDecide(s, u, todo)

Read(s) == ReadForCreate(s) \/ ReadForRevise(s) \/ LoadPending(s) \/ NextDecision(s)
             \/ ScanConflicts(s)
Write(s) == Demote(s) \/ Insert(s) \/ Retire(s)
Finish(s) == Audit(s) \/ AuditFails(s) \/ Commit(s) \/ DeadlockVictim(s)

\* BOUND: every id is drawn and every call has returned.
Exhausted == ~Room /\ (\A s \in Sessions : At(s, "idle")) /\ UNCHANGED vars

Next == (\E s \in Sessions : Begin(s) \/ Read(s) \/ Write(s) \/ Finish(s) \/ Lost(s)) \/ Exhausted

Spec == Init /\ [][Next]_vars

\* The event loop runs a call whose statement has answered, and Postgres hands
\* a lock to its waiters in turn.
Fairness == \A s \in Sessions : WF_vars(Read(s) \/ Finish(s)) /\ SF_vars(Write(s))

FairSpec == Spec /\ Fairness
---------------------------------------------------------------------------
(* Properties *)

CallType ==
  [pc : {"idle", "read", "demote", "load", "next", "scan", "insert", "retire", "audit", "commit"},
   user : Users, verb : Ops \cup {"decide"}, doc : Docs, expect : Revs \cup {NoRev},
   target : Revs \cup {NoRev}, cur : Revs \cup {NoRev}, found : SUBSET Revs,
   done : SUBSET Revs, patch : Patch, todo : Seq(Decision)]

IsTable(t) == DOMAIN t \subseteq Revs /\ t \in [DOMAIN t -> Row]

\* The committed table and the uncommitted versions are rows keyed by revision.
TypeOK ==
  /\ IsTable(revs)
  /\ DOMAIN mine = Sessions /\ \A s \in Sessions : IsTable(mine[s])
  /\ call \in [Sessions -> CallType]
  /\ audited \subseteq Revs \X Users

OneCurrentIn(t, d) ==
  IF ApprovedOf(t, d) = {} THEN CurrentOf(t, d) = {}
  ELSE \E r \in ApprovedOf(t, d) : /\ CurrentOf(t, d) = {r}
                                   /\ \A q \in ApprovedOf(t, d) : t[q].seq <= t[r].seq

\* A document that has a state has one current revision, its latest one: no
\* interleaving of writers and deciders leaves it with two, with none, or with an
\* older one, and nothing pending or rejected is ever current.
OneCurrent == \A d \in Docs : OneCurrentIn(revs, d)

ContiguousIn(t, d) ==
  \A r \in ApprovedOf(t, d) :
    /\ t[r].seq >= 1
    /\ \A q \in ApprovedOf(t, d) : t[q].seq = t[r].seq => q = r
    /\ t[r].seq > 1 => \E q \in ApprovedOf(t, d) : t[q].seq = t[r].seq - 1

\* mergeRevision: "_rev_seq counts the states the document actually held" - the
\* approved revisions of a document are numbered 1 .. n without a gap or a repeat,
\* whoever wrote or approved them.
Contiguous == \A d \in Docs : ContiguousIn(revs, d)

CarriedForwardIn(t, d) ==
  \A r, q \in ApprovedOf(t, d) :
    t[r].seq = t[q].seq + 1 => \A f \in Fields \ t[r].fields : t[r].data[f] = t[q].data[f]

\* What a revision does not claim to change is what the revision before it held:
\* two writers, or a writer and an approval, never undo each other unseen.
NoLostUpdate == \A d \in Docs : CarriedForwardIn(revs, d)

\* resolveBase: an approved proposal never overwrites a field that an approved
\* revision changed after the proposal was written, even one that commits while
\* the approval runs.
ProposalFresh ==
  \A d \in Docs : \A r, q \in ApprovedOf(revs, d) :
    revs[r].by \in Proposers /\ revs[r].base < revs[q].seq /\ revs[q].seq < revs[r].seq
      => revs[q].fields \cap revs[r].fields = {}

\* assertRecorded: with auditing on, nothing is committed that the trail does not
\* hold, a rejection included.
AuditedWrites ==
  AuditOn => \A r \in DOMAIN revs :
    \E u \in Users : /\ <<r, u>> \in audited
                     /\ revs[r].status = "rejected" => u # revs[r].by

\* admitsPostImage: no caller, direct or approving, moves a document to a state the
\* filter of its own grant does not reach, whatever committed in the meantime.
NoEscape ==
  \A r \in DOMAIN revs : \A u \in Users :
    revs[r].status = "approved" /\ revs[r].op # "delete" /\ <<r, u>> \in audited
      => revs[r].data \in Reach[u]

\* checkFourEyes: what a proposer wrote becomes a state of the document only by
\* the decision of another user, who may approve and may read every field of it.
SecondPerson ==
  AuditOn => \A r \in DOMAIN revs :
    revs[r].status = "approved" /\ revs[r].by \in Proposers =>
      \E u \in Approvers \ {revs[r].by} :
        <<r, u>> \in audited /\ revs[r].fields \subseteq Allowed[u]

\* If-Match: a direct write that names the revision it saw commits only onto that
\* revision; a writer that committed since makes it fail, not overwrite.
CommitsOnExpected ==
  [][\A s \in Sessions :
       LET c == call[s]
       IN Commit(s) /\ c.expect # NoRev /\ c.user \notin Proposers
            => revs[c.expect].current /\ ~revs'[c.expect].current]_vars

\* revertDocument: "Restore a document to a past revision" - a revert that sends the
\* revision it saw commits the state of the revision it was asked for.
GuardedRevertRestores ==
  [][\A s \in Sessions :
       LET c == call[s]
       IN Commit(s) /\ c.target # NoRev /\ c.expect # NoRev /\ c.user \notin Proposers
            => \A r \in c.done : revs'[r].data = revs'[c.target].data]_vars

\* propose.ts: "pending -> approved | rejected" - a decided proposal stays decided.
DecidedOnce ==
  [][\A r \in DOMAIN revs : revs[r].status \in {"rejected", "superseded"}
       => revs'[r].status = revs[r].status]_vars

\* Writers, deciders and the deadlocks between them: every call is answered.
EveryCallReturns == \A s \in Sessions : ~At(s, "idle") ~> At(s, "idle")

---------------------------------------------------------------------------
(* The states a document has held, oldest first. *)

States(d) ==
  LET A == ApprovedOf(revs, d)
      nth(n) == CHOOSE r \in A : revs[r].seq = n
      held(x) == [op |-> x.op, fields |-> x.fields, data |-> x.data]
  IN [n \in 1 .. Cardinality(A) |-> held(revs[nth(n)])]

\* The table is an append-only history of whole documents: every commit extends it
\* by states that change what they name, the first one a create and no other.
History == INSTANCE DocumentHistory WITH hist <- [d \in Docs |-> States(d)]
IsDocumentHistory == History!Spec

\* If-Match, of a write and of a revert: what commits replaced the revision the caller named, so
\* a guarded revert leaves the document as it was.
IfMatchHolds == CommitsOnExpected /\ GuardedRevertRestores
=============================================================================
