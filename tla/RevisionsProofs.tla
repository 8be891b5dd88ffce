--------------------------- MODULE RevisionsProofs ---------------------------
(***************************************************************************)
(* Theorems about Revisions, for every number of documents, callers,       *)
(* sessions and revisions.                                                 *)
(***************************************************************************)
EXTENDS Revisions, TLAPS

---------------------------------------------------------------------------
(* The inductive invariant: what the row locks and the reads guarantee *)

\* No row is being written by two transactions.
RowLocks ==
  \A s, t \in Sessions : s # t => DOMAIN mine[s] \cap DOMAIN mine[t] = {}

\* Two versions of one row: they differ in _current and, unless approved, in status.
SameState(x, y) ==
  /\ x.doc = y.doc /\ x.seq = y.seq /\ x.fields = y.fields /\ x.data = y.data
  /\ x.by = y.by /\ x.op = y.op /\ x.base = y.base
  /\ x.status = "approved" <=> y.status = "approved"

\* A new version of a committed row is not current, and is the same state.
Versions ==
  \A s \in Sessions : \A r \in DOMAIN mine[s] \cap DOMAIN revs :
    ~mine[s][r].current /\ SameState(mine[s][r], revs[r])

OnlyApproved(t) == \A r \in DOMAIN t : t[r].current => t[r].status = "approved"

\* What is current is approved.
CurrentIsApproved == OnlyApproved(revs) /\ \A s \in Sessions : OnlyApproved(mine[s])

\* What a call has read is still there.
HasReadIn(s) ==
  LET c == call[s]
  IN /\ c.found \subseteq DOMAIN View(s)
     /\ \A p \in c.found : View(s)[p].status # "approved"
     /\ c.pc \in {"scan", "demote", "insert"} /\ c.cur # NoRev =>
          /\ c.cur \in DOMAIN View(s)
          /\ View(s)[c.cur].status = "approved"
          /\ View(s)[c.cur].doc = c.doc
     /\ c.verb = "decide" /\ c.pc \in {"scan", "demote", "insert", "retire"} =>
          /\ Head(c.todo).prop \in c.found
          /\ View(s)[Head(c.todo).prop].doc = c.doc

\* Where a call can be.
PathOf(s) ==
  LET c == call[s]
  IN /\ At(s, "idle") => mine[s] = NoRows
     /\ c.pc \in {"scan", "demote"} => c.cur # NoRev
     /\ c.verb = "decide" /\ c.pc \in {"load", "next", "scan", "demote", "insert", "retire"} => c.todo # <<>>
     /\ c.pc \in {"load", "next", "scan", "retire"} => c.verb = "decide"
     /\ c.pc = "read" => c.verb # "decide" /\ c.cur = NoRev
     /\ c.pc = "demote" => c.verb # "create" /\ (c.verb = "decide" \/ c.user \notin Proposers)
     /\ c.pc = "insert" /\ c.verb # "decide" => (c.cur = NoRev <=> c.verb = "create")

Reads == \A s \in Sessions : HasReadIn(s) /\ PathOf(s)

LInv == TypeOK /\ RowLocks /\ Versions /\ CurrentIsApproved /\ Reads

---------------------------------------------------------------------------
(* The inductive invariant: the order of the states of a document *)

\* The states a document has held are in order in table t.
WellKept(t, d) == OneCurrentIn(t, d) /\ ContiguousIn(t, d) /\ CarriedForwardIn(t, d)

\* At most one transaction is changing what the current revision of d is ...
Exclusive == \A d \in Docs : \A s, t \in Sessions : Holds(s, d) /\ Holds(t, d) => s = t

\* ... and it has demoted the committed one.
Demotes ==
  \A d \in Docs : \A t \in Sessions :
    Holds(t, d) => \A r \in CurrentOf(revs, d) : r \in DOMAIN mine[t]

\* The calls that are to insert a current revision after having demoted one.
Demoted(s) == At(s, "insert") /\ call[s].cur # NoRev
                /\ (call[s].verb = "decide" \/ call[s].user \notin Proposers)

\* What session s saw before it demoted the revision it has read.
Before(s) == LET r == call[s].cur IN Put(View(s), r, [View(s)[r] EXCEPT !.current = TRUE])

ViewKept(s, d) ==
  \/ WellKept(View(s), d)
  \/ /\ Demoted(s) /\ call[s].doc = d
     /\ call[s].cur \in DOMAIN mine[s]
     /\ call[s].cur \in DOMAIN revs => revs[call[s].cur].current
     /\ WellKept(Before(s), d)

Ordered ==
  /\ Exclusive /\ Demotes
  /\ \A d \in Docs : WellKept(revs, d) /\ \A s \in Sessions : ViewKept(s, d)

IInv == LInv /\ Ordered

---------------------------------------------------------------------------
(* Tables *)

LEMMA PutType ==
  ASSUME NEW m, IsTable(m), NEW r \in Revs, NEW x \in Row
  PROVE  IsTable(Put(m, r, x))
BY DEF IsTable, Put

LEMMA OverType ==
  ASSUME NEW m, IsTable(m), NEW t, IsTable(t)
  PROVE  IsTable(Over(m, t))
BY DEF IsTable, Over

LEMMA EmptyTables == IsTable(NoRows) /\ DOMAIN NoRows = {}
BY DEF IsTable, NoRows

LEMMA DataTypes ==
  /\ Blank \in Document
  /\ \A x \in Document : \A fs \in SUBSET Fields : Slice(x, fs) \in [fs -> Data]
  /\ \A x \in Document : \A fs \in SUBSET Fields : \A p \in [fs -> Data] : Overlay(x, p) \in Document
BY DEF Blank, Document, Slice, Overlay, Data

LEMMA IdleType == Idle \in CallType
<1>1. (CHOOSE u \in Users : TRUE) \in Users /\ (CHOOSE d \in Docs : TRUE) \in Docs
  BY ConstantsAssumption
<1>2. NoValues \in Patch
  <2>1. NoValues \in [{} -> Data]
    BY DEF NoValues
  <2> QED BY <2>1 DEF Patch
<1>3. <<>> \in Seq(Decision)
  OBVIOUS
<1> QED BY <1>1, <1>2, <1>3 DEF Idle, CallType, Ops

LEMMA FreshRev ==
  ASSUME TypeOK, FreshRevs # {}
  PROVE  /\ NewRev \in Revs /\ NewRev \notin DOMAIN revs
         /\ \A s \in Sessions : NewRev \notin DOMAIN mine[s]
<1>1. NewRev \in FreshRevs
  BY DEF NewRev
<1> QED BY <1>1 DEF FreshRevs, TypeOK

LEMMA ViewType ==
  ASSUME TypeOK, NEW s \in Sessions
  PROVE  IsTable(View(s)) /\ DOMAIN View(s) = DOMAIN mine[s] \cup DOMAIN revs
BY OverType DEF TypeOK, View, Over

\* A row that currentRevision answers.
LEMMA CurrentRow ==
  ASSUME NEW t, NEW d, CurrentRevision(t, d) # NoRev
  PROVE  /\ CurrentRevision(t, d) \in DOMAIN t
         /\ t[CurrentRevision(t, d)].doc = d /\ t[CurrentRevision(t, d)].current
BY DEF CurrentRevision, CurrentOf

---------------------------------------------------------------------------
(* Type correctness, step by step *)

LEMMA InitType == Init => TypeOK
BY EmptyTables, IdleType DEF Init, TypeOK

LEMMA RefuseType ==
  ASSUME TypeOK, NEW s \in Sessions, mine' = [mine EXCEPT ![s] = NoRows],
         call' = [call EXCEPT ![s] = Idle], revs' = revs,
         audited' \subseteq Revs \X Users
  PROVE  TypeOK'
BY EmptyTables, IdleType DEF TypeOK

LEMMA CallTypeStep ==
  ASSUME TypeOK, NEW s \in Sessions, NEW c \in CallType,
         call' = [call EXCEPT ![s] = c], UNCHANGED <<revs, mine, audited>>
  PROVE  TypeOK'
BY DEF TypeOK

LEMMA PutTypeStep ==
  ASSUME TypeOK, NEW s \in Sessions, NEW c \in CallType, NEW r \in Revs, NEW x \in Row,
         mine' = [mine EXCEPT ![s] = Put(mine[s], r, x)],
         call' = [call EXCEPT ![s] = c], UNCHANGED <<revs, audited>>
  PROVE  TypeOK'
<1>1. IsTable(Put(mine[s], r, x))
  BY PutType DEF TypeOK
<1> QED BY <1>1 DEF TypeOK

LEMMA BeginType ==
  ASSUME TypeOK, NEW s \in Sessions, Begin(s)
  PROVE  TypeOK'
<1>1. PICK u \in Users :
        \/ \E d \in Docs : \E e \in CurrentOf(revs, d) \cup {NoRev} :
             \/ \E verb \in Ops : \E patch \in Patches : BeginMutate(s, u, verb, d, patch, e)
             \/ \E target \in DOMAIN revs : BeginRevert(s, u, d, target, e)
        \/ \E n \in 1 .. MaxBatch :
             \E todo \in [1 .. n -> [prop : DOMAIN revs, action : Actions]] : BeginDecide(s, u, todo)
  BY DEF Begin
<1>2. ASSUME NEW d \in Docs, NEW e \in CurrentOf(revs, d) \cup {NoRev}, NEW verb \in Ops,
             NEW patch \in Patches, BeginMutate(s, u, verb, d, patch, e)
      PROVE  TypeOK'
  <2>1. patch \in Patch
    BY ConstantsAssumption
  <2>2. e \in Revs \cup {NoRev}
    BY DEF CurrentOf, TypeOK, IsTable
  <2> DEFINE c == [Idle EXCEPT !.pc = "read", !.user = u, !.verb = verb, !.doc = d,
                               !.patch = patch, !.expect = e]
  <2>3. c \in CallType
    BY <2>1, <2>2, IdleType DEF CallType
  <2> QED BY <1>2, <2>3, CallTypeStep DEF BeginMutate
<1>3. ASSUME NEW d \in Docs, NEW e \in CurrentOf(revs, d) \cup {NoRev}, NEW target \in DOMAIN revs,
             BeginRevert(s, u, d, target, e)
      PROVE  TypeOK'
  <2> DEFINE diff == {f \in Fields : revs[target].data[f] # revs[CurrentRevision(revs, d)].data[f]}
             p == Slice(revs[target].data, diff)
  <2>1. p \in Patch
    <3>1. diff \in SUBSET Fields /\ revs[target].data \in Document
      BY DEF TypeOK, IsTable, Row
    <3>2. p \in [diff -> Data]
      BY <3>1, DataTypes
    <3> QED BY <3>1, <3>2 DEF Patch
  <2>2. e \in Revs \cup {NoRev} /\ target \in Revs
    BY DEF CurrentOf, TypeOK, IsTable
  <2> DEFINE c == [Idle EXCEPT !.pc = "read", !.user = u, !.verb = "update", !.doc = d,
                               !.patch = p, !.expect = e, !.target = target]
  <2>3. c \in CallType
    BY <2>1, <2>2, IdleType DEF CallType, Ops
  <2> QED BY <1>3, <2>3, CallTypeStep DEF BeginRevert
<1>4. ASSUME NEW n \in 1 .. MaxBatch,
             NEW todo \in [1 .. n -> [prop : DOMAIN revs, action : Actions]], BeginDecide(s, u, todo)
      PROVE  TypeOK'
  <2>1. todo \in Seq(Decision)
    <3>1. n \in Nat
      BY ConstantsAssumption
    <3>2. todo \in [1 .. n -> Decision]
      BY DEF Decision, TypeOK, IsTable
    <3> QED BY <3>1, <3>2
  <2> DEFINE c == [Idle EXCEPT !.pc = "load", !.user = u, !.verb = "decide", !.todo = todo]
  <2>2. c \in CallType
    BY <2>1, IdleType DEF CallType
  <2> QED BY <1>4, <2>2, CallTypeStep DEF BeginDecide
<1> QED BY <1>1, <1>2, <1>3, <1>4
\* The proposal a call is deciding.
LEMMA ProposalRow ==
  ASSUME TypeOK, NEW s \in Sessions, HasReadIn(s), Head(call[s].todo).prop \in call[s].found
  PROVE  /\ Head(call[s].todo).prop \in DOMAIN View(s) /\ Head(call[s].todo).prop \in Revs
         /\ Proposal(s) \in Row /\ Proposal(s).status # "approved"
BY ViewType DEF HasReadIn, Proposal, IsTable

LEMMA ReadType ==
  ASSUME TypeOK, Reads, NEW s \in Sessions,
         ReadForCreate(s) \/ ReadForRevise(s) \/ LoadPending(s) \/ NextDecision(s)
           \/ ScanConflicts(s)
  PROVE  TypeOK'
<1> DEFINE c == call[s]
<1>0. c \in CallType
  BY DEF TypeOK
<1>1. ASSUME Refuse(s) PROVE TypeOK'
  BY <1>1, RefuseType DEF Refuse, TypeOK
<1>2. ASSUME NEW pc \in {"scan", "demote", "insert", "retire"}, Goto(s, pc), UNCHANGED <<revs, mine, audited>>
      PROVE  TypeOK'
  <2>1. [c EXCEPT !.pc = pc] \in CallType
    BY <1>0 DEF CallType
  <2>2. call' = [call EXCEPT ![s] = [c EXCEPT !.pc = pc]]
    BY <1>2 DEF Goto, TypeOK
  <2> QED BY <1>2, <2>1, <2>2, CallTypeStep
<1>3. CASE ReadForCreate(s)
  BY <1>1, <1>2, <1>3 DEF ReadForCreate
<1>4. CASE ReadForRevise(s)
  <2> DEFINE cur == CurrentRevision(View(s), c.doc)
             next == [c EXCEPT !.cur = cur, !.pc = IF c.user \in Proposers THEN "insert" ELSE "demote"]
  <2>1. ASSUME cur # NoRev PROVE next \in CallType
    <3>1. cur \in Revs
      BY <2>1, CurrentRow, ViewType DEF IsTable
    <3> QED BY <1>0, <3>1 DEF CallType
  <2>2. ASSUME cur # NoRev, call' = [call EXCEPT ![s] = next], UNCHANGED <<revs, mine, audited>>
        PROVE  TypeOK'
    BY <2>1, <2>2, CallTypeStep
  <2>3. \/ cur # NoRev /\ call' = [call EXCEPT ![s] = next] /\ UNCHANGED <<revs, mine, audited>>
        \/ Refuse(s)
    BY <1>4 DEF ReadForRevise, TypeOK
  <2> QED BY <1>1, <2>2, <2>3
<1>5. CASE LoadPending(s)
  <2> DEFINE found == {p \in DOMAIN View(s) : /\ \E i \in 1 .. Len(c.todo) : c.todo[i].prop = p
                                              /\ View(s)[p].status = "pending"}
             next == [c EXCEPT !.pc = "next", !.found = found]
  <2>1. found \in SUBSET Revs
    BY ViewType DEF IsTable
  <2>2. next \in CallType
    BY <1>0, <2>1 DEF CallType
  <2>3. call' = [call EXCEPT ![s] = next]
    BY <1>5 DEF LoadPending, TypeOK
  <2> QED BY <1>5, <2>2, <2>3, CallTypeStep DEF LoadPending
<1>6. CASE NextDecision(s)
  <2> DEFINE h == Head(c.todo)
             p == Proposal(s)
             cur == CurrentRevision(View(s), p.doc)
             next == [c EXCEPT !.cur = IF p.op = "create" THEN NoRev ELSE cur, !.doc = p.doc,
                               !.pc = IF h.action = "reject" THEN "retire"
                                      ELSE IF p.op = "create" THEN "insert" ELSE "scan"]
  <2>1. ASSUME h.prop \in c.found PROVE next \in CallType
    <3>1. cur \in Revs \cup {NoRev}
      BY CurrentRow, ViewType DEF IsTable
    <3>2. p.doc \in Docs
      BY <2>1, ProposalRow DEF Reads, Row
    <3> QED BY <1>0, <3>1, <3>2 DEF CallType
  <2>2. \/ h.prop \in c.found /\ call' = [call EXCEPT ![s] = next] /\ UNCHANGED <<revs, mine, audited>>
        \/ Refuse(s)
    BY <1>6 DEF NextDecision, TypeOK
  <2> QED BY <1>1, <2>1, <2>2, CallTypeStep
<1>7. CASE ScanConflicts(s)
  BY <1>1, <1>2, <1>7 DEF ScanConflicts
<1> QED BY <1>3, <1>4, <1>5, <1>6, <1>7

LEMMA MergedRowType ==
  ASSUME TypeOK, Reads, NEW s \in Sessions, At(s, "insert"), call[s].verb = "decide"
  PROVE  MergedRow(s) \in Row
<1>1. Proposal(s) \in Row
  BY ProposalRow DEF Reads, HasReadIn, At
<1>2. ASSUME call[s].cur # NoRev
      PROVE  View(s)[call[s].cur] \in Row
  BY <1>2, ViewType DEF Reads, HasReadIn, IsTable, At
<1>3. Merged(s) \in Document
  <2>1. Proposal(s).data \in Document /\ Proposal(s).fields \in SUBSET Fields
    BY <1>1 DEF Row
  <2>2. Slice(Proposal(s).data, Proposal(s).fields) \in [Proposal(s).fields -> Data]
    BY <2>1, DataTypes
  <2>3. CASE call[s].cur # NoRev
    BY <1>2, <2>1, <2>2, <2>3, DataTypes DEF Merged, Row
  <2> QED BY <2>1, <2>3 DEF Merged
<1>4. (IF call[s].cur = NoRev THEN 1 ELSE View(s)[call[s].cur].seq + 1) \in Nat
  BY <1>2 DEF Row
<1> QED BY <1>1, <1>3, <1>4 DEF MergedRow, Row, Statuses

LEMMA WrittenRowType ==
  ASSUME TypeOK, Reads, NEW s \in Sessions, At(s, "insert"), call[s].verb # "decide"
  PROVE  WrittenRow(s) \in Row
<1> DEFINE c == call[s]
           fresh == c.verb = "create"
<1>1. c \in CallType
  BY DEF TypeOK
<1>2. ASSUME ~fresh PROVE View(s)[c.cur] \in Row
  BY <1>2, ViewType DEF Reads, HasReadIn, PathOf, IsTable, At
<1>3. (IF fresh THEN 0 ELSE View(s)[c.cur].seq) \in Nat
  BY <1>2 DEF Row
<1>4. Overlay(IF fresh THEN Blank ELSE View(s)[c.cur].data, c.patch) \in Document
  <2>1. (IF fresh THEN Blank ELSE View(s)[c.cur].data) \in Document
    BY <1>2, DataTypes DEF Row
  <2>2. PICK fs \in SUBSET Fields : c.patch \in [fs -> Data]
    BY <1>1 DEF CallType, Patch
  <2> QED BY <2>1, <2>2, DataTypes
<1>5. DOMAIN c.patch \in SUBSET Fields
  BY <1>1 DEF CallType, Patch
<1>6. c.verb \in Ops /\ c.user \in Users /\ c.doc \in Docs
  BY <1>1 DEF CallType
<1> QED BY <1>3, <1>4, <1>5, <1>6 DEF WrittenRow, Row, Statuses

LEMMA NewRowType ==
  ASSUME TypeOK, Reads, NEW s \in Sessions, At(s, "insert")
  PROVE  NewRow(s) \in Row
BY MergedRowType, WrittenRowType DEF NewRow

LEMMA WriteType ==
  ASSUME TypeOK, Reads, NEW s \in Sessions, Demote(s) \/ Insert(s) \/ Retire(s)
  PROVE  TypeOK'
<1> DEFINE c == call[s]
<1>0. c \in CallType
  BY DEF TypeOK
<1>1. CASE Demote(s)
  <2> DEFINE x == [View(s)[c.cur] EXCEPT !.current = FALSE]
             next == [c EXCEPT !.pc = "insert"]
  <2>1. c.cur \in Revs /\ View(s)[c.cur] \in Row
    BY <1>1, ViewType DEF Demote, Reads, HasReadIn, PathOf, IsTable, At
  <2>2. x \in Row
    BY <2>1 DEF Row
  <2>3. next \in CallType
    BY <1>0 DEF CallType
  <2>4. call' = [call EXCEPT ![s] = next]
    BY <1>1 DEF Demote, Goto, TypeOK
  <2> QED BY <1>1, <2>1, <2>2, <2>3, <2>4, PutTypeStep DEF Demote
<1>2. CASE Insert(s)
  <2>1. ASSUME Refuse(s) PROVE TypeOK'
    BY <2>1, RefuseType DEF Refuse, TypeOK
  <2>2. ASSUME ~Refuse(s) PROVE TypeOK'
    <3> DEFINE next == [c EXCEPT !.done = @ \cup {NewRev},
                                 !.pc = IF c.verb = "decide" THEN "retire" ELSE "audit"]
    <3>1. FreshRevs # {}
      BY <1>2, <2>2 DEF Insert
    <3>2. next \in CallType
      BY <1>0, <3>1, FreshRev DEF CallType
    <3>3. call' = [call EXCEPT ![s] = next]
      BY <1>2, <2>2 DEF Insert, TypeOK
    <3>4. NewRow(s) \in Row
      BY <1>2, NewRowType DEF Insert
    <3> QED BY <1>2, <2>2, <3>1, <3>2, <3>3, <3>4, FreshRev, PutTypeStep DEF Insert
  <2> QED BY <2>1, <2>2
<1>3. CASE Retire(s)
  <2> DEFINE h == Head(c.todo)
             x == [Proposal(s) EXCEPT !.status = IF h.action = "approve" THEN "superseded" ELSE "rejected"]
             next == [c EXCEPT !.todo = Tail(@),
                               !.done = IF h.action = "reject" THEN @ \cup {h.prop} ELSE @,
                               !.pc = IF Tail(c.todo) = <<>> THEN "audit" ELSE "next"]
  <2>1. h.prop \in Revs /\ Proposal(s) \in Row
    BY <1>3, ProposalRow DEF Retire, Reads, HasReadIn, PathOf, At
  <2>2. x \in Row
    BY <2>1 DEF Row, Statuses
  <2>3. Tail(c.todo) \in Seq(Decision)
    BY <1>0, <1>3 DEF CallType, Retire, Reads, PathOf, At
  <2>4. next \in CallType
    BY <1>0, <2>1, <2>3 DEF CallType
  <2>5. call' = [call EXCEPT ![s] = next]
    BY <1>3 DEF Retire, TypeOK
  <2> QED BY <1>3, <2>1, <2>2, <2>4, <2>5, PutTypeStep DEF Retire
<1> QED BY <1>1, <1>2, <1>3

LEMMA FinishType ==
  ASSUME TypeOK, NEW s \in Sessions, Finish(s) \/ Lost(s)
  PROVE  TypeOK'
<1>1. call[s] \in CallType
  BY DEF TypeOK
<1>2. CASE Audit(s)
  <2>1. [call[s] EXCEPT !.pc = "commit"] \in CallType
    BY <1>1 DEF CallType
  <2>2. call[s].done \X {call[s].user} \subseteq Revs \X Users
    BY <1>1 DEF CallType
  <2> QED BY <1>2, <2>1, <2>2 DEF Audit, Goto, TypeOK
<1>3. CASE AuditFails(s)
  <2>1. \A A \in SUBSET call[s].done : A \X {call[s].user} \subseteq Revs \X Users
    BY <1>1 DEF CallType
  <2> QED BY <1>3, <2>1, RefuseType DEF AuditFails, TypeOK
<1>4. CASE Commit(s)
  BY <1>4, ViewType, EmptyTables, IdleType DEF Commit, TypeOK
<1>5. CASE DeadlockVictim(s) \/ Lost(s)
  BY <1>5, RefuseType DEF DeadlockVictim, Lost, Refuse, TypeOK
<1> QED BY <1>2, <1>3, <1>4, <1>5 DEF Finish

LEMMA TypeStep == TypeOK /\ Reads /\ [Next]_vars => TypeOK'
<1> SUFFICES ASSUME TypeOK, Reads, [Next]_vars PROVE TypeOK'
  OBVIOUS
<1>1. CASE UNCHANGED vars
  BY <1>1 DEF vars, TypeOK
<1>2. ASSUME NEW s \in Sessions, Begin(s) \/ Read(s) \/ Write(s) \/ Finish(s) \/ Lost(s)
      PROVE  TypeOK'
  BY <1>2, BeginType, ReadType, WriteType, FinishType DEF Read, Write
<1> QED BY <1>1, <1>2 DEF Next, Exhausted

---------------------------------------------------------------------------
(* The row locks *)

\* Session s writes the version x of row r.
Writes(s, r, x) == mine' = [mine EXCEPT ![s] = Put(mine[s], r, x)] /\ UNCHANGED revs

\* The transaction of session s is rolled back.
Drops(s) == mine' = [mine EXCEPT ![s] = NoRows] /\ call' = [call EXCEPT ![s] = Idle] /\ UNCHANGED revs

\* What is true of every version that is written.
Version(s, r, x) ==
  /\ r \in Revs /\ x \in Row
  /\ \A t \in Sessions \ {s} : r \notin DOMAIN mine[t]
  /\ x.current => x.status = "approved"
  /\ r \in DOMAIN View(s) => ~x.current /\ SameState(x, View(s)[r])

LEMMA ViewApproved ==
  ASSUME LInv, NEW s \in Sessions
  PROVE  OnlyApproved(View(s))
BY DEF LInv, CurrentIsApproved, OnlyApproved, View, Over

LEMMA DemoteWrites ==
  ASSUME LInv, NEW s \in Sessions, Demote(s)
  PROVE  LET r == call[s].cur
             x == [View(s)[r] EXCEPT !.current = FALSE]
         IN /\ Writes(s, r, x) /\ Version(s, r, x)
            /\ call' = [call EXCEPT ![s].pc = "insert"]
<1> DEFINE r == call[s].cur
           x == [View(s)[r] EXCEPT !.current = FALSE]
<1>1. r \in DOMAIN View(s) /\ r \in Revs /\ View(s)[r] \in Row
  BY ViewType DEF LInv, Demote, Reads, HasReadIn, PathOf, IsTable, At
<1>2. x \in Row /\ ~x.current /\ SameState(x, View(s)[r])
  BY <1>1 DEF Row, SameState
<1> QED BY <1>1, <1>2 DEF Demote, Writes, Version, LockedByOther, Goto

LEMMA RetireWrites ==
  ASSUME LInv, NEW s \in Sessions, Retire(s)
  PROVE  \E x : /\ Writes(s, Head(call[s].todo).prop, x) /\ Version(s, Head(call[s].todo).prop, x)
                /\ x.status # "approved"
<1> DEFINE h == Head(call[s].todo)
           x == [Proposal(s) EXCEPT !.status = IF h.action = "approve" THEN "superseded" ELSE "rejected"]
<1>1. h.prop \in DOMAIN View(s) /\ h.prop \in Revs /\ Proposal(s) \in Row
        /\ Proposal(s).status # "approved"
  BY ProposalRow DEF LInv, Retire, Reads, HasReadIn, PathOf, At
<1>2. ~Proposal(s).current
  BY <1>1, ViewApproved DEF OnlyApproved, Proposal
<1>3. x \in Row /\ ~x.current /\ SameState(x, Proposal(s)) /\ x.status # "approved"
  BY <1>1, <1>2 DEF Row, Statuses, SameState
<1> QED BY <1>1, <1>3 DEF Retire, Writes, Version, LockedByOther, Proposal

LEMMA InsertWrites ==
  ASSUME LInv, NEW s \in Sessions, Insert(s), ~Drops(s)
  PROVE  /\ Writes(s, NewRev, NewRow(s)) /\ Version(s, NewRev, NewRow(s))
         /\ NewRev \notin DOMAIN View(s)
         /\ NewRow(s).current => CurrentOf(View(s), NewRow(s).doc) = {} /\ ~IndexBusy(s, NewRow(s).doc)
         /\ call' = [call EXCEPT ![s].done = @ \cup {NewRev},
                       ![s].pc = IF call[s].verb = "decide" THEN "retire" ELSE "audit"]
<1>1. FreshRevs # {} /\ At(s, "insert")
  BY DEF Insert, Refuse, Drops
<1>2. NewRev \in Revs /\ NewRev \notin DOMAIN View(s) /\ \A t \in Sessions : NewRev \notin DOMAIN mine[t]
  BY <1>1, FreshRev, ViewType DEF LInv
<1>3. NewRow(s) \in Row
  BY <1>1, NewRowType DEF LInv
<1>4. NewRow(s).current => NewRow(s).status = "approved"
  <2>1. CASE call[s].verb = "decide"
    <3>1. Proposal(s) \in Row
      BY <1>1, <2>1, ProposalRow DEF LInv, Reads, HasReadIn, At
    <3> QED BY <2>1, <3>1 DEF NewRow, MergedRow, Row
  <2>2. CASE call[s].verb # "decide"
    BY <2>2 DEF NewRow, WrittenRow
  <2> QED BY <2>1, <2>2
<1> QED BY <1>1, <1>2, <1>3, <1>4 DEF Insert, Refuse, Drops, Writes, Version

\* Every step leaves the tables alone, writes one version, rolls back, or commits.
LEMMA StepKinds ==
  ASSUME LInv, [Next]_vars
  PROVE  \/ UNCHANGED <<revs, mine>>
         \/ \E s \in Sessions : Drops(s)
         \/ \E s \in Sessions : \E r, x : Writes(s, r, x) /\ Version(s, r, x)
         \/ \E s \in Sessions : Commit(s)
<1>1. CASE UNCHANGED vars \/ Exhausted
  BY <1>1 DEF vars, Exhausted
<1>2. ASSUME NEW s \in Sessions, Begin(s) PROVE UNCHANGED <<revs, mine>>
  <2>1. \A u, verb, d, patch, e : BeginMutate(s, u, verb, d, patch, e) => UNCHANGED <<revs, mine>>
    BY DEF BeginMutate
  <2>2. \A u, d, target, e : BeginRevert(s, u, d, target, e) => UNCHANGED <<revs, mine>>
    BY DEF BeginRevert
  <2>3. \A u, todo : BeginDecide(s, u, todo) => UNCHANGED <<revs, mine>>
    BY DEF BeginDecide
  <2> QED BY <1>2, <2>1, <2>2, <2>3 DEF Begin
<1>3. ASSUME NEW s \in Sessions, Read(s) PROVE UNCHANGED <<revs, mine>> \/ Drops(s)
  BY <1>3 DEF Read, ReadForCreate, ReadForRevise, LoadPending, NextDecision, ScanConflicts, Refuse, Drops
<1>4. ASSUME NEW s \in Sessions, Write(s)
      PROVE  Drops(s) \/ \E r, x : Writes(s, r, x) /\ Version(s, r, x)
  BY <1>4, DemoteWrites, InsertWrites, RetireWrites DEF Write
<1>5. ASSUME NEW s \in Sessions, Finish(s) \/ Lost(s)
      PROVE  UNCHANGED <<revs, mine>> \/ Drops(s) \/ Commit(s)
  BY <1>5 DEF Finish, Lost, Audit, AuditFails, DeadlockVictim, Refuse, Drops
<1> DEFINE Kinds == \/ UNCHANGED <<revs, mine>>
                    \/ \E s \in Sessions : Drops(s)
                    \/ \E s \in Sessions : \E r, x : Writes(s, r, x) /\ Version(s, r, x)
                    \/ \E s \in Sessions : Commit(s)
<1>6. ASSUME NEW s \in Sessions, Begin(s) \/ Read(s) \/ Write(s) \/ Finish(s) \/ Lost(s) PROVE Kinds
  <2>1. CASE Write(s)
    BY <1>4, <2>1, Zenon
  <2> QED BY <1>2, <1>3, <1>5, <1>6, <2>1
<1> QED BY <1>1, <1>6 DEF Next

LEMMA RowLocksStep == ASSUME LInv, [Next]_vars PROVE RowLocks'
<1>1. ASSUME NEW s \in Sessions, NEW r, NEW x, Writes(s, r, x), Version(s, r, x) PROVE RowLocks'
  BY <1>1 DEF LInv, TypeOK, RowLocks, Writes, Version, Put
<1>2. ASSUME NEW s \in Sessions, Drops(s) \/ Commit(s) PROVE RowLocks'
  BY <1>2, EmptyTables DEF LInv, TypeOK, RowLocks, Drops, Commit
<1> QED BY <1>1, <1>2, StepKinds DEF RowLocks, LInv

LEMMA VersionsStep == ASSUME LInv, [Next]_vars PROVE Versions'
<1>1. ASSUME NEW s \in Sessions, NEW r, NEW x, Writes(s, r, x), Version(s, r, x) PROVE Versions'
  <2> SUFFICES ASSUME NEW t \in Sessions, NEW q \in DOMAIN mine'[t] \cap DOMAIN revs
               PROVE  ~mine'[t][q].current /\ SameState(mine'[t][q], revs[q])
    BY <1>1 DEF Versions, Writes
  <2>1. CASE t # s \/ q # r
    BY <1>1, <2>1 DEF LInv, TypeOK, Versions, Writes, Put
  <2>2. CASE t = s /\ q = r
    <3>1. mine'[t][q] = x
      BY <1>1, <2>2 DEF LInv, TypeOK, Writes, Put
    <3>2. ~x.current /\ SameState(x, View(s)[q])
      BY <1>1, <2>2, ViewType DEF LInv, Version
    <3>3. SameState(View(s)[q], revs[q])
      BY <2>2 DEF LInv, Versions, View, Over, SameState
    <3> QED BY <2>2, <3>1, <3>2, <3>3 DEF SameState
  <2> QED BY <2>1, <2>2
<1>2. ASSUME NEW s \in Sessions, Drops(s) PROVE Versions'
  BY <1>2, EmptyTables DEF LInv, TypeOK, Versions, Drops
<1>3. ASSUME NEW s \in Sessions, Commit(s) PROVE Versions'
  <2>1. ASSUME NEW t \in Sessions, t # s, NEW q \in DOMAIN mine[t] \cap DOMAIN revs'
        PROVE  q \in DOMAIN revs /\ revs'[q] = revs[q]
    BY <1>3, <2>1 DEF LInv, RowLocks, Commit, View, Over
  <2> QED BY <1>3, <2>1, EmptyTables DEF LInv, TypeOK, Versions, Commit
<1> QED BY <1>1, <1>2, <1>3, StepKinds DEF Versions, LInv

LEMMA ApprovedStep == ASSUME LInv, [Next]_vars PROVE CurrentIsApproved'
<1>1. ASSUME NEW s \in Sessions, NEW r, NEW x, Writes(s, r, x), Version(s, r, x) PROVE CurrentIsApproved'
  BY <1>1 DEF LInv, TypeOK, CurrentIsApproved, OnlyApproved, Writes, Version, Put
<1>2. ASSUME NEW s \in Sessions, Drops(s) PROVE CurrentIsApproved'
  BY <1>2, EmptyTables DEF LInv, TypeOK, CurrentIsApproved, OnlyApproved, Drops
<1>3. ASSUME NEW s \in Sessions, Commit(s) PROVE CurrentIsApproved'
  BY <1>3, EmptyTables, ViewApproved DEF LInv, TypeOK, CurrentIsApproved, OnlyApproved, Commit
<1> QED BY <1>1, <1>2, <1>3, StepKinds DEF CurrentIsApproved, LInv

---------------------------------------------------------------------------
(* What the calls have read *)

\* A row that session t sees is the same state after another session commits.
LEMMA ViewAfterCommit ==
  ASSUME LInv, NEW s \in Sessions, Commit(s), NEW t \in Sessions, t # s, NEW r \in DOMAIN View(t)
  PROVE  r \in DOMAIN View(t)' /\ SameState(View(t)'[r], View(t)[r])
<1>1. mine'[t] = mine[t] /\ revs' = View(s)
  BY DEF Commit, LInv, TypeOK
<1>2. CASE r \in DOMAIN mine[t]
  BY <1>1, <1>2 DEF View, Over, SameState
<1>3. CASE r \notin DOMAIN mine[t]
  BY <1>1, <1>3 DEF View, Over, SameState, LInv, Versions
<1> QED BY <1>2, <1>3

\* A call that is where it was keeps what it has read while its rows keep their state.
LEMMA ReadsKept ==
  ASSUME TypeOK, NEW t \in Sessions, HasReadIn(t), PathOf(t), call'[t] = call[t], mine'[t] = mine[t],
         \A r \in DOMAIN View(t) : r \in DOMAIN View(t)' /\ SameState(View(t)'[r], View(t)[r])
  PROVE  HasReadIn(t)' /\ PathOf(t)'
<1>1. PathOf(t)'
  BY DEF PathOf, At
<1>2. HasReadIn(t)'
  BY DEF HasReadIn, SameState
<1> QED BY <1>1, <1>2

LEMMA IdleReads ==
  ASSUME TypeOK, NEW t \in Sessions, call'[t] = Idle, mine'[t] = NoRows
  PROVE  HasReadIn(t)' /\ PathOf(t)'
BY DEF HasReadIn, PathOf, Idle, At

\* A step of session s leaves the calls and the writes of the others alone.
LEMMA OthersKept ==
  ASSUME TypeOK, NEW s \in Sessions,
         Begin(s) \/ Read(s) \/ Write(s) \/ Finish(s) \/ Lost(s),
         NEW t \in Sessions, t # s
  PROVE  call'[t] = call[t] /\ mine'[t] = mine[t] /\ (revs' = revs \/ Commit(s))
<1>1. CASE Begin(s)
  <2>1. \A u, verb, d, patch, e : BeginMutate(s, u, verb, d, patch, e) =>
          call'[t] = call[t] /\ UNCHANGED <<revs, mine>>
    BY DEF BeginMutate, TypeOK
  <2>2. \A u, d, target, e : BeginRevert(s, u, d, target, e) =>
          call'[t] = call[t] /\ UNCHANGED <<revs, mine>>
    BY DEF BeginRevert, TypeOK
  <2>3. \A u, todo : BeginDecide(s, u, todo) => call'[t] = call[t] /\ UNCHANGED <<revs, mine>>
    BY DEF BeginDecide, TypeOK
  <2> QED BY <1>1, <2>1, <2>2, <2>3 DEF Begin
<1>2. CASE Read(s)
  BY <1>2 DEF Read, ReadForCreate, ReadForRevise, LoadPending, NextDecision, ScanConflicts,
              Refuse, Goto, TypeOK
<1>3. CASE Write(s)
  BY <1>3 DEF Write, Demote, Insert, Retire, Refuse, Goto, TypeOK
<1>4. CASE Finish(s) \/ Lost(s)
  BY <1>4 DEF Finish, Lost, Audit, AuditFails, Commit, DeadlockVictim, Refuse, Goto, TypeOK
<1> QED BY <1>1, <1>2, <1>3, <1>4

\* What a step of session s does to the reads of the other sessions.
LEMMA OthersReads ==
  ASSUME LInv, NEW s \in Sessions,
         Begin(s) \/ Read(s) \/ Write(s) \/ Finish(s) \/ Lost(s),
         NEW t \in Sessions, t # s
  PROVE  HasReadIn(t)' /\ PathOf(t)'
<1>1. call'[t] = call[t] /\ mine'[t] = mine[t] /\ (revs' = revs \/ Commit(s))
  BY OthersKept DEF LInv
<1>2. CASE Commit(s)
  BY <1>1, <1>2, ViewAfterCommit, ReadsKept DEF LInv, Reads
<1>3. CASE ~Commit(s)
  <2>1. \A r \in DOMAIN View(t) : r \in DOMAIN View(t)' /\ SameState(View(t)'[r], View(t)[r])
    BY <1>1, <1>3 DEF View, Over, SameState
  <2> QED BY <1>1, <2>1, ReadsKept DEF LInv, Reads
<1> QED BY <1>2, <1>3

LEMMA BeginReads ==
  ASSUME LInv, NEW s \in Sessions, Begin(s)
  PROVE  HasReadIn(s)' /\ PathOf(s)'
<1> DEFINE Fresh == /\ call'[s].found = {} /\ call'[s].cur = NoRev /\ UNCHANGED <<revs, mine>>
                    /\ \/ call'[s].pc = "read" /\ call'[s].verb # "decide"
                       \/ call'[s].pc = "load" /\ call'[s].verb = "decide" /\ call'[s].todo # <<>>
<1>1. \A u, verb, d, patch, e : BeginMutate(s, u, verb, d, patch, e) => Fresh
  BY DEF BeginMutate, LInv, TypeOK, Idle, Ops
<1>2. \A u, d, target, e : BeginRevert(s, u, d, target, e) => Fresh
  BY DEF BeginRevert, LInv, TypeOK, Idle
<1>3. \A u, todo : BeginDecide(s, u, todo) => Fresh
  BY DEF BeginDecide, LInv, TypeOK, Idle
<1>4. Fresh
  BY <1>1, <1>2, <1>3 DEF Begin
<1> QED BY <1>4 DEF HasReadIn, PathOf, At

LEMMA OwnReads ==
  ASSUME LInv, NEW s \in Sessions, Read(s)
  PROVE  HasReadIn(s)' /\ PathOf(s)'
<1> DEFINE c == call[s]
<1>0. c \in CallType /\ HasReadIn(s) /\ PathOf(s)
  BY DEF LInv, TypeOK, Reads
<1>1. ASSUME Refuse(s) PROVE HasReadIn(s)' /\ PathOf(s)'
  BY <1>1, IdleReads DEF Refuse, LInv, TypeOK
<1>2. ASSUME UNCHANGED <<revs, mine>> PROVE View(s)' = View(s)
  BY <1>2 DEF View, Over
<1>3. ASSUME NEW d, CurrentRevision(View(s), d) # NoRev
      PROVE  /\ CurrentRevision(View(s), d) \in DOMAIN View(s)
             /\ View(s)[CurrentRevision(View(s), d)].status = "approved"
             /\ View(s)[CurrentRevision(View(s), d)].doc = d
  BY <1>3, CurrentRow, ViewApproved DEF OnlyApproved
<1>4. CASE ReadForCreate(s)
  <2>1. CASE Goto(s, "insert") /\ UNCHANGED <<revs, mine, audited>>
    <3>1. call'[s] = [c EXCEPT !.pc = "insert"]
      BY <2>1 DEF Goto, LInv, TypeOK
    <3> QED BY <1>0, <1>2, <1>4, <2>1, <3>1 DEF ReadForCreate, HasReadIn, PathOf, At, CallType
  <2> QED BY <1>1, <1>4, <2>1 DEF ReadForCreate
<1>5. CASE ReadForRevise(s)
  <2> DEFINE cur == CurrentRevision(View(s), c.doc)
  <2>1. ASSUME cur # NoRev, UNCHANGED <<revs, mine, audited>>,
               call'[s] = [c EXCEPT !.cur = cur, !.pc = IF c.user \in Proposers THEN "insert" ELSE "demote"]
        PROVE  HasReadIn(s)' /\ PathOf(s)'
    BY <1>0, <1>2, <1>3, <1>5, <2>1 DEF ReadForRevise, HasReadIn, PathOf, At, CallType
  <2>2. \/ /\ cur # NoRev /\ UNCHANGED <<revs, mine, audited>>
           /\ call'[s] = [c EXCEPT !.cur = cur, !.pc = IF c.user \in Proposers THEN "insert" ELSE "demote"]
        \/ Refuse(s)
    BY <1>5 DEF ReadForRevise, LInv, TypeOK
  <2> QED BY <1>1, <2>1, <2>2
<1>6. CASE LoadPending(s)
  <2> DEFINE found == {p \in DOMAIN View(s) : /\ \E i \in 1 .. Len(c.todo) : c.todo[i].prop = p
                                              /\ View(s)[p].status = "pending"}
  <2>1. call'[s] = [c EXCEPT !.pc = "next", !.found = found] /\ UNCHANGED <<revs, mine>> /\ c.pc = "load"
    BY <1>6 DEF LoadPending, LInv, TypeOK, At
  <2> QED BY <1>0, <1>2, <2>1 DEF HasReadIn, PathOf, At, CallType
<1>7. CASE NextDecision(s)
  <2> DEFINE h == Head(c.todo)
             p == Proposal(s)
             cur == CurrentRevision(View(s), p.doc)
             next == [c EXCEPT !.cur = IF p.op = "create" THEN NoRev ELSE cur, !.doc = p.doc,
                               !.pc = IF h.action = "reject" THEN "retire"
                                      ELSE IF p.op = "create" THEN "insert" ELSE "scan"]
  <2>1. \/ /\ h.prop \in c.found /\ call'[s] = next /\ UNCHANGED <<revs, mine>>
           /\ (h.action = "approve" /\ p.op # "create" => cur # NoRev)
        \/ Refuse(s)
    BY <1>7 DEF NextDecision, LInv, TypeOK
  <2>2. h.action \in {"approve", "reject"}
    <3>1. c.todo \in Seq(Decision) /\ c.todo # <<>>
      BY <1>0, <1>7 DEF NextDecision, CallType, PathOf, At
    <3>2. h \in Decision
      BY <3>1
    <3> QED BY <3>2 DEF Decision, Actions
  <2>3. ASSUME h.prop \in c.found, call'[s] = next, UNCHANGED <<revs, mine>>,
               h.action = "approve" /\ p.op # "create" => cur # NoRev
        PROVE  HasReadIn(s)' /\ PathOf(s)'
    <3>1. next.pc \in {"retire", "insert", "scan"} /\ next.doc = p.doc /\ next.todo = c.todo
           /\ next.found = c.found /\ next.verb = c.verb /\ next.user = c.user
           /\ (next.cur = NoRev \/ next.cur = cur) /\ (next.pc = "scan" => next.cur # NoRev)
      BY <1>0, <2>2, <2>3 DEF CallType
    <3>2. c.verb = "decide" /\ c.todo # <<>>
      BY <1>0, <1>7 DEF NextDecision, PathOf, At
    <3>3. HasReadIn(s)'
      <4>1. View(s)' = View(s) /\ call'[s].found = c.found /\ call'[s].verb = "decide"
             /\ call'[s].todo = c.todo /\ call'[s].doc = p.doc
        BY <1>2, <2>3, <3>1, <3>2
      <4>2. call'[s].cur # NoRev => /\ call'[s].cur \in DOMAIN View(s)
                                   /\ View(s)[call'[s].cur].status = "approved"
                                   /\ View(s)[call'[s].cur].doc = p.doc
        BY <1>3, <2>3, <3>1
      <4> QED BY <1>0, <2>3, <4>1, <4>2 DEF HasReadIn, Proposal
    <3>4. PathOf(s)'
      BY <2>3, <3>1, <3>2 DEF PathOf, At
    <3> QED BY <3>3, <3>4
  <2> QED BY <1>1, <2>1, <2>3
<1>8. CASE ScanConflicts(s)
  <2>1. CASE Goto(s, "demote") /\ UNCHANGED <<revs, mine, audited>>
    <3>1. call'[s] = [c EXCEPT !.pc = "demote"]
      BY <2>1 DEF Goto, LInv, TypeOK
    <3> QED BY <1>0, <1>2, <1>8, <2>1, <3>1 DEF ScanConflicts, HasReadIn, PathOf, At, CallType
  <2> QED BY <1>1, <1>8, <2>1 DEF ScanConflicts
<1> QED BY <1>4, <1>5, <1>6, <1>7, <1>8 DEF Read

\* What session s sees after it has written version x of row r.
LEMMA ViewAfterWrite ==
  ASSUME LInv, NEW s \in Sessions, NEW r, NEW x, Writes(s, r, x), Version(s, r, x)
  PROVE  /\ View(s)' = Put(View(s), r, x)
         /\ \A q \in DOMAIN View(s) : q \in DOMAIN View(s)' /\ SameState(View(s)'[q], View(s)[q])
<1>1. mine'[s] = Put(mine[s], r, x) /\ revs' = revs
  BY DEF Writes, LInv, TypeOK
<1>2. View(s)' = Put(View(s), r, x)
  BY <1>1 DEF View, Over, Put
<1> QED BY <1>2 DEF Put, Version, SameState

LEMMA WriteReads ==
  ASSUME LInv, NEW s \in Sessions, Write(s)
  PROVE  HasReadIn(s)' /\ PathOf(s)'
<1> DEFINE c == call[s]
<1>0. c \in CallType /\ HasReadIn(s) /\ PathOf(s)
  BY DEF LInv, TypeOK, Reads
<1>1. CASE Demote(s)
  <2>1. \A q \in DOMAIN View(s) : q \in DOMAIN View(s)' /\ SameState(View(s)'[q], View(s)[q])
    BY <1>1, DemoteWrites, ViewAfterWrite
  <2>2. call'[s] = [c EXCEPT !.pc = "insert"]
    BY <1>1 DEF Demote, Goto, LInv, TypeOK
  <2>3. HasReadIn(s)'
    BY <1>0, <1>1, <2>1, <2>2 DEF HasReadIn, SameState, Demote, At, CallType
  <2>4. PathOf(s)'
    BY <1>0, <1>1, <2>2 DEF PathOf, Demote, At, CallType, Reads, HasReadIn
  <2> QED BY <2>3, <2>4
<1>2. CASE Insert(s)
  <2>1. CASE Drops(s)
    BY <2>1, IdleReads DEF Drops, LInv, TypeOK
  <2>2. CASE ~Drops(s)
    <3>1. \A q \in DOMAIN View(s) : q \in DOMAIN View(s)' /\ SameState(View(s)'[q], View(s)[q])
      BY <1>2, <2>2, InsertWrites, ViewAfterWrite
    <3>2. call'[s] = [c EXCEPT !.done = @ \cup {NewRev},
                               !.pc = IF c.verb = "decide" THEN "retire" ELSE "audit"]
      BY <1>2, <2>2, InsertWrites DEF LInv, TypeOK
    <3>3. HasReadIn(s)'
      BY <1>0, <1>2, <3>1, <3>2 DEF HasReadIn, SameState, Insert, At, CallType
    <3>4. PathOf(s)'
      BY <1>0, <1>2, <3>2 DEF PathOf, Insert, At, CallType
    <3> QED BY <3>3, <3>4
  <2> QED BY <2>1, <2>2
<1>3. CASE Retire(s)
  <2>1. \A q \in DOMAIN View(s) : q \in DOMAIN View(s)' /\ SameState(View(s)'[q], View(s)[q])
    BY <1>3, RetireWrites, ViewAfterWrite
  <2>2. /\ call'[s].todo = Tail(c.todo) /\ call'[s].found = c.found /\ call'[s].verb = c.verb
        /\ call'[s].pc = IF Tail(c.todo) = <<>> THEN "audit" ELSE "next"
    BY <1>0, <1>3 DEF Retire, LInv, TypeOK, CallType
  <2>3. HasReadIn(s)'
    BY <1>0, <2>1, <2>2 DEF HasReadIn, SameState
  <2>4. c.verb = "decide"
    BY <1>0, <1>3 DEF PathOf, Retire, At
  <2>5. CASE Tail(c.todo) = <<>>
    BY <2>2, <2>3, <2>4, <2>5 DEF PathOf, At
  <2>6. CASE Tail(c.todo) # <<>>
    BY <2>2, <2>3, <2>4, <2>6 DEF PathOf, At
  <2> QED BY <2>5, <2>6
<1> QED BY <1>1, <1>2, <1>3 DEF Write

LEMMA FinishReads ==
  ASSUME LInv, NEW s \in Sessions, Finish(s) \/ Lost(s)
  PROVE  HasReadIn(s)' /\ PathOf(s)'
<1>0. call[s] \in CallType /\ HasReadIn(s) /\ PathOf(s)
  BY DEF LInv, TypeOK, Reads
<1>1. CASE Audit(s)
  <2>1. call'[s] = [call[s] EXCEPT !.pc = "commit"] /\ View(s)' = View(s)
    BY <1>1 DEF Audit, Goto, LInv, TypeOK, View, Over
  <2> QED BY <1>0, <1>1, <2>1 DEF Audit, HasReadIn, PathOf, At, CallType
<1>2. CASE ~Audit(s)
  BY <1>2, IdleReads DEF Finish, Lost, AuditFails, Commit, DeadlockVictim, Refuse, LInv, TypeOK
<1> QED BY <1>1, <1>2

LEMMA ReadsStep == ASSUME LInv, [Next]_vars PROVE Reads'
<1>1. CASE UNCHANGED vars \/ Exhausted
  <2>1. UNCHANGED <<revs, mine, call>>
    BY <1>1 DEF vars, Exhausted
  <2>2. \A t \in Sessions : HasReadIn(t)' <=> HasReadIn(t)
    BY <2>1 DEF HasReadIn, View, Over
  <2>3. \A t \in Sessions : PathOf(t)' <=> PathOf(t)
    BY <2>1 DEF PathOf, At
  <2> QED BY <2>2, <2>3 DEF LInv, Reads
<1>2. ASSUME NEW s \in Sessions, Begin(s) \/ Read(s) \/ Write(s) \/ Finish(s) \/ Lost(s) PROVE Reads'
  BY <1>2, OthersReads, BeginReads, OwnReads, WriteReads, FinishReads DEF Reads
<1> QED BY <1>1, <1>2 DEF Next

---------------------------------------------------------------------------

LEMMA LInvInit == Init => LInv
<1> SUFFICES ASSUME Init PROVE LInv
  OBVIOUS
<1>1. TypeOK
  BY InitType
<1>2. Reads
  BY EmptyTables DEF Init, Reads, HasReadIn, PathOf, Idle, At
<1>3. RowLocks /\ Versions /\ CurrentIsApproved
  BY EmptyTables DEF Init, RowLocks, Versions, CurrentIsApproved, OnlyApproved
<1> QED BY <1>1, <1>2, <1>3 DEF LInv

LEMMA LInvStep == LInv /\ [Next]_vars => LInv'
BY TypeStep, RowLocksStep, VersionsStep, ApprovedStep, ReadsStep DEF LInv

\* Every table, call and audit row keeps its type in every behaviour: the rows a
\* call has read are there when it uses them.
THEOREM TypeCorrect == Spec => []TypeOK
<1>1. LInv => TypeOK
  BY DEF LInv
<1> QED BY <1>1, LInvInit, LInvStep, PTL DEF Spec

---------------------------------------------------------------------------
(* Tables that tell the same history of a document *)

Agree(t, u, d) ==
  /\ ApprovedOf(t, d) = ApprovedOf(u, d) /\ CurrentOf(t, d) = CurrentOf(u, d)
  /\ \A r \in ApprovedOf(t, d) : SameState(t[r], u[r])

LEMMA SameApproved ==
  ASSUME NEW t, NEW u, NEW d, ApprovedOf(t, d) = ApprovedOf(u, d),
         \A r \in ApprovedOf(t, d) : SameState(t[r], u[r]),
         ContiguousIn(t, d), CarriedForwardIn(t, d)
  PROVE  ContiguousIn(u, d) /\ CarriedForwardIn(u, d)
<1>1. ContiguousIn(u, d)
  BY DEF ContiguousIn, SameState
<1>2. CarriedForwardIn(u, d)
  BY DEF CarriedForwardIn, SameState
<1> QED BY <1>1, <1>2

LEMMA AgreeKeeps ==
  ASSUME NEW t, NEW u, NEW d, Agree(t, u, d), WellKept(t, d)
  PROVE  WellKept(u, d)
<1>1. OneCurrentIn(u, d)
  BY DEF Agree, WellKept, OneCurrentIn, SameState
<1> QED BY <1>1, SameApproved DEF Agree, WellKept

\* Writes that are not approved, or repeat a state that is not current, change nothing.
LEMMA OverAgrees ==
  ASSUME NEW m, NEW t, NEW d, OnlyApproved(m), OnlyApproved(t),
         \A r \in DOMAIN m : m[r].doc = d /\ m[r].status = "approved" =>
           r \in DOMAIN t /\ ~t[r].current,
         \A r \in DOMAIN m \cap DOMAIN t : ~m[r].current /\ SameState(m[r], t[r])
  PROVE  Agree(t, Over(m, t), d)
<1> DEFINE u == Over(m, t)
<1>1. ApprovedOf(t, d) = ApprovedOf(u, d)
  BY DEF ApprovedOf, Over, SameState
<1>2. CurrentOf(t, d) = CurrentOf(u, d)
  BY DEF CurrentOf, Over, SameState, OnlyApproved
<1>3. \A r \in ApprovedOf(t, d) : SameState(t[r], u[r])
  BY DEF ApprovedOf, Over, SameState
<1> QED BY <1>1, <1>2, <1>3 DEF Agree

LEMMA OverBoth ==
  ASSUME NEW m, NEW t, NEW u, NEW d, Agree(t, u, d)
  PROVE  Agree(Over(m, t), Over(m, u), d)
<1>1. ApprovedOf(Over(m, t), d) = ApprovedOf(Over(m, u), d)
  BY DEF Agree, ApprovedOf, Over
<1>2. CurrentOf(Over(m, t), d) = CurrentOf(Over(m, u), d)
  BY DEF Agree, CurrentOf, Over
<1>3. \A r \in ApprovedOf(Over(m, t), d) : SameState(Over(m, t)[r], Over(m, u)[r])
  BY DEF Agree, ApprovedOf, Over, SameState
<1> QED BY <1>1, <1>2, <1>3 DEF Agree

\* Row r written again as the same state, as current as before.
LEMMA PutAgrees ==
  ASSUME NEW t, NEW d, NEW r, NEW x, OnlyApproved(t), x.current => x.status = "approved",
         \/ x.doc # d /\ (r \in DOMAIN t => t[r].doc # d)
         \/ x.status # "approved" /\ (r \in DOMAIN t => t[r].status # "approved")
         \/ r \in DOMAIN t /\ SameState(x, t[r]) /\ (x.current <=> t[r].current)
  PROVE  Agree(t, Put(t, r, x), d)
<1> DEFINE u == Put(t, r, x)
<1>1. ApprovedOf(t, d) = ApprovedOf(u, d)
  BY DEF ApprovedOf, Put, SameState
<1>2. CurrentOf(t, d) = CurrentOf(u, d)
  BY DEF CurrentOf, Put, SameState, OnlyApproved
<1>3. \A q \in ApprovedOf(t, d) : SameState(t[q], u[q])
  BY DEF ApprovedOf, Put, SameState
<1> QED BY <1>1, <1>2, <1>3 DEF Agree

---------------------------------------------------------------------------
(* The next state of a document *)

\* The first approved revision of a document.
LEMMA FirstState ==
  ASSUME NEW t, NEW d, NEW n, NEW x \in Row, n \notin DOMAIN t, OnlyApproved(t),
         ApprovedOf(t, d) = {}, x.doc = d, x.status = "approved", x.current, x.seq = 1
  PROVE  WellKept(Put(t, n, x), d)
<1> DEFINE u == Put(t, n, x)
<1>1. ApprovedOf(u, d) = {n} /\ u[n] = x
  BY DEF ApprovedOf, Put
<1>2. CurrentOf(u, d) = {n}
  BY DEF CurrentOf, ApprovedOf, OnlyApproved, Put
<1>3. x.seq \in Nat
  BY DEF Row
<1>4. OneCurrentIn(u, d)
  BY <1>1, <1>2, <1>3 DEF OneCurrentIn
<1>5. ContiguousIn(u, d)
  BY <1>1 DEF ContiguousIn
<1>6. CarriedForwardIn(u, d)
  BY <1>1 DEF CarriedForwardIn
<1> QED BY <1>4, <1>5, <1>6 DEF WellKept

\* Revision c, the current one of b, is demoted in t, and x is inserted after it.
LEMMA NextState ==
  ASSUME NEW t, NEW d, NEW n, NEW c \in DOMAIN t, NEW x \in Row, n \notin DOMAIN t, IsTable(t),
         OnlyApproved(t), CurrentOf(t, d) = {}, t[c].doc = d, t[c].status = "approved",
         WellKept(Put(t, c, [t[c] EXCEPT !.current = TRUE]), d),
         x.doc = d, x.status = "approved", x.current, x.seq = t[c].seq + 1,
         \A f \in Fields \ x.fields : x.data[f] = t[c].data[f]
  PROVE  WellKept(Put(t, n, x), d)
<1> DEFINE b == Put(t, c, [t[c] EXCEPT !.current = TRUE])
           u == Put(t, n, x)
           A == ApprovedOf(t, d)
<1>1. \A r \in DOMAIN t : t[r].seq \in Nat
  BY DEF IsTable, Row
<1>2. ApprovedOf(b, d) = A /\ c \in A /\ \A r \in A : r \in DOMAIN t /\ SameState(b[r], t[r])
  <2>1. t[c] \in Row
    BY DEF IsTable
  <2>2. SameState([t[c] EXCEPT !.current = TRUE], t[c])
    BY <2>1 DEF SameState, Row
  <2> QED BY <2>2 DEF ApprovedOf, Put, SameState
<1>3. CurrentOf(b, d) = {c}
  <2>1. t[c] \in Row
    BY DEF IsTable
  <2> QED BY <2>1 DEF CurrentOf, Put, Row
<1>4. \A r \in A : t[r].seq <= t[c].seq
  BY <1>2, <1>3 DEF WellKept, OneCurrentIn, SameState
<1>5. ApprovedOf(u, d) = A \cup {n} /\ n \notin A /\ u[n] = x /\ \A r \in A : u[r] = t[r]
  BY DEF ApprovedOf, Put
<1>6. CurrentOf(u, d) = {n}
  BY DEF CurrentOf, Put
<1>7. OneCurrentIn(u, d)
  <2>1. \A q \in A : u[q].seq <= u[n].seq
    <3> SUFFICES ASSUME NEW q \in A PROVE u[q].seq <= u[n].seq
      OBVIOUS
    <3>1. t[q].seq \in Nat /\ t[c].seq \in Nat /\ t[q].seq <= t[c].seq
      BY <1>1, <1>2, <1>4
    <3>2. u[q].seq = t[q].seq /\ u[n].seq = t[c].seq + 1
      BY <1>5
    <3> QED BY <3>1, <3>2
  <2>2. u[n].seq <= u[n].seq
    BY <1>5 DEF Row
  <2> QED BY <1>5, <1>6, <2>1, <2>2 DEF OneCurrentIn
<1>8. ContiguousIn(t, d) /\ CarriedForwardIn(t, d)
  <2>1. ApprovedOf(b, d) = ApprovedOf(t, d) /\ \A r \in ApprovedOf(b, d) : SameState(b[r], t[r])
    BY <1>2
  <2>2. ContiguousIn(b, d) /\ CarriedForwardIn(b, d)
    BY DEF WellKept
  <2> QED BY <2>1, <2>2, SameApproved
<1>9. ContiguousIn(u, d)
  BY <1>1, <1>2, <1>4, <1>5, <1>8 DEF ContiguousIn
<1>10. CarriedForwardIn(u, d)
  <2> SUFFICES ASSUME NEW r \in A \cup {n}, NEW q \in A \cup {n}, u[r].seq = u[q].seq + 1,
                      NEW f \in Fields \ u[r].fields
               PROVE  u[r].data[f] = u[q].data[f]
    BY <1>5 DEF CarriedForwardIn
  <2>1. CASE r \in A /\ q \in A
    BY <1>5, <1>8, <2>1 DEF CarriedForwardIn
  <2>2. CASE r = n /\ q \in A
    <3>1. t[q].seq = t[c].seq
      BY <1>1, <1>2, <1>5, <2>2
    <3>2. q = c
      BY <1>2, <1>8, <2>2, <3>1 DEF ContiguousIn
    <3> QED BY <1>5, <2>2, <3>2
  <2>3. CASE q = n
    BY <1>1, <1>2, <1>4, <1>5, <2>3
  <2> QED BY <2>1, <2>2, <2>3
<1> QED BY <1>7, <1>9, <1>10 DEF WellKept

---------------------------------------------------------------------------
(* The order of the states, step by step *)

LEMMA PutBoth ==
  ASSUME NEW t, NEW u, NEW d, NEW r, NEW x, Agree(t, u, d)
  PROVE  Agree(Put(t, r, x), Put(u, r, x), d)
<1>1. ApprovedOf(Put(t, r, x), d) = ApprovedOf(Put(u, r, x), d)
  BY DEF Agree, ApprovedOf, Put
<1>2. CurrentOf(Put(t, r, x), d) = CurrentOf(Put(u, r, x), d)
  BY DEF Agree, CurrentOf, Put
<1>3. \A q \in ApprovedOf(Put(t, r, x), d) : SameState(Put(t, r, x)[q], Put(u, r, x)[q])
  BY DEF Agree, ApprovedOf, Put, SameState
<1> QED BY <1>1, <1>2, <1>3 DEF Agree

\* A transaction that has written nothing sees the committed table.
LEMMA NothingWritten ==
  ASSUME NEW t, IsTable(t)
  PROVE  Over(NoRows, t) = t
BY EmptyTables DEF Over, IsTable

LEMMA QuietStep ==
  ASSUME IInv, UNCHANGED <<revs, mine>>,
         \A t \in Sessions : At(t, "insert") => call'[t] = call[t]
  PROVE  Ordered'
<1>1. \A t \in Sessions, d \in Docs : (Holds(t, d)' <=> Holds(t, d)) /\ View(t)' = View(t)
  BY DEF Holds, View, Over
<1>2. Exclusive' /\ Demotes'
  BY <1>1 DEF IInv, Ordered, Exclusive, Demotes, CurrentOf
<1>3. ASSUME NEW d \in Docs PROVE WellKept(revs, d)'
  BY DEF IInv, Ordered, WellKept, OneCurrentIn, ContiguousIn, CarriedForwardIn, ApprovedOf, CurrentOf
<1>4. ASSUME NEW d \in Docs, NEW t \in Sessions PROVE ViewKept(t, d)'
  <2>1. ViewKept(t, d)
    BY DEF IInv, Ordered
  <2>2. CASE WellKept(View(t), d)
    BY <1>1, <2>2 DEF ViewKept
  <2>3. CASE ~WellKept(View(t), d)
    <3>1. call'[t] = call[t]
      BY <2>1, <2>3 DEF ViewKept, Demoted
    <3>2. Before(t)' = Before(t) /\ (Demoted(t)' <=> Demoted(t))
      BY <1>1, <3>1 DEF Before, Demoted, At
    <3> QED BY <2>1, <2>3, <3>1, <3>2 DEF ViewKept
  <2> QED BY <2>2, <2>3
<1> QED BY <1>2, <1>3, <1>4 DEF Ordered

LEMMA DropsStep ==
  ASSUME IInv, NEW s \in Sessions, Drops(s)
  PROVE  Ordered'
<1>1. /\ revs' = revs /\ mine'[s] = NoRows
      /\ \A t \in Sessions \ {s} : mine'[t] = mine[t] /\ call'[t] = call[t]
  BY DEF Drops, IInv, LInv, TypeOK
<1>2. \A t \in Sessions \ {s}, d \in Docs : (Holds(t, d)' <=> Holds(t, d)) /\ View(t)' = View(t)
  BY <1>1 DEF Holds, View, Over
<1>3. \A d \in Docs : ~Holds(s, d)'
  BY <1>1, EmptyTables DEF Holds
<1>4. View(s)' = revs
  BY <1>1, NothingWritten DEF View, IInv, LInv, TypeOK
<1>5. Exclusive' /\ Demotes'
  BY <1>1, <1>2, <1>3 DEF IInv, Ordered, Exclusive, Demotes, CurrentOf
<1>6. ASSUME NEW d \in Docs PROVE WellKept(revs, d)'
  BY <1>1 DEF IInv, Ordered, WellKept, OneCurrentIn, ContiguousIn, CarriedForwardIn, ApprovedOf, CurrentOf
<1>7. ASSUME NEW d \in Docs, NEW t \in Sessions PROVE ViewKept(t, d)'
  <2>1. CASE t = s
    BY <1>4, <2>1 DEF ViewKept, IInv, Ordered
  <2>2. CASE t # s
    <3>1. Before(t)' = Before(t) /\ (Demoted(t)' <=> Demoted(t))
      BY <1>1, <1>2, <2>2 DEF Before, Demoted, At
    <3> QED BY <1>1, <1>2, <2>2, <3>1 DEF ViewKept, IInv, Ordered
  <2> QED BY <2>1, <2>2
<1> QED BY <1>5, <1>6, <1>7 DEF Ordered

LEMMA CommitStep ==
  ASSUME IInv, NEW s \in Sessions, Commit(s)
  PROVE  Ordered'
<1>1. /\ revs' = View(s) /\ mine'[s] = NoRows /\ At(s, "commit")
      /\ \A t \in Sessions \ {s} : mine'[t] = mine[t] /\ call'[t] = call[t]
  BY DEF Commit, IInv, LInv, TypeOK
<1>2. \A d \in Docs : WellKept(View(s), d)
  BY <1>1 DEF IInv, Ordered, ViewKept, Demoted, At
<1>3. ASSUME NEW t \in Sessions, t # s, NEW r \in DOMAIN mine[t]
      PROVE  /\ r \in DOMAIN revs' <=> r \in DOMAIN revs
             /\ r \in DOMAIN revs => revs'[r] = revs[r]
  BY <1>1, <1>3 DEF IInv, LInv, RowLocks, View, Over
<1>4. ASSUME NEW t \in Sessions, t # s, NEW d \in Docs PROVE Holds(t, d)' <=> Holds(t, d)
  BY <1>1, <1>3, <1>4 DEF Holds
<1>5. ASSUME NEW d \in Docs PROVE ~Holds(s, d)'
  BY <1>1, EmptyTables DEF Holds
<1>6. Exclusive'
  BY <1>4, <1>5 DEF IInv, Ordered, Exclusive
<1>7. ASSUME NEW d \in Docs, ~Holds(s, d), NEW r \in CurrentOf(View(s), d)
      PROVE  r \in CurrentOf(revs, d)
  BY <1>7 DEF CurrentOf, View, Over, Holds, IInv, LInv, Versions, CurrentIsApproved, OnlyApproved
<1>8. Demotes'
  <2> SUFFICES ASSUME NEW d \in Docs, NEW t \in Sessions, Holds(t, d)', NEW r \in CurrentOf(revs', d)
               PROVE  r \in DOMAIN mine'[t]
    BY DEF Demotes
  <2>1. t # s /\ Holds(t, d) /\ ~Holds(s, d)
    BY <1>4, <1>5 DEF IInv, Ordered, Exclusive
  <2> QED BY <1>1, <1>7, <2>1 DEF IInv, Ordered, Demotes
<1>9. ASSUME NEW d \in Docs, NEW t \in Sessions PROVE ViewKept(t, d)'
  <2>1. CASE t = s
    <3>1. View(s)' = View(s)
      BY <1>1, NothingWritten, ViewType DEF View, IInv, LInv
    <3> QED BY <1>2, <2>1, <3>1 DEF ViewKept
  <2>2. CASE t # s /\ ~Holds(s, d)
    <3>1. Agree(revs, View(s), d)
      <4>1. \A r \in DOMAIN mine[s] : mine[s][r].doc = d /\ mine[s][r].status = "approved" =>
              r \in DOMAIN revs /\ ~revs[r].current
        BY <2>2 DEF Holds
      <4>2. \A r \in DOMAIN mine[s] \cap DOMAIN revs : ~mine[s][r].current /\ SameState(mine[s][r], revs[r])
        BY DEF IInv, LInv, Versions
      <4>3. OnlyApproved(mine[s]) /\ OnlyApproved(revs)
        BY DEF IInv, LInv, CurrentIsApproved
      <4> QED BY <4>1, <4>2, <4>3, OverAgrees DEF View
    <3>2. Agree(View(t), View(t)', d)
      BY <1>1, <2>2, <3>1, OverBoth DEF View
    <3>3. CASE WellKept(View(t), d)
      BY <3>2, <3>3, AgreeKeeps DEF ViewKept
    <3>4. CASE ~WellKept(View(t), d)
      <4> DEFINE r == call[t].cur
                 x == [mine[t][r] EXCEPT !.current = TRUE]
      <4>1. /\ Demoted(t) /\ call[t].doc = d /\ r \in DOMAIN mine[t]
            /\ r \in DOMAIN revs => revs[r].current
            /\ WellKept(Before(t), d)
        BY <3>4 DEF ViewKept, IInv, Ordered
      <4>2. View(t)[r] = mine[t][r] /\ View(t)'[r] = mine[t][r]
        BY <1>1, <2>2, <4>1 DEF View, Over
      <4>3. Before(t) = Put(View(t), r, x) /\ Before(t)' = Put(View(t)', r, x)
        BY <1>1, <2>2, <4>2 DEF Before
      <4>4. WellKept(Before(t)', d)
        BY <3>2, <4>1, <4>3, PutBoth, AgreeKeeps
      <4>5. Demoted(t)' /\ call'[t].doc = d
        BY <1>1, <2>2, <4>1 DEF Demoted, At
      <4>6. r \in DOMAIN mine'[t] /\ (r \in DOMAIN revs' => revs'[r].current)
        BY <1>1, <1>3, <2>2, <4>1
      <4> QED BY <1>1, <2>2, <4>4, <4>5, <4>6 DEF ViewKept
    <3> QED BY <3>3, <3>4
  <2>3. CASE t # s /\ Holds(s, d)
    <3>1. ~Holds(t, d)'
      BY <1>4, <2>3 DEF IInv, Ordered, Exclusive
    <3>2. \A r \in DOMAIN mine[t] : mine[t][r].doc = d /\ mine[t][r].status = "approved" =>
            r \in DOMAIN View(s) /\ ~View(s)[r].current
      BY <1>1, <2>3, <3>1 DEF Holds
    <3>3. \A r \in DOMAIN mine[t] \cap DOMAIN View(s) : ~mine[t][r].current /\ SameState(mine[t][r], View(s)[r])
      BY <1>1, <1>3, <2>3 DEF IInv, LInv, Versions
    <3>4. OnlyApproved(mine[t]) /\ OnlyApproved(View(s))
      BY ViewApproved DEF IInv, LInv, CurrentIsApproved
    <3>5. Agree(View(s), Over(mine[t], View(s)), d)
      BY <3>2, <3>3, <3>4, OverAgrees
    <3>6. View(t)' = Over(mine[t], View(s))
      BY <1>1, <2>3 DEF View
    <3> QED BY <1>2, <3>5, <3>6, AgreeKeeps DEF ViewKept
  <2> QED BY <2>1, <2>2, <2>3
<1>10. \A d \in Docs : WellKept(revs, d)'
  BY <1>1, <1>2 DEF WellKept, OneCurrentIn, ContiguousIn, CarriedForwardIn, ApprovedOf, CurrentOf
<1> QED BY <1>6, <1>8, <1>9, <1>10 DEF Ordered

\* A write keeps the order when what its session sees is in order, and when it
\* opens no second change of a current revision.
LEMMA WrittenKept ==
  ASSUME IInv, NEW s \in Sessions, NEW r, NEW x, Writes(s, r, x), Version(s, r, x),
         \A t \in Sessions \ {s} : call'[t] = call[t],
         \A d \in Docs : Holds(s, d)' /\ ~Holds(s, d) =>
           /\ \A t \in Sessions \ {s} : ~Holds(t, d)
           /\ CurrentOf(revs, d) \subseteq DOMAIN mine'[s],
         \A d \in Docs : ViewKept(s, d)'
  PROVE  Ordered'
<1>1. /\ revs' = revs /\ mine'[s] = Put(mine[s], r, x)
      /\ \A t \in Sessions \ {s} : mine'[t] = mine[t]
  BY DEF Writes, IInv, LInv, TypeOK
<1>2. \A t \in Sessions \ {s}, d \in Docs : (Holds(t, d)' <=> Holds(t, d)) /\ View(t)' = View(t)
  BY <1>1 DEF Holds, View, Over
<1>3. Exclusive'
  BY <1>2 DEF IInv, Ordered, Exclusive
<1>4. Demotes'
  <2> SUFFICES ASSUME NEW d \in Docs, NEW t \in Sessions, Holds(t, d)', NEW q \in CurrentOf(revs, d)
               PROVE  q \in DOMAIN mine'[t]
    BY <1>1 DEF Demotes
  <2>1. CASE t # s \/ Holds(s, d)
    BY <1>1, <1>2, <2>1 DEF IInv, Ordered, Demotes, Put
  <2>2. CASE t = s /\ ~Holds(s, d)
    BY <2>2
  <2> QED BY <2>1, <2>2
<1>5. ASSUME NEW d \in Docs PROVE WellKept(revs, d)'
  BY <1>1 DEF IInv, Ordered, WellKept, OneCurrentIn, ContiguousIn, CarriedForwardIn, ApprovedOf, CurrentOf
<1>6. ASSUME NEW d \in Docs, NEW t \in Sessions, t # s PROVE ViewKept(t, d)'
  <2>1. Before(t)' = Before(t) /\ (Demoted(t)' <=> Demoted(t)) /\ View(t)' = View(t)
    BY <1>2, <1>6 DEF Before, Demoted, At
  <2> QED BY <1>1, <1>6, <2>1 DEF ViewKept, IInv, Ordered
<1> QED BY <1>3, <1>4, <1>5, <1>6 DEF Ordered

LEMMA DemoteStep ==
  ASSUME IInv, NEW s \in Sessions, Demote(s)
  PROVE  Ordered'
<1> DEFINE c == call[s]
           r == c.cur
           y == View(s)[r]
           x == [y EXCEPT !.current = FALSE]
<1>1. /\ Writes(s, r, x) /\ Version(s, r, x) /\ call' = [call EXCEPT ![s].pc = "insert"]
      /\ At(s, "demote")
  BY DemoteWrites DEF IInv, Demote
<1>2. /\ c \in CallType /\ r # NoRev /\ r \in DOMAIN View(s) /\ y \in Row
      /\ y.status = "approved" /\ y.doc = c.doc
      /\ c.verb = "decide" \/ c.user \notin Proposers
  BY <1>1, ViewType DEF IInv, LInv, TypeOK, Reads, HasReadIn, PathOf, At, IsTable
<1>3. /\ revs' = revs /\ mine'[s] = Put(mine[s], r, x) /\ View(s)' = Put(View(s), r, x)
      /\ call'[s] = [c EXCEPT !.pc = "insert"] /\ \A t \in Sessions \ {s} : call'[t] = call[t]
  BY <1>1, ViewAfterWrite DEF Writes, IInv, LInv, TypeOK
<1>4. x \in Row /\ ~x.current /\ SameState(x, y)
  BY <1>2 DEF Row, SameState
<1>5. \A d \in Docs : WellKept(View(s), d) /\ WellKept(revs, d)
  BY <1>1 DEF IInv, Ordered, ViewKept, Demoted, At
<1>6. y.current => r \notin DOMAIN mine[s] \cap DOMAIN revs
  BY DEF IInv, LInv, Versions, View, Over
<1>7. ASSUME NEW d \in Docs, Holds(s, d)', ~Holds(s, d)
      PROVE  /\ \A t \in Sessions \ {s} : ~Holds(t, d)
             /\ CurrentOf(revs, d) \subseteq DOMAIN mine'[s]
  <2>1. r \in DOMAIN revs => SameState(y, revs[r])
    BY DEF IInv, LInv, Versions, View, Over, SameState
  <2>2. /\ x.doc = d /\ x.status = "approved"
        /\ r \in DOMAIN revs => revs[r].current
    BY <1>3, <1>7 DEF Holds, Put
  <2>3. r \in DOMAIN revs
    <3>1. CASE r \in DOMAIN mine[s]
      <4>1. mine[s][r].doc = d /\ mine[s][r].status = "approved"
        BY <1>2, <1>4, <2>2, <3>1 DEF View, Over, SameState
      <4> QED BY <1>7, <2>2, <3>1, <4>1 DEF Holds
    <3>2. CASE r \notin DOMAIN mine[s]
      BY <1>2, <3>2 DEF View, Over
    <3> QED BY <3>1, <3>2
  <2>4. r \in CurrentOf(revs, d)
    BY <1>4, <2>1, <2>2, <2>3 DEF CurrentOf, SameState
  <2>5. CurrentOf(revs, d) = {r}
    BY <1>5, <2>4 DEF WellKept, OneCurrentIn
  <2>6. \A t \in Sessions \ {s} : ~Holds(t, d)
    BY <1>1, <2>4 DEF IInv, Ordered, Demotes, Version
  <2> QED BY <1>3, <2>5, <2>6 DEF Put
<1>8. ASSUME NEW d \in Docs PROVE ViewKept(s, d)'
  <2>1. OnlyApproved(View(s))
    BY ViewApproved DEF IInv
  <2>2. CASE d # c.doc \/ ~y.current
    <3>1. Agree(View(s), View(s)', d)
      <4>1. x.doc = c.doc /\ View(s)[r].doc = c.doc /\ ~x.current
        BY <1>2, <1>4 DEF SameState
      <4>2. r \in DOMAIN View(s) /\ SameState(x, View(s)[r])
        BY <1>2, <1>4
      <4>3. d # c.doc \/ (x.current <=> View(s)[r].current)
        BY <2>2, <4>1
      <4> HIDE DEF x
      <4>4. Agree(View(s), Put(View(s), r, x), d)
        BY <2>1, <4>1, <4>2, <4>3, PutAgrees
      <4> QED BY <1>3, <4>4
    <3> QED BY <1>5, <3>1, AgreeKeeps DEF ViewKept
  <2>3. CASE d = c.doc /\ y.current
    <3>1. Before(s)' = View(s)
      <4>1. View(s)'[r] = x
        BY <1>2, <1>3 DEF Put
      <4>2. [x EXCEPT !.current = TRUE] = y
        BY <1>2, <2>3 DEF Row
      <4>3. IsTable(View(s))
        BY ViewType DEF IInv, LInv
      <4>4. Put(Put(View(s), r, x), r, y) = View(s)
        BY <1>2, <4>3 DEF Put, IsTable
      <4>5. call'[s].cur = r
        BY <1>2, <1>3 DEF CallType
      <4>6. Before(s)' = Put(View(s)', r, [View(s)'[r] EXCEPT !.current = TRUE])
        BY <4>5 DEF Before
      <4>7. Before(s)' = Put(View(s)', r, y)
        BY <4>1, <4>2, <4>6
      <4> QED BY <1>3, <4>4, <4>7
    <3>2. Demoted(s)' /\ call'[s].doc = d /\ call'[s].cur = r
      BY <1>2, <1>3, <2>3 DEF Demoted, At, CallType
    <3>3. r \in DOMAIN mine'[s] /\ (r \in DOMAIN revs' => revs'[r].current)
      BY <1>2, <1>3, <1>6, <2>3 DEF Put, View, Over
    <3> QED BY <1>5, <3>1, <3>2, <3>3 DEF ViewKept
  <2> QED BY <2>2, <2>3
<1> QED BY <1>1, <1>3, <1>7, <1>8, WrittenKept

LEMMA RetireStep ==
  ASSUME IInv, NEW s \in Sessions, Retire(s)
  PROVE  Ordered'
<1> DEFINE r == Head(call[s].todo).prop
<1>1. PICK x : Writes(s, r, x) /\ Version(s, r, x) /\ x.status # "approved"
  BY RetireWrites DEF IInv
<1>2. /\ revs' = revs /\ mine'[s] = Put(mine[s], r, x) /\ View(s)' = Put(View(s), r, x)
      /\ \A t \in Sessions \ {s} : call'[t] = call[t]
  BY <1>1, ViewAfterWrite DEF Retire, Writes, IInv, LInv, TypeOK
<1>3. ASSUME NEW d \in Docs, Holds(s, d)' PROVE Holds(s, d)
  BY <1>1, <1>2, <1>3 DEF Holds, Put
<1>4. ASSUME NEW d \in Docs PROVE ViewKept(s, d)'
  <2>1. WellKept(View(s), d) /\ OnlyApproved(View(s))
    BY ViewApproved DEF Retire, IInv, Ordered, ViewKept, Demoted, At
  <2>2. Agree(View(s), View(s)', d)
    BY <1>1, <1>2, <2>1, PutAgrees DEF Version, SameState
  <2> QED BY <2>1, <2>2, AgreeKeeps DEF ViewKept
<1> QED BY <1>1, <1>2, <1>3, <1>4, WrittenKept

\* The row a call inserts: the next state of its document, or a proposal.
LEMMA NextRow ==
  ASSUME LInv, NEW s \in Sessions, At(s, "insert")
  PROVE  LET c == call[s]
             x == NewRow(s)
             o == View(s)[c.cur]
         IN /\ x.current <=> x.status = "approved"
            /\ x.doc = c.doc
            /\ x.current /\ c.cur = NoRev => x.seq = 1
            /\ x.current /\ c.cur # NoRev =>
                 /\ x.seq = o.seq + 1
                 /\ \A f \in Fields \ x.fields : x.data[f] = o.data[f]
            /\ ~x.current => c.verb # "decide" /\ c.user \in Proposers
<1> DEFINE c == call[s]
<1>1. c \in CallType /\ HasReadIn(s) /\ PathOf(s)
  BY DEF LInv, TypeOK, Reads
<1>2. CASE c.verb = "decide"
  <2>1. Proposal(s) \in Row /\ Proposal(s).doc = c.doc
    BY <1>1, <1>2, ProposalRow DEF LInv, HasReadIn, Proposal, At
  <2> DEFINE x == MergedRow(s)
  <2>2. /\ x.doc = c.doc /\ x.status = "approved" /\ x.current /\ x.data = Merged(s)
        /\ x.fields = Proposal(s).fields
        /\ x.seq = IF c.cur = NoRev THEN 1 ELSE View(s)[c.cur].seq + 1
    BY <2>1 DEF MergedRow, Row
  <2>3. ASSUME c.cur # NoRev, NEW f \in Fields \ Proposal(s).fields
        PROVE  Merged(s)[f] = View(s)[c.cur].data[f]
    BY <2>3 DEF Merged, Overlay, Slice
  <2> QED BY <1>2, <2>2, <2>3 DEF NewRow
<1>3. CASE c.verb # "decide"
  <2>1. c.cur = NoRev <=> c.verb = "create"
    BY <1>1, <1>3 DEF PathOf, At
  <2> DEFINE x == WrittenRow(s)
             fresh == c.verb = "create"
  <2>2. /\ x.doc = c.doc /\ (x.current <=> c.user \notin Proposers)
        /\ x.status = (IF c.user \notin Proposers THEN "approved" ELSE "pending")
        /\ x.fields = DOMAIN c.patch
        /\ x.seq = (IF fresh THEN 0 ELSE View(s)[c.cur].seq) + 1
        /\ x.data = Overlay(IF fresh THEN Blank ELSE View(s)[c.cur].data, c.patch)
    BY DEF WrittenRow
  <2>3. ASSUME c.cur # NoRev, NEW f \in Fields \ DOMAIN c.patch
        PROVE  x.data[f] = View(s)[c.cur].data[f]
    BY <2>1, <2>2, <2>3 DEF Overlay
  <2> HIDE DEF x
  <2>4. c.cur = NoRev => x.seq = 1
    BY <2>1, <2>2
  <2>5. NewRow(s) = x
    BY <1>3 DEF NewRow, x
  <2> QED BY <1>3, <2>1, <2>2, <2>3, <2>4, <2>5
<1> QED BY <1>2, <1>3

LEMMA InsertStep ==
  ASSUME IInv, NEW s \in Sessions, Insert(s)
  PROVE  Ordered'
<1> DEFINE c == call[s]
           n == NewRev
           x == NewRow(s)
<1>1. CASE Drops(s)
  BY <1>1, DropsStep
<1>2. CASE ~Drops(s)
  <2>1. /\ Writes(s, n, x) /\ Version(s, n, x) /\ n \notin DOMAIN View(s)
        /\ x.current => CurrentOf(View(s), x.doc) = {} /\ ~IndexBusy(s, x.doc)
        /\ At(s, "insert") /\ x \in Row
    BY <1>2, InsertWrites DEF IInv, Insert, Version
  <2>2. /\ revs' = revs /\ mine'[s] = Put(mine[s], n, x) /\ View(s)' = Put(View(s), n, x)
        /\ \A t \in Sessions \ {s} : call'[t] = call[t]
    <3>1. \A t \in Sessions \ {s} : call'[t] = call[t]
      BY <1>2, InsertWrites DEF IInv, LInv, TypeOK
    <3> QED BY <2>1, <3>1, ViewAfterWrite DEF Writes, IInv, LInv, TypeOK
  <2>3. /\ (x.current <=> x.status = "approved") /\ x.doc = c.doc
        /\ (x.current /\ c.cur = NoRev => x.seq = 1)
        /\ (x.current /\ c.cur # NoRev => /\ x.seq = View(s)[c.cur].seq + 1
                                          /\ \A f \in Fields \ x.fields : x.data[f] = View(s)[c.cur].data[f])
        /\ (~x.current => c.verb # "decide" /\ c.user \in Proposers)
    BY <2>1, NextRow DEF IInv
  <2>4. c.cur # NoRev => /\ c.cur \in DOMAIN View(s)
                         /\ View(s)[c.cur].status = "approved" /\ View(s)[c.cur].doc = c.doc
    BY <2>1 DEF IInv, LInv, Reads, HasReadIn, At
  <2>5. IsTable(View(s)) /\ OnlyApproved(View(s))
    BY ViewType, ViewApproved DEF IInv, LInv
  <2> HIDE DEF x, n
  <2>6. ASSUME NEW d \in Docs, Holds(s, d)', ~Holds(s, d)
        PROVE  /\ \A t \in Sessions \ {s} : ~Holds(t, d)
               /\ CurrentOf(revs, d) \subseteq DOMAIN mine'[s]
    <3>1. x.doc = d /\ x.current
      BY <2>2, <2>3, <2>6 DEF Holds, Put
    <3>2. CurrentOf(revs, d) \subseteq DOMAIN mine[s]
      BY <2>1, <3>1 DEF CurrentOf, View, Over
    <3> QED BY <2>1, <2>2, <3>1, <3>2 DEF IndexBusy, Put
  <2>7. ASSUME NEW d \in Docs PROVE ViewKept(s, d)'
    <3>1. ViewKept(s, d)
      BY DEF IInv, Ordered
    <3>2. CASE ~x.current \/ d # c.doc
      <4>1. WellKept(View(s), d)
        BY <2>3, <3>1, <3>2 DEF ViewKept, Demoted
      <4>2. Agree(View(s), View(s)', d)
        BY <2>1, <2>2, <2>3, <2>5, <3>2, PutAgrees
      <4> QED BY <4>1, <4>2, AgreeKeeps DEF ViewKept
    <3>3. CASE x.current /\ d = c.doc /\ WellKept(View(s), d)
      <4>1. ApprovedOf(View(s), d) = {}
        BY <2>1, <2>3, <3>3 DEF WellKept, OneCurrentIn
      <4>2. c.cur = NoRev
        BY <2>4, <3>3, <4>1 DEF ApprovedOf
      <4>3. WellKept(Put(View(s), n, x), d)
        BY <2>1, <2>3, <2>5, <3>3, <4>1, <4>2, FirstState
      <4> QED BY <2>2, <4>3 DEF ViewKept
    <3>4. CASE x.current /\ d = c.doc /\ ~WellKept(View(s), d)
      <4>1. c.cur # NoRev /\ WellKept(Before(s), d)
        BY <3>1, <3>4 DEF ViewKept, Demoted
      <4>2. WellKept(Put(View(s), c.cur, [View(s)[c.cur] EXCEPT !.current = TRUE]), d)
        BY <4>1 DEF Before
      <4>3. WellKept(Put(View(s), n, x), d)
        BY <2>1, <2>3, <2>4, <2>5, <3>4, <4>1, <4>2, NextState
      <4> QED BY <2>2, <4>3 DEF ViewKept
    <3> QED BY <3>2, <3>3, <3>4
  <2> QED BY <2>1, <2>2, <2>6, <2>7, WrittenKept
<1> QED BY <1>1, <1>2

---------------------------------------------------------------------------
(* The order of the states, in every behaviour *)

LEMMA OrderedInit == Init => Ordered
<1> SUFFICES ASSUME Init PROVE Ordered
  OBVIOUS
<1>1. revs = NoRows /\ \A s \in Sessions : mine[s] = NoRows
  BY DEF Init
<1>2. Exclusive /\ Demotes
  BY <1>1, EmptyTables DEF Exclusive, Demotes, Holds
<1>3. ASSUME NEW d \in Docs PROVE WellKept(revs, d)
  BY <1>1, EmptyTables DEF WellKept, OneCurrentIn, ContiguousIn, CarriedForwardIn, ApprovedOf, CurrentOf
<1>4. ASSUME NEW d \in Docs, NEW s \in Sessions PROVE ViewKept(s, d)
  BY <1>1, <1>3, EmptyTables, NothingWritten DEF ViewKept, View
<1> QED BY <1>2, <1>3, <1>4 DEF Ordered

LEMMA OrderedStep == IInv /\ [Next]_vars => Ordered'
<1> SUFFICES ASSUME IInv, [Next]_vars PROVE Ordered'
  OBVIOUS
<1>1. CASE UNCHANGED vars \/ Exhausted
  BY <1>1, QuietStep DEF vars, Exhausted
<1>2. ASSUME NEW s \in Sessions, Begin(s) \/ Read(s) \/ Write(s) \/ Finish(s) \/ Lost(s) PROVE Ordered'
  <2>1. \A t \in Sessions \ {s} : call'[t] = call[t]
    BY <1>2, OthersKept DEF IInv, LInv
  <2>2. CASE Begin(s)
    <3>1. ~At(s, "insert") /\ UNCHANGED <<revs, mine>>
      <4>1. \A u, verb, d, patch, e : BeginMutate(s, u, verb, d, patch, e) => UNCHANGED <<revs, mine>>
        BY DEF BeginMutate
      <4>2. \A u, d, target, e : BeginRevert(s, u, d, target, e) => UNCHANGED <<revs, mine>>
        BY DEF BeginRevert
      <4>3. \A u, todo : BeginDecide(s, u, todo) => UNCHANGED <<revs, mine>>
        BY DEF BeginDecide
      <4> QED BY <2>2, <4>1, <4>2, <4>3 DEF Begin, At
    <3> QED BY <2>1, <3>1, QuietStep
  <2>3. CASE Read(s)
    <3>1. Drops(s) \/ (~At(s, "insert") /\ UNCHANGED <<revs, mine>>)
      BY <2>3 DEF Read, ReadForCreate, ReadForRevise, LoadPending, NextDecision, ScanConflicts, Refuse, Drops, At
    <3> QED BY <2>1, <3>1, QuietStep, DropsStep
  <2>4. CASE Write(s)
    BY <2>4, DemoteStep, InsertStep, RetireStep DEF Write
  <2>5. CASE Finish(s) \/ Lost(s)
    <3>1. Drops(s) \/ Commit(s) \/ (~At(s, "insert") /\ UNCHANGED <<revs, mine>>)
      BY <2>5 DEF Finish, Lost, Audit, AuditFails, DeadlockVictim, Refuse, Drops, At
    <3> QED BY <2>1, <3>1, QuietStep, DropsStep, CommitStep
  <2> QED BY <1>2, <2>2, <2>3, <2>4, <2>5
<1> QED BY <1>1, <1>2 DEF Next

LEMMA Inductive == Spec => []IInv
<1>1. Init => IInv
  BY LInvInit, OrderedInit DEF IInv
<1>2. IInv /\ [Next]_vars => IInv'
  BY LInvStep, OrderedStep DEF IInv
<1> QED BY <1>1, <1>2, PTL DEF Spec

\* A document that has a state has one current revision, its latest one, however
\* many writers and deciders overlap.
THEOREM OneCurrentAlways == Spec => []OneCurrent
<1>1. IInv => OneCurrent
  BY DEF IInv, Ordered, WellKept, OneCurrent
<1> QED BY <1>1, Inductive, PTL

\* The approved revisions of a document are numbered 1 .. n without gap or repeat,
\* whoever wrote or approved them.
THEOREM ContiguousAlways == Spec => []Contiguous
<1>1. IInv => Contiguous
  BY DEF IInv, Ordered, WellKept, Contiguous
<1> QED BY <1>1, Inductive, PTL

\* No writer and no approval undoes another unseen: what a revision does not claim
\* to change is what the revision before it held.
THEOREM NoLostUpdateAlways == Spec => []NoLostUpdate
<1>1. IInv => NoLostUpdate
  BY DEF IInv, Ordered, WellKept, NoLostUpdate
<1> QED BY <1>1, Inductive, PTL

---------------------------------------------------------------------------
(* What a commit was allowed to do, and what the trail says of it: the invariant *)

\* What a check has found in one statement still holds when the row is written.
CheckedIn(s) ==
  LET c == call[s]
  IN /\ c.verb = "decide" /\ c.pc \in {"scan", "demote", "insert", "retire"} =>
          MayDecide(c.user, Proposal(s), Head(c.todo).action)
     /\ c.verb = "decide" /\ c.pc \in {"scan", "demote", "insert"} => Head(c.todo).action = "approve"
     /\ c.pc = "scan" => Proposal(s).op # "create"
     /\ c.pc \in {"demote", "insert"} =>
          /\ c.verb = "create" => Overlay(Blank, c.patch) \in Reach[c.user]
          /\ c.verb = "update" => Overlay(View(s)[c.cur].data, c.patch) \in Reach[c.user]
          /\ c.verb = "decide" /\ Proposal(s).op # "delete" => Merged(s) \in Reach[c.user]

\* Row x, which caller u adds, is one that u may add.
MayAdd(u, x) ==
  x.status = "approved" =>
    /\ x.op # "delete" => x.data \in Reach[u]
    /\ x.by \in Proposers => u \in Approvers /\ u # x.by /\ x.fields \subseteq Allowed[u]

\* A row that is new is on the list of what is to be recorded, and nobody else has recorded
\* anything under its id.
NewIn(s) ==
  \A r \in DOMAIN mine[s] \ DOMAIN revs :
    /\ r \in call[s].done
    /\ \A u \in Users : <<r, u>> \in audited => u = call[s].user
    /\ MayAdd(call[s].user, mine[s][r])

\* What is to be recorded was written, and is new or has been rejected, by somebody else.
ListedIn(s) ==
  LET c == call[s]
  IN /\ c.done \subseteq DOMAIN mine[s]
     /\ \A r \in c.done \cap DOMAIN revs : mine[s][r].status # "approved"
     /\ \A r \in DOMAIN mine[s] : mine[s][r].status = "rejected" => r \in c.done /\ mine[s][r].by # c.user
     /\ At(s, "commit") /\ AuditOn => c.done \X {c.user} \subseteq audited

Recorded == AuditedWrites /\ NoEscape /\ SecondPerson

RInv ==
  /\ LInv /\ Recorded
  /\ \A s \in Sessions : CheckedIn(s) /\ NewIn(s) /\ ListedIn(s)

---------------------------------------------------------------------------
(* The other sessions *)

\* A call that goes on, if at all, from its demotion to its insert, or from there to the
\* proposal row, keeps what it has checked while its rows keep their state.
LEMMA CheckedKept ==
  ASSUME LInv, NEW t \in Sessions, CheckedIn(t),
         call'[t].verb = call[t].verb, call'[t].user = call[t].user, call'[t].cur = call[t].cur,
         call'[t].todo = call[t].todo, call'[t].patch = call[t].patch,
         \/ call'[t].pc = call[t].pc
         \/ call[t].pc = "demote" /\ call'[t].pc = "insert"
         \/ call[t].pc = "insert" /\ call'[t].pc \notin {"scan", "demote", "insert"},
         \A r \in DOMAIN View(t) : r \in DOMAIN View(t)' /\ SameState(View(t)'[r], View(t)[r])
  PROVE  CheckedIn(t)'
<1> DEFINE c == call[t]
           d == call'[t]
<1>0. HasReadIn(t) /\ PathOf(t)
  BY DEF LInv, Reads
<1>1. ASSUME c.verb = "decide", c.pc \in {"scan", "demote", "insert", "retire"}
      PROVE  SameState(Proposal(t)', Proposal(t))
  BY <1>0, <1>1 DEF HasReadIn, Proposal
<1>2. ASSUME c.pc \in {"scan", "demote", "insert"}, c.cur # NoRev
      PROVE  SameState(View(t)'[c.cur], View(t)[c.cur])
  BY <1>0, <1>2 DEF HasReadIn
<1>3. ASSUME c.verb = "decide", c.pc \in {"demote", "insert"}
      PROVE  Merged(t)' = Merged(t)
  BY <1>1, <1>2, <1>3 DEF Merged, SameState
<1>4. c.pc = "scan" => c.verb = "decide"
  BY <1>0 DEF PathOf
<1>5. c.verb = "update" /\ c.pc \in {"demote", "insert"} => c.cur # NoRev
  BY <1>0 DEF PathOf, At
<1>6. d.verb = "decide" /\ d.pc \in {"scan", "demote", "insert", "retire"} =>
        c.pc \in {"scan", "demote", "insert", "retire"}
  OBVIOUS
<1>7. d.pc \in {"scan", "demote", "insert"} => c.pc \in {"scan", "demote", "insert"}
  OBVIOUS
<1>8. /\ d.verb = "decide" /\ d.pc \in {"scan", "demote", "insert", "retire"} =>
           MayDecide(d.user, Proposal(t)', Head(d.todo).action)
      /\ d.pc = "scan" => Proposal(t)'.op # "create"
  BY <1>1, <1>4, <1>6 DEF CheckedIn, MayDecide, SameState
<1>9. ASSUME d.pc \in {"demote", "insert"}
      PROVE  /\ d.verb = "create" => Overlay(Blank, d.patch) \in Reach[d.user]
             /\ d.verb = "update" => Overlay(View(t)'[d.cur].data, d.patch) \in Reach[d.user]
             /\ d.verb = "decide" /\ Proposal(t)'.op # "delete" => Merged(t)' \in Reach[d.user]
  <2>1. c.pc \in {"demote", "insert"}
    BY <1>9
  <2> QED BY <1>1, <1>2, <1>3, <1>5, <2>1 DEF CheckedIn, SameState
<1>10. d.verb = "decide" /\ d.pc \in {"scan", "demote", "insert"} => Head(d.todo).action = "approve"
  BY <1>7 DEF CheckedIn
<1> QED BY <1>8, <1>9, <1>10 DEF CheckedIn, MayDecide

LEMMA OthersChecked ==
  ASSUME LInv, NEW s \in Sessions,
         Begin(s) \/ Read(s) \/ Write(s) \/ Finish(s) \/ Lost(s),
         NEW t \in Sessions, t # s, CheckedIn(t)
  PROVE  CheckedIn(t)'
<1>1. call'[t] = call[t] /\ mine'[t] = mine[t] /\ (revs' = revs \/ Commit(s))
  BY OthersKept DEF LInv
<1>2. CASE Commit(s)
  BY <1>1, <1>2, ViewAfterCommit, CheckedKept
<1>3. CASE ~Commit(s)
  <2>1. \A r \in DOMAIN View(t) : r \in DOMAIN View(t)' /\ SameState(View(t)'[r], View(t)[r])
    BY <1>1, <1>3 DEF View, Over, SameState
  <2> QED BY <1>1, <2>1, CheckedKept
<1> QED BY <1>2, <1>3

\* What a step of session s adds to the trail is what s has listed; only its commit
\* changes the table.
LEMMA TrailGrows ==
  ASSUME NEW s \in Sessions, Begin(s) \/ Read(s) \/ Write(s) \/ Finish(s) \/ Lost(s)
  PROVE  /\ audited \subseteq audited' /\ audited' \ audited \subseteq call[s].done \X {call[s].user}
         /\ revs' = revs \/ Commit(s)
<1>1. CASE Begin(s)
  <2>1. \A u, verb, d, patch, e : BeginMutate(s, u, verb, d, patch, e) => UNCHANGED <<revs, audited>>
    BY DEF BeginMutate
  <2>2. \A u, d, target, e : BeginRevert(s, u, d, target, e) => UNCHANGED <<revs, audited>>
    BY DEF BeginRevert
  <2>3. \A u, todo : BeginDecide(s, u, todo) => UNCHANGED <<revs, audited>>
    BY DEF BeginDecide
  <2> QED BY <1>1, <2>1, <2>2, <2>3 DEF Begin
<1>2. CASE Read(s)
  BY <1>2 DEF Read, ReadForCreate, ReadForRevise, LoadPending, NextDecision, ScanConflicts, Refuse, Goto
<1>3. CASE Write(s)
  BY <1>3 DEF Write, Demote, Insert, Retire, Refuse, Goto
<1>4. CASE Finish(s) \/ Lost(s)
  BY <1>4 DEF Finish, Lost, Audit, AuditFails, Commit, DeadlockVictim, Refuse, Goto
<1> QED BY <1>1, <1>2, <1>3, <1>4

LEMMA OthersListed ==
  ASSUME LInv, NEW s \in Sessions, ListedIn(s),
         Begin(s) \/ Read(s) \/ Write(s) \/ Finish(s) \/ Lost(s),
         NEW t \in Sessions, t # s, NewIn(t), ListedIn(t)
  PROVE  NewIn(t)' /\ ListedIn(t)'
<1>1. call'[t] = call[t] /\ mine'[t] = mine[t] /\ (revs' = revs \/ Commit(s))
  BY OthersKept DEF LInv
<1>2. DOMAIN revs \subseteq DOMAIN revs' /\ DOMAIN revs' \subseteq DOMAIN revs \cup DOMAIN mine[s]
  BY <1>1 DEF Commit, View, Over
<1>3. DOMAIN mine[t] \cap DOMAIN mine[s] = {}
  BY DEF LInv, RowLocks
<1>4. audited \subseteq audited' /\ \A r \in DOMAIN mine[t], u \in Users : <<r, u>> \in audited' => <<r, u>> \in audited
  BY <1>3, TrailGrows DEF ListedIn
<1>5. NewIn(t)'
  BY <1>1, <1>2, <1>4 DEF NewIn
<1>6. ListedIn(t)'
  BY <1>1, <1>2, <1>3, <1>4 DEF ListedIn, At
<1> QED BY <1>5, <1>6

---------------------------------------------------------------------------
(* The session that moves *)

Own(s) == CheckedIn(s) /\ NewIn(s) /\ ListedIn(s)

LEMMA DroppedOwn ==
  ASSUME NEW s \in Sessions, call'[s] = Idle, mine'[s] = NoRows
  PROVE  Own(s)'
BY EmptyTables DEF Own, CheckedIn, NewIn, ListedIn, Idle, At

LEMMA BeginOwn ==
  ASSUME LInv, NEW s \in Sessions, Begin(s)
  PROVE  Own(s)'
<1> DEFINE Fresh == call'[s].done = {} /\ call'[s].pc \in {"read", "load"} /\ UNCHANGED <<revs, mine, audited>>
<1>1. \A u, verb, d, patch, e : BeginMutate(s, u, verb, d, patch, e) => Fresh
  BY DEF BeginMutate, LInv, TypeOK, Idle
<1>2. \A u, d, target, e : BeginRevert(s, u, d, target, e) => Fresh
  BY DEF BeginRevert, LInv, TypeOK, Idle
<1>3. \A u, todo : BeginDecide(s, u, todo) => Fresh
  BY DEF BeginDecide, LInv, TypeOK, Idle
<1>4. Fresh
  BY <1>1, <1>2, <1>3 DEF Begin
<1>5. mine[s] = NoRows
  BY DEF Begin, LInv, Reads, PathOf
<1> QED BY <1>4, <1>5, EmptyTables DEF Own, CheckedIn, NewIn, ListedIn, At

\* A statement that only reads leaves the lists as they are.
LEMMA ListsStay ==
  ASSUME NEW s \in Sessions, UNCHANGED <<revs, mine, audited>>, NewIn(s), ListedIn(s),
         call'[s].done = call[s].done, call'[s].user = call[s].user, call'[s].pc # "commit"
  PROVE  NewIn(s)' /\ ListedIn(s)'
<1>1. NewIn(s)'
  BY DEF NewIn
<1>2. ListedIn(s)'
  BY DEF ListedIn, At
<1> QED BY <1>1, <1>2

LEMMA ReadOwn ==
  ASSUME LInv, NEW s \in Sessions, Own(s), Read(s)
  PROVE  Own(s)'
<1> DEFINE c == call[s]
<1>0. c \in CallType /\ HasReadIn(s) /\ PathOf(s)
  BY DEF LInv, TypeOK, Reads
<1>1. ASSUME Refuse(s) PROVE Own(s)'
  BY <1>1, DroppedOwn DEF Refuse, LInv, TypeOK
<1>2. ASSUME UNCHANGED <<revs, mine>> PROVE View(s)' = View(s)
  BY <1>2 DEF View, Over
<1>3. ASSUME UNCHANGED <<revs, mine, audited>>, call'[s].done = c.done, call'[s].user = c.user,
             call'[s].pc # "commit", CheckedIn(s)'
      PROVE  Own(s)'
  BY <1>3, ListsStay DEF Own
<1>4. CASE ReadForCreate(s)
  <2>1. ASSUME Goto(s, "insert"), UNCHANGED <<revs, mine, audited>>,
               Overlay(Blank, c.patch) \in Reach[c.user]
        PROVE  Own(s)'
    <3>1. call'[s] = [c EXCEPT !.pc = "insert"] /\ c.verb = "create"
      BY <1>4, <2>1 DEF ReadForCreate, Goto, LInv, TypeOK
    <3>2. CheckedIn(s)'
      BY <1>0, <2>1, <3>1 DEF CheckedIn, CallType
    <3> QED BY <1>0, <1>3, <2>1, <3>1, <3>2 DEF CallType
  <2> QED BY <1>1, <1>4, <2>1 DEF ReadForCreate
<1>5. CASE ReadForRevise(s)
  <2> DEFINE cur == CurrentRevision(View(s), c.doc)
             next == [c EXCEPT !.cur = cur, !.pc = IF c.user \in Proposers THEN "insert" ELSE "demote"]
  <2>1. ASSUME UNCHANGED <<revs, mine, audited>>, call'[s] = next, FilterAdmits(c, View(s)[cur].data)
        PROVE  Own(s)'
    <3>1. c.verb \in {"update", "delete"} /\ View(s)' = View(s)
      BY <1>2, <1>5, <2>1 DEF ReadForRevise
    <3>2. /\ next.pc \in {"demote", "insert"} /\ next.cur = cur /\ next.verb = c.verb
          /\ next.patch = c.patch /\ next.user = c.user /\ next.done = c.done
      BY <1>0 DEF CallType
    <3>3. CheckedIn(s)'
      BY <2>1, <3>1, <3>2 DEF CheckedIn, FilterAdmits
    <3> QED BY <1>3, <2>1, <3>2, <3>3
  <2>2. \/ UNCHANGED <<revs, mine, audited>> /\ call'[s] = next /\ FilterAdmits(c, View(s)[cur].data)
        \/ Refuse(s)
    BY <1>5 DEF ReadForRevise, LInv, TypeOK
  <2> QED BY <1>1, <2>1, <2>2
<1>6. CASE LoadPending(s)
  <2> DEFINE found == {p \in DOMAIN View(s) : /\ \E i \in 1 .. Len(c.todo) : c.todo[i].prop = p
                                              /\ View(s)[p].status = "pending"}
  <2>1. call'[s] = [c EXCEPT !.pc = "next", !.found = found] /\ UNCHANGED <<revs, mine, audited>>
    BY <1>6 DEF LoadPending, LInv, TypeOK
  <2>2. call'[s].pc = "next" /\ call'[s].done = c.done /\ call'[s].user = c.user
    BY <1>0, <2>1 DEF CallType
  <2>3. CheckedIn(s)'
    BY <2>2 DEF CheckedIn
  <2> QED BY <1>3, <2>1, <2>2, <2>3
<1>7. CASE NextDecision(s)
  <2> DEFINE h == Head(c.todo)
             p == Proposal(s)
             cur == CurrentRevision(View(s), p.doc)
             next == [c EXCEPT !.cur = IF p.op = "create" THEN NoRev ELSE cur, !.doc = p.doc,
                               !.pc = IF h.action = "reject" THEN "retire"
                                      ELSE IF p.op = "create" THEN "insert" ELSE "scan"]
  <2>1. \/ /\ MayDecide(c.user, p, h.action) /\ call'[s] = next /\ UNCHANGED <<revs, mine, audited>>
           /\ (h.action = "approve" /\ p.op = "create" => p.data \in Reach[c.user])
        \/ Refuse(s)
    BY <1>7 DEF NextDecision, LInv, TypeOK
  <2>2. h.action \in {"approve", "reject"} /\ c.verb = "decide"
    <3>1. c.todo \in Seq(Decision) /\ c.todo # <<>> /\ c.verb = "decide"
      BY <1>0, <1>7 DEF NextDecision, CallType, PathOf, At
    <3>2. h \in Decision
      BY <3>1
    <3> QED BY <3>1, <3>2 DEF Decision, Actions
  <2>3. ASSUME MayDecide(c.user, p, h.action), call'[s] = next, UNCHANGED <<revs, mine, audited>>,
               h.action = "approve" /\ p.op = "create" => p.data \in Reach[c.user]
        PROVE  Own(s)'
    <3>1. /\ next.todo = c.todo /\ next.verb = "decide" /\ next.user = c.user /\ next.done = c.done
          /\ next.pc = IF h.action = "reject" THEN "retire" ELSE IF p.op = "create" THEN "insert" ELSE "scan"
          /\ p.op = "create" => next.cur = NoRev
      BY <1>0, <2>2 DEF CallType
    <3>2. View(s)' = View(s) /\ Proposal(s)' = p
      BY <1>2, <2>3, <3>1 DEF Proposal
    <3>3. next.pc = "insert" => p.op = "create" /\ h.action = "approve" /\ Merged(s)' = p.data
      BY <2>2, <2>3, <3>1, <3>2 DEF Merged
    <3>4. next.pc \in {"retire", "insert", "scan"}
      BY <3>1
    <3>5. CheckedIn(s)'
      BY <2>2, <2>3, <3>1, <3>2, <3>3, <3>4 DEF CheckedIn
    <3> QED BY <1>3, <2>3, <3>1, <3>4, <3>5
  <2> QED BY <1>1, <2>1, <2>3
<1>8. CASE ScanConflicts(s)
  <2>1. ASSUME Goto(s, "demote"), UNCHANGED <<revs, mine, audited>>,
               Proposal(s).op = "update" => Merged(s) \in Reach[c.user]
        PROVE  Own(s)'
    <3>1. call'[s] = [c EXCEPT !.pc = "demote"] /\ c.pc = "scan" /\ c.verb = "decide"
      BY <1>0, <1>8, <2>1 DEF ScanConflicts, Goto, LInv, TypeOK, At, PathOf
    <3>2. View(s)' = View(s) /\ Proposal(s)' = Proposal(s) /\ Merged(s)' = Merged(s)
      BY <1>0, <1>2, <2>1, <3>1 DEF Proposal, Merged, CallType
    <3>3. Proposal(s).op \in {"update", "delete"}
      <4>1. Proposal(s) \in Row
        BY <1>0, <3>1, ProposalRow DEF LInv, HasReadIn
      <4> QED BY <3>1, <4>1 DEF Own, CheckedIn, Row, Ops
    <3>4. CheckedIn(s)'
      BY <1>0, <2>1, <3>1, <3>2, <3>3 DEF Own, CheckedIn, CallType
    <3> QED BY <1>0, <1>3, <2>1, <3>1, <3>4 DEF CallType
  <2> QED BY <1>1, <1>8, <2>1 DEF ScanConflicts
<1> QED BY <1>4, <1>5, <1>6, <1>7, <1>8 DEF Read

LEMMA DemoteOwn ==
  ASSUME LInv, NEW s \in Sessions, Own(s), Demote(s)
  PROVE  Own(s)'
<1> DEFINE c == call[s]
           r == c.cur
           x == [View(s)[r] EXCEPT !.current = FALSE]
<1>0. c \in CallType /\ HasReadIn(s) /\ PathOf(s) /\ c.pc = "demote"
  BY DEF LInv, TypeOK, Reads, Demote, At
<1>1. r \in DOMAIN View(s) /\ View(s)[r].status = "approved" /\ View(s)[r] \in Row
  BY <1>0, ViewType DEF HasReadIn, PathOf, At, LInv, IsTable
<1>2. mine'[s] = Put(mine[s], r, x) /\ UNCHANGED <<revs, audited>>
  BY DEF Demote, LInv, TypeOK
<1>3. call'[s] = [c EXCEPT !.pc = "insert"]
  BY DEF Demote, Goto, LInv, TypeOK
<1>4. x.status = "approved" /\ SameState(x, View(s)[r])
  BY <1>1 DEF SameState, Row
<1>5. /\ call'[s].verb = c.verb /\ call'[s].user = c.user /\ call'[s].cur = c.cur /\ call'[s].todo = c.todo
      /\ call'[s].patch = c.patch /\ call'[s].done = c.done /\ call'[s].pc = "insert"
  BY <1>0, <1>3 DEF CallType
<1>6. CheckedIn(s)'
  <2>1. \A q \in DOMAIN View(s) : q \in DOMAIN View(s)' /\ SameState(View(s)'[q], View(s)[q])
    BY DemoteWrites, ViewAfterWrite
  <2> QED BY <1>0, <1>5, <2>1, CheckedKept DEF Own
<1>7. \A q \in DOMAIN mine'[s] : q # r => q \in DOMAIN mine[s] /\ mine'[s][q] = mine[s][q]
  BY <1>2 DEF Put
<1>8. r \in DOMAIN mine[s] => View(s)[r] = mine[s][r]
  BY DEF View, Over
<1>9. r \in DOMAIN mine'[s] /\ mine'[s][r] = x /\ DOMAIN mine[s] \subseteq DOMAIN mine'[s]
        /\ (r \notin DOMAIN revs => r \in DOMAIN mine[s])
  BY <1>1, <1>2 DEF Put, View, Over
<1> HIDE DEF x
<1>10. NewIn(s)'
  <2> SUFFICES ASSUME NEW q \in DOMAIN mine'[s] \ DOMAIN revs
               PROVE  /\ q \in call[s].done /\ \A u \in Users : <<q, u>> \in audited => u = call[s].user
                      /\ MayAdd(call[s].user, mine'[s][q])
    BY <1>2, <1>5 DEF NewIn
  <2>1. q \in DOMAIN mine[s] \ DOMAIN revs /\ SameState(mine'[s][q], mine[s][q])
    BY <1>4, <1>7, <1>8, <1>9 DEF SameState
  <2> QED BY <2>1 DEF Own, NewIn, MayAdd, SameState
<1>11. ListedIn(s)'
  <2>1. call'[s].done \subseteq DOMAIN mine'[s] /\ ~At(s, "commit")'
    BY <1>5, <1>9 DEF Own, ListedIn, At
  <2>2. r \notin call[s].done \cap DOMAIN revs
    BY <1>1, <1>8 DEF Own, ListedIn
  <2>3. \A q \in call[s].done \cap DOMAIN revs : mine'[s][q].status # "approved"
    BY <1>7, <1>9, <2>1, <2>2 DEF Own, ListedIn
  <2>4. \A q \in DOMAIN mine'[s] : mine'[s][q].status = "rejected" => q \in call[s].done /\ mine'[s][q].by # call[s].user
    BY <1>4, <1>7, <1>9 DEF Own, ListedIn
  <2> QED BY <1>2, <1>5, <2>1, <2>3, <2>4 DEF ListedIn
<1> QED BY <1>6, <1>10, <1>11 DEF Own

\* The row an insert adds is one its caller may add.
LEMMA NewRowMayBe ==
  ASSUME LInv, NEW s \in Sessions, Own(s), At(s, "insert")
  PROVE  MayAdd(call[s].user, NewRow(s)) /\ NewRow(s).status # "rejected"
<1> DEFINE c == call[s]
<1>0. c \in CallType /\ HasReadIn(s) /\ PathOf(s) /\ CheckedIn(s)
  BY DEF LInv, TypeOK, Reads, Own
<1>1. CASE c.verb = "decide"
  <2>1. Proposal(s) \in Row
    BY <1>0, <1>1, ProposalRow DEF LInv, HasReadIn, At
  <2> DEFINE p == Proposal(s)
             x == MergedRow(s)
  <2>2. /\ x.op = p.op /\ x.by = p.by /\ x.fields = p.fields /\ x.status = "approved"
        /\ x.data = Merged(s)
    BY <2>1 DEF MergedRow, Row
  <2> QED BY <1>0, <1>1, <2>2 DEF NewRow, MayAdd, CheckedIn, MayDecide, At
<1>2. CASE c.verb # "decide"
  <2>1. c.verb \in {"create", "update", "delete"}
    BY <1>0, <1>2 DEF CallType, Ops
  <2> DEFINE x == WrittenRow(s)
  <2>2. /\ x.op = c.verb /\ x.by = c.user /\ x.fields = DOMAIN c.patch
        /\ x.status = IF c.user \notin Proposers THEN "approved" ELSE "pending"
        /\ c.verb = "create" => x.data = Overlay(Blank, c.patch)
        /\ c.verb = "update" => x.data = Overlay(View(s)[c.cur].data, c.patch)
    BY DEF WrittenRow
  <2> QED BY <1>0, <1>2, <2>1, <2>2 DEF NewRow, MayAdd, CheckedIn, At
<1> QED BY <1>1, <1>2

LEMMA InsertOwn ==
  ASSUME LInv, NEW s \in Sessions, Own(s), Insert(s)
  PROVE  Own(s)'
<1> DEFINE c == call[s]
           n == NewRev
           x == NewRow(s)
<1>0. c \in CallType /\ c.pc = "insert"
  BY DEF LInv, TypeOK, Insert, At
<1>1. CASE Drops(s)
  BY <1>1, DroppedOwn DEF Drops, LInv, TypeOK
<1>2. CASE ~Drops(s)
  <2>1. /\ mine'[s] = Put(mine[s], n, x) /\ revs' = revs
        /\ n \notin DOMAIN View(s) /\ n \notin DOMAIN mine[s] /\ n \notin DOMAIN revs
    BY <1>2, InsertWrites DEF Writes, LInv, TypeOK, View, Over
  <2>2. call'[s] = [c EXCEPT !.done = @ \cup {n}, !.pc = IF c.verb = "decide" THEN "retire" ELSE "audit"]
    BY <1>2, InsertWrites DEF LInv, TypeOK
  <2>3. /\ call'[s].verb = c.verb /\ call'[s].user = c.user /\ call'[s].cur = c.cur /\ call'[s].todo = c.todo
        /\ call'[s].patch = c.patch /\ call'[s].done = c.done \cup {n}
        /\ call'[s].pc \in {"retire", "audit"}
    BY <1>0, <2>2 DEF CallType
  <2>4. audited' = audited /\ \A u \in Users : <<n, u>> \notin audited
    <3>1. audited' = audited /\ FreshRevs # {}
      BY <1>2 DEF Insert, Refuse, Drops
    <3>2. n \in FreshRevs
      BY <3>1 DEF NewRev
    <3>3. n \notin {a[1] : a \in audited}
      BY <3>2 DEF FreshRevs
    <3> QED BY <3>1, <3>3
  <2>5. CheckedIn(s)'
    <3>1. \A q \in DOMAIN View(s) : q \in DOMAIN View(s)' /\ SameState(View(s)'[q], View(s)[q])
      BY <1>2, InsertWrites, ViewAfterWrite
    <3> QED BY <1>0, <2>3, <3>1, CheckedKept DEF Own
  <2>6. /\ DOMAIN mine'[s] = DOMAIN mine[s] \cup {n} /\ mine'[s][n] = x
        /\ \A q \in DOMAIN mine[s] : mine'[s][q] = mine[s][q]
    BY <2>1 DEF Put
  <2>7. MayAdd(c.user, x) /\ x.status # "rejected"
    BY NewRowMayBe DEF Insert
  <2> HIDE DEF n, x
  <2>8. NewIn(s)'
    BY <2>1, <2>3, <2>4, <2>6, <2>7 DEF Own, NewIn
  <2>9. ListedIn(s)'
    BY <2>1, <2>3, <2>4, <2>6, <2>7 DEF Own, ListedIn, At
  <2> QED BY <2>5, <2>8, <2>9 DEF Own
<1> QED BY <1>1, <1>2

LEMMA RetireOwn ==
  ASSUME LInv, NEW s \in Sessions, Own(s), Retire(s)
  PROVE  Own(s)'
<1> DEFINE c == call[s]
           h == Head(c.todo)
           r == h.prop
           x == [Proposal(s) EXCEPT !.status = IF h.action = "approve" THEN "superseded" ELSE "rejected"]
<1>0. c \in CallType /\ HasReadIn(s) /\ PathOf(s) /\ c.pc = "retire" /\ c.verb = "decide"
  BY DEF LInv, TypeOK, Reads, Retire, At, PathOf
<1>1. r \in DOMAIN View(s) /\ Proposal(s) \in Row
  BY <1>0, ProposalRow DEF LInv, HasReadIn
<1>2. mine'[s] = Put(mine[s], r, x) /\ UNCHANGED <<revs, audited>>
  BY DEF Retire, LInv, TypeOK
<1>3. /\ call'[s].user = c.user
      /\ call'[s].done = IF h.action = "reject" THEN c.done \cup {r} ELSE c.done
      /\ call'[s].pc \in {"audit", "next"}
  BY <1>0 DEF Retire, LInv, TypeOK, CallType
<1>4. h.action \in {"approve", "reject"}
  <2>1. c.todo \in Seq(Decision) /\ c.todo # <<>>
    BY <1>0 DEF CallType, PathOf, At
  <2>2. h \in Decision
    BY <2>1
  <2> QED BY <2>2 DEF Decision, Actions
<1>5. /\ x.by = Proposal(s).by /\ x.status # "approved" /\ (x.status = "rejected" => h.action = "reject")
      /\ c.user # Proposal(s).by
  BY <1>0, <1>1, <1>4 DEF Row, Own, CheckedIn, MayDecide
<1>6. CheckedIn(s)'
  BY <1>3 DEF CheckedIn
<1>7. /\ r \in DOMAIN mine'[s] /\ mine'[s][r] = x /\ (r \notin DOMAIN revs => r \in DOMAIN mine[s])
      /\ \A q \in DOMAIN mine'[s] : q # r => q \in DOMAIN mine[s] /\ mine'[s][q] = mine[s][q]
      /\ DOMAIN mine[s] \subseteq DOMAIN mine'[s]
  BY <1>1, <1>2 DEF Put, View, Over
<1> HIDE DEF x
<1>8. NewIn(s)'
  BY <1>2, <1>3, <1>5, <1>7 DEF Own, NewIn, MayAdd
<1>9. ListedIn(s)'
  BY <1>2, <1>3, <1>4, <1>5, <1>7 DEF Own, ListedIn, At
<1> QED BY <1>6, <1>8, <1>9 DEF Own

LEMMA FinishOwn ==
  ASSUME LInv, NEW s \in Sessions, Own(s), Finish(s) \/ Lost(s)
  PROVE  Own(s)'
<1> DEFINE c == call[s]
<1>1. CASE Audit(s)
  <2>1. /\ call'[s].pc = "commit" /\ call'[s].user = c.user /\ call'[s].done = c.done
        /\ UNCHANGED <<revs, mine>>
        /\ audited' = audited \cup (IF AuditOn THEN c.done \X {c.user} ELSE {})
    BY <1>1 DEF Audit, Goto, LInv, TypeOK, CallType
  <2>2. CheckedIn(s)'
    BY <2>1 DEF CheckedIn
  <2>3. NewIn(s)'
    BY <2>1 DEF Own, NewIn
  <2>4. ListedIn(s)'
    BY <2>1 DEF Own, ListedIn, At
  <2> QED BY <2>2, <2>3, <2>4 DEF Own
<1>2. CASE ~Audit(s)
  BY <1>2, DroppedOwn DEF Finish, Lost, AuditFails, Commit, DeadlockVictim, Refuse, LInv, TypeOK
<1> QED BY <1>1, <1>2

---------------------------------------------------------------------------
(* The table and the trail *)

LEMMA CommitRecorded ==
  ASSUME LInv, Recorded, NEW s \in Sessions, NewIn(s), ListedIn(s), Commit(s)
  PROVE  Recorded'
<1> DEFINE u == call[s].user
           m == mine[s]
<1>1. /\ DOMAIN revs' = DOMAIN m \cup DOMAIN revs /\ audited' = audited /\ u \in Users
      /\ \A r \in DOMAIN revs' : revs'[r] = IF r \in DOMAIN m THEN m[r] ELSE revs[r]
  BY DEF Commit, View, Over, LInv, TypeOK, CallType
<1>2. \A r \in DOMAIN m \cap DOMAIN revs : SameState(m[r], revs[r])
  BY DEF LInv, Versions
<1>3. AuditOn => \A r \in call[s].done : <<r, u>> \in audited
  BY DEF Commit, ListedIn
<1>4. \A r \in DOMAIN m \ DOMAIN revs : /\ r \in call[s].done /\ MayAdd(u, m[r])
                                        /\ \A v \in Users : <<r, v>> \in audited => v = u
  BY DEF NewIn
<1>5. \A r \in DOMAIN m : m[r].status = "rejected" => r \in call[s].done /\ m[r].by # u
  BY DEF ListedIn
<1> HIDE DEF u, m
<1>6. AuditedWrites'
  <2> SUFFICES ASSUME AuditOn, NEW r \in DOMAIN revs'
               PROVE  \E v \in Users : <<r, v>> \in audited' /\ (revs'[r].status = "rejected" => v # revs'[r].by)
    BY DEF AuditedWrites
  <2>1. CASE r \in DOMAIN m /\ (m[r].status = "rejected" \/ r \notin DOMAIN revs)
    BY <1>1, <1>3, <1>4, <1>5, <2>1
  <2>2. CASE r \in DOMAIN revs /\ (r \in DOMAIN m => m[r].status # "rejected")
    BY <1>1, <2>2 DEF Recorded, AuditedWrites
  <2> QED BY <1>1, <2>1, <2>2
<1>7. NoEscape'
  <2> SUFFICES ASSUME NEW r \in DOMAIN revs', NEW v \in Users, revs'[r].status = "approved",
                      revs'[r].op # "delete", <<r, v>> \in audited'
               PROVE  revs'[r].data \in Reach[v]
    BY DEF NoEscape
  <2>1. CASE r \in DOMAIN m \ DOMAIN revs
    BY <1>1, <1>4, <2>1 DEF MayAdd
  <2>2. CASE r \in DOMAIN revs
    <3>1. /\ revs[r].status = "approved" /\ revs[r].op # "delete"
          /\ revs'[r].data = revs[r].data /\ <<r, v>> \in audited
      BY <1>1, <1>2, <2>2 DEF SameState
    <3> QED BY <2>2, <3>1 DEF Recorded, NoEscape
  <2> QED BY <1>1, <2>1, <2>2
<1>8. SecondPerson'
  <2> SUFFICES ASSUME AuditOn, NEW r \in DOMAIN revs', revs'[r].status = "approved", revs'[r].by \in Proposers
               PROVE  \E v \in Approvers \ {revs'[r].by} : <<r, v>> \in audited' /\ revs'[r].fields \subseteq Allowed[v]
    BY DEF SecondPerson
  <2>1. CASE r \in DOMAIN m \ DOMAIN revs
    BY <1>1, <1>3, <1>4, <2>1 DEF MayAdd
  <2>2. CASE r \in DOMAIN revs
    <3>1. /\ revs[r].status = "approved" /\ revs[r].by = revs'[r].by /\ revs'[r].fields = revs[r].fields
      BY <1>1, <1>2, <2>2 DEF SameState
    <3> QED BY <1>1, <2>2, <3>1 DEF Recorded, SecondPerson
  <2> QED BY <1>1, <2>1, <2>2
<1> QED BY <1>6, <1>7, <1>8 DEF Recorded

\* A row the trail gains is about a revision that is not committed, or not approved.
LEMMA TrailRecorded ==
  ASSUME LInv, Recorded, NEW s \in Sessions, ListedIn(s), revs' = revs,
         audited \subseteq audited', audited' \ audited \subseteq call[s].done \X {call[s].user}
  PROVE  Recorded'
<1>1. AuditedWrites'
  BY DEF Recorded, AuditedWrites
<1>2. NoEscape'
  <2> SUFFICES ASSUME NEW r \in DOMAIN revs, NEW v \in Users, revs[r].status = "approved",
                      revs[r].op # "delete", <<r, v>> \in audited'
               PROVE  revs[r].data \in Reach[v]
    BY DEF NoEscape
  <2>1. r \notin call[s].done
    BY DEF ListedIn, LInv, Versions, SameState
  <2>2. <<r, v>> \in audited
    BY <2>1
  <2> QED BY <2>2 DEF Recorded, NoEscape
<1>3. SecondPerson'
  BY DEF Recorded, SecondPerson
<1> QED BY <1>1, <1>2, <1>3 DEF Recorded

LEMMA RInvInit == Init => RInv
<1> SUFFICES ASSUME Init PROVE RInv
  OBVIOUS
<1>1. revs = NoRows /\ (\A s \in Sessions : mine[s] = NoRows /\ call[s] = Idle) /\ audited = {}
  BY DEF Init
<1>2. Recorded
  BY <1>1, EmptyTables DEF Recorded, AuditedWrites, NoEscape, SecondPerson
<1>3. \A s \in Sessions : CheckedIn(s) /\ NewIn(s) /\ ListedIn(s)
  <2> SUFFICES ASSUME NEW s \in Sessions PROVE CheckedIn(s) /\ NewIn(s) /\ ListedIn(s)
    OBVIOUS
  <2>1. Idle.pc = "idle" /\ Idle.done = {}
    BY DEF Idle
  <2>2. call[s].pc = "idle" /\ call[s].done = {} /\ DOMAIN mine[s] = {}
    BY <1>1, <2>1, EmptyTables
  <2> QED BY <2>2 DEF CheckedIn, NewIn, ListedIn, At
<1> QED BY <1>2, <1>3, LInvInit DEF RInv

LEMMA RInvStep == RInv /\ [Next]_vars => RInv'
<1> SUFFICES ASSUME RInv, [Next]_vars PROVE RInv'
  OBVIOUS
<1>0. LInv'
  BY LInvStep DEF RInv
<1>1. CASE UNCHANGED vars \/ Exhausted
  <2>1. UNCHANGED vars
    BY <1>1 DEF Exhausted
  <2>2. Recorded'
    BY <2>1 DEF RInv, vars, Recorded, AuditedWrites, NoEscape, SecondPerson
  <2>3. ASSUME NEW s \in Sessions PROVE CheckedIn(s)' /\ NewIn(s)' /\ ListedIn(s)'
    <3>1. CheckedIn(s)
      BY DEF RInv
    <3>2. View(s)' = View(s)
      BY <2>1 DEF vars, View, Over
    <3>3. CheckedIn(s)'
      BY <2>1, <3>1, <3>2, CheckedKept DEF RInv, vars, SameState
    <3>4. NewIn(s)' /\ ListedIn(s)'
      BY <2>1 DEF RInv, vars, NewIn, ListedIn, At
    <3> QED BY <3>3, <3>4
  <2> QED BY <1>0, <2>2, <2>3 DEF RInv
<1>2. ASSUME NEW s \in Sessions, Begin(s) \/ Read(s) \/ Write(s) \/ Finish(s) \/ Lost(s) PROVE RInv'
  <2>1. Own(s)
    BY DEF RInv, Own
  <2>2. Own(s)'
    BY <1>2, <2>1, BeginOwn, ReadOwn, DemoteOwn, InsertOwn, RetireOwn, FinishOwn DEF RInv, Write
  <2>3. ASSUME NEW t \in Sessions \ {s} PROVE CheckedIn(t)' /\ NewIn(t)' /\ ListedIn(t)'
    BY <1>2, <2>3, OthersChecked, OthersListed DEF RInv
  <2>4. Recorded'
    <3>1. CASE Commit(s)
      BY <3>1, CommitRecorded DEF RInv
    <3>2. CASE ~Commit(s)
      <4>1. /\ audited \subseteq audited' /\ audited' \ audited \subseteq call[s].done \X {call[s].user}
            /\ revs' = revs
        BY <1>2, <3>2, TrailGrows
      <4> QED BY <4>1, TrailRecorded DEF RInv
    <3> QED BY <3>1, <3>2
  <2> QED BY <1>0, <2>2, <2>3, <2>4 DEF RInv, Own
<1> QED BY <1>1, <1>2 DEF Next

LEMMA RInvAlways == Spec => []RInv
BY RInvInit, RInvStep, PTL DEF Spec

\* With auditing on, nothing is ever committed that the trail does not hold under the id
\* of a user who decided it, and a rejection under somebody else's than the proposer's.
THEOREM AuditedWritesAlways == Spec => []AuditedWrites
<1>1. RInv => AuditedWrites
  BY DEF RInv, Recorded
<1> QED BY <1>1, RInvAlways, PTL

\* No caller, direct or approving, moves a document to a state the filter of its own
\* grant does not reach, whatever commits between its checks and its own commit.
THEOREM NoEscapeAlways == Spec => []NoEscape
<1>1. RInv => NoEscape
  BY DEF RInv, Recorded
<1> QED BY <1>1, RInvAlways, PTL

\* What a proposer wrote becomes a state of its document only by the decision of another
\* user, who may approve and may read every field of it.
THEOREM SecondPersonAlways == Spec => []SecondPerson
<1>1. RInv => SecondPerson
  BY DEF RInv, Recorded
<1> QED BY <1>1, RInvAlways, PTL
=============================================================================
