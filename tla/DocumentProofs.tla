---------------------------- MODULE DocumentProofs ----------------------------
(***************************************************************************)
(* Theorems about the revisions of a document beyond their order: what an  *)
(* approval merges over, what If-Match promises, that the table is an      *)
(* append-only history of documents, and, in Composed, what a document     *)
(* shows of another collection.                                            *)
(***************************************************************************)
EXTENDS RevisionsProofs, Composed, FiniteSetTheorems, FunctionTheorems, SequenceTheorems

---------------------------------------------------------------------------
(* Tables with the same approved revisions of a document *)

SameHistory(t, u, d) ==
  /\ ApprovedOf(t, d) = ApprovedOf(u, d)
  /\ \A r \in ApprovedOf(t, d) : SameState(t[r], u[r])

\* A version of a row that is there changes no history.
LEMMA VersionSame ==
  ASSUME NEW s \in Sessions, NEW r \in DOMAIN View(s), NEW x, Version(s, r, x), NEW d
  PROVE  SameHistory(View(s), Put(View(s), r, x), d)
<1> DEFINE u == Put(View(s), r, x)
<1>1. ApprovedOf(View(s), d) = ApprovedOf(u, d)
  BY DEF ApprovedOf, Put, Version, SameState
<1>2. \A q \in ApprovedOf(View(s), d) : SameState(View(s)[q], u[q])
  BY DEF ApprovedOf, Put, Version, SameState
<1> QED BY <1>1, <1>2 DEF SameHistory

\* A transaction that has not changed the current revision of d leaves its history alone.
LEMMA NotHolding ==
  ASSUME LInv, NEW s \in Sessions, NEW d, ~Holds(s, d)
  PROVE  Agree(revs, View(s), d)
<1>1. \A r \in DOMAIN mine[s] : mine[s][r].doc = d /\ mine[s][r].status = "approved" =>
        r \in DOMAIN revs /\ ~revs[r].current
  BY DEF Holds
<1>2. \A r \in DOMAIN mine[s] \cap DOMAIN revs : ~mine[s][r].current /\ SameState(mine[s][r], revs[r])
  BY DEF LInv, Versions
<1>3. OnlyApproved(mine[s]) /\ OnlyApproved(revs)
  BY DEF LInv, CurrentIsApproved
<1> QED BY <1>1, <1>2, <1>3, OverAgrees DEF View

\* What session t sees of document d after session s commits.
LEMMA CommitSame ==
  ASSUME IInv, NEW s \in Sessions, Commit(s), NEW t \in Sessions, t # s, NEW d \in Docs
  PROVE  SameHistory(View(t), View(t)', d) \/ SameHistory(View(s), View(t)', d)
<1>1. revs' = View(s) /\ mine'[t] = mine[t]
  BY DEF Commit, IInv, LInv, TypeOK
<1>2. CASE ~Holds(s, d)
  <2>1. Agree(View(t), View(t)', d)
    BY <1>1, <1>2, NotHolding, OverBoth DEF View, IInv
  <2> QED BY <2>1 DEF Agree, SameHistory
<1>3. CASE Holds(s, d)
  <2>1. ~Holds(t, d)
    BY <1>3 DEF IInv, Ordered, Exclusive
  <2>2. ASSUME NEW r \in DOMAIN mine[t]
        PROVE  (r \in DOMAIN View(s) <=> r \in DOMAIN revs) /\ (r \in DOMAIN revs => View(s)[r] = revs[r])
    BY DEF IInv, LInv, RowLocks, View, Over
  <2>3. \A r \in DOMAIN mine[t] : mine[t][r].doc = d /\ mine[t][r].status = "approved" =>
          r \in DOMAIN View(s) /\ ~View(s)[r].current
    BY <2>1, <2>2 DEF Holds
  <2>4. \A r \in DOMAIN mine[t] \cap DOMAIN View(s) : ~mine[t][r].current /\ SameState(mine[t][r], View(s)[r])
    BY <2>2 DEF IInv, LInv, Versions
  <2>5. OnlyApproved(mine[t]) /\ OnlyApproved(View(s))
    BY ViewApproved DEF IInv, LInv, CurrentIsApproved
  <2>6. Agree(View(s), Over(mine[t], View(s)), d)
    BY <2>3, <2>4, <2>5, OverAgrees
  <2> QED BY <1>1, <2>6 DEF View, Agree, SameHistory
<1> QED BY <1>2, <1>3

\* The steps that write no row.
LEMMA QuietOrOver ==
  ASSUME NEW s \in Sessions, Begin(s) \/ Read(s) \/ Finish(s) \/ Lost(s)
  PROVE  UNCHANGED <<revs, mine>> \/ Drops(s) \/ Commit(s)
<1>1. CASE Begin(s)
  <2>1. \A u, verb, e, patch, f : BeginMutate(s, u, verb, e, patch, f) => UNCHANGED <<revs, mine>>
    BY DEF BeginMutate
  <2>2. \A u, e, target, f : BeginRevert(s, u, e, target, f) => UNCHANGED <<revs, mine>>
    BY DEF BeginRevert
  <2>3. \A u, todo : BeginDecide(s, u, todo) => UNCHANGED <<revs, mine>>
    BY DEF BeginDecide
  <2> QED BY <1>1, <2>1, <2>2, <2>3 DEF Begin
<1>2. CASE Read(s) \/ Finish(s) \/ Lost(s)
  BY <1>2 DEF Read, ReadForCreate, ReadForRevise, LoadPending, NextDecision, ScanConflicts,
              Finish, Lost, Audit, AuditFails, DeadlockVictim, Refuse, Drops
<1> QED BY <1>1, <1>2

\* Session s inserts a new state of document d.
Extends(s, d) ==
  LET x == NewRow(s)
  IN /\ At(s, "insert") /\ NewRev \in Revs /\ NewRev \notin DOMAIN View(s)
     /\ x \in Row /\ x.doc = d /\ x.current /\ x.status = "approved"
     /\ View(s)' = Put(View(s), NewRev, x)

\* What session t sees of document d after a step of session s: one of the histories
\* there were, or, if it is s that inserts, one with a state more.
LEMMA ViewSteps ==
  ASSUME IInv, NEW s \in Sessions, Begin(s) \/ Read(s) \/ Write(s) \/ Finish(s) \/ Lost(s),
         NEW t \in Sessions, NEW d \in Docs
  PROVE  \/ SameHistory(View(t), View(t)', d)
         \/ SameHistory(View(s), View(t)', d)
         \/ SameHistory(revs, View(t)', d)
         \/ t = s /\ Insert(s) /\ Extends(s, d)
<1>0. \A u : SameHistory(u, u, d)
  BY DEF SameHistory, SameState
<1>1. CASE Commit(s)
  <2>1. View(s)' = View(s)
    BY <1>1, NothingWritten, ViewType DEF Commit, View, IInv, LInv, TypeOK
  <2> QED BY <1>0, <1>1, <2>1, CommitSame
<1>2. CASE t # s /\ ~Commit(s)
  <2>1. View(t)' = View(t)
    BY <1>2, OthersKept DEF View, Over, IInv, LInv
  <2> QED BY <1>0, <2>1
<1>3. CASE t = s /\ Drops(s)
  <2>1. View(s)' = revs
    BY <1>3, NothingWritten DEF Drops, View, IInv, LInv, TypeOK
  <2> QED BY <1>0, <1>3, <2>1
<1>4. CASE t = s /\ UNCHANGED <<revs, mine>>
  <2>1. View(s)' = View(s)
    BY <1>4 DEF View, Over
  <2> QED BY <1>0, <1>4, <2>1
<1>5. CASE t = s /\ Demote(s)
  <2> DEFINE r == call[s].cur
             x == [View(s)[r] EXCEPT !.current = FALSE]
  <2>1. r \in DOMAIN View(s)
    BY <1>5 DEF Demote, At, IInv, LInv, Reads, HasReadIn, PathOf
  <2>2. Writes(s, r, x) /\ Version(s, r, x)
    BY <1>5, DemoteWrites DEF IInv
  <2>3. View(s)' = Put(View(s), r, x)
    BY <2>2, ViewAfterWrite DEF IInv
  <2>4. SameHistory(View(s), Put(View(s), r, x), d)
    BY <2>1, <2>2, VersionSame
  <2> QED BY <1>5, <2>3, <2>4
<1>6. CASE t = s /\ Retire(s)
  <2> DEFINE r == Head(call[s].todo).prop
  <2>1. r \in DOMAIN View(s)
    BY <1>6, ProposalRow DEF Retire, At, IInv, LInv, Reads, HasReadIn, PathOf
  <2>2. PICK x : Writes(s, r, x) /\ Version(s, r, x)
    BY <1>6, RetireWrites DEF IInv
  <2>3. View(s)' = Put(View(s), r, x)
    BY <2>2, ViewAfterWrite DEF IInv
  <2>4. SameHistory(View(s), Put(View(s), r, x), d)
    BY <2>1, <2>2, VersionSame
  <2> QED BY <1>6, <2>3, <2>4
<1>7. CASE t = s /\ Insert(s) /\ ~Drops(s)
  <2> DEFINE n == NewRev
             x == NewRow(s)
  <2>1. Writes(s, n, x) /\ Version(s, n, x) /\ n \notin DOMAIN View(s) /\ At(s, "insert")
    BY <1>7, InsertWrites DEF IInv, Insert
  <2>2. View(s)' = Put(View(s), n, x)
    BY <2>1, ViewAfterWrite DEF IInv
  <2>3. x.current <=> x.status = "approved"
    BY <2>1, NextRow DEF IInv
  <2>4. n \in Revs /\ x \in Row
    BY <2>1 DEF Version
  <2> HIDE DEF n, x
  <2>5. ~(x.current /\ x.doc = d) => SameHistory(View(s), Put(View(s), n, x), d)
    BY <2>1, <2>3 DEF SameHistory, ApprovedOf, Put, SameState
  <2> QED BY <1>7, <2>1, <2>2, <2>3, <2>4, <2>5 DEF Extends, n, x
<1>8. CASE t = s /\ (Begin(s) \/ Read(s) \/ Finish(s) \/ Lost(s))
  BY <1>1, <1>3, <1>4, <1>8, QuietOrOver
<1> QED BY <1>1, <1>2, <1>3, <1>5, <1>6, <1>7, <1>8 DEF Write

\* The revision a call inserts is the latest of its document.
LEMMA ExtendsLast ==
  ASSUME IInv, IInv', NEW s \in Sessions, NEW d \in Docs, Extends(s, d), Insert(s)
  PROVE  LET x == NewRow(s)
         IN /\ ApprovedOf(View(s)', d) = ApprovedOf(View(s), d) \cup {NewRev}
            /\ View(s)'[NewRev] = x
            /\ \A q \in ApprovedOf(View(s), d) : View(s)'[q] = View(s)[q] /\ View(s)[q].seq < x.seq
            /\ x.seq \in Nat /\ x.seq >= 1
            /\ \A q \in ApprovedOf(View(s), d) : View(s)[q].seq \in Nat /\ View(s)[q].seq >= 1
<1> DEFINE n == NewRev
           x == NewRow(s)
           t == View(s)
           u == Put(t, n, x)
<1>1. u = View(s)' /\ n \notin DOMAIN t /\ x \in Row /\ x.doc = d /\ x.current /\ x.status = "approved"
  BY DEF Extends
<1> HIDE DEF n, x
<1>2. ApprovedOf(u, d) = ApprovedOf(t, d) \cup {n} /\ u[n] = x /\ \A q \in ApprovedOf(t, d) : u[q] = t[q] /\ q # n
  BY <1>1 DEF ApprovedOf, Put
<1>3. ~Demoted(s)'
  <2> DEFINE c == call[s]
  <2>1. c \in CallType /\ Idle.pc = "idle"
    BY DEF IInv, LInv, TypeOK, Idle
  <2>2. \/ call'[s] = Idle
        \/ \E D : call'[s] = [c EXCEPT !.done = D, !.pc = IF c.verb = "decide" THEN "retire" ELSE "audit"]
    BY DEF Insert, Refuse, IInv, LInv, TypeOK
  <2>3. call'[s].pc # "insert"
    BY <2>1, <2>2 DEF CallType
  <2> QED BY <2>3 DEF Demoted, At
<1>4. WellKept(View(s)', d)
  BY <1>3 DEF IInv, Ordered, ViewKept, Demoted
<1>5. IsTable(View(s)')
  BY DEF IInv, LInv, TypeOK, View, Over, IsTable
<1>6. \A q \in ApprovedOf(u, d) : u[q].seq \in Nat /\ u[q].seq >= 1 /\ u[q].seq <= x.seq /\ (u[q].seq = x.seq => q = n)
  <2>1. n \in CurrentOf(u, d)
    BY <1>1, <1>2 DEF ApprovedOf, CurrentOf
  <2>2. \A q \in ApprovedOf(u, d) : u[q].seq <= x.seq
    BY <1>1, <1>2, <1>4, <2>1 DEF WellKept, OneCurrentIn
  <2>3. \A q \in ApprovedOf(u, d) : u[q].seq >= 1 /\ (u[q].seq = x.seq => q = n)
    BY <1>1, <1>2, <1>4 DEF WellKept, ContiguousIn
  <2>4. \A q \in ApprovedOf(u, d) : u[q].seq \in Nat
    BY <1>1, <1>5 DEF ApprovedOf, IsTable, Row
  <2> QED BY <2>2, <2>3, <2>4
<1>7. ASSUME NEW q \in ApprovedOf(t, d) PROVE t[q].seq < x.seq /\ t[q].seq \in Nat /\ t[q].seq >= 1
  <2>1. t[q].seq <= x.seq /\ t[q].seq # x.seq /\ t[q].seq \in Nat /\ t[q].seq >= 1
    BY <1>2, <1>6
  <2>2. x.seq \in Nat
    BY <1>1 DEF Row
  <2> QED BY <2>1, <2>2
<1>8. x.seq \in Nat /\ x.seq >= 1
  BY <1>1, <1>2, <1>6 DEF Row
<1> QED BY <1>1, <1>2, <1>7, <1>8 DEF n, x

---------------------------------------------------------------------------
(* What an approval merges over *)

FreshIn(t, d) ==
  \A r, q \in ApprovedOf(t, d) :
    t[r].by \in Proposers /\ t[r].base < t[q].seq /\ t[q].seq < t[r].seq
      => t[q].fields \cap t[r].fields = {}

\* A state a transaction adds comes after every committed one of its document.
AppendsIn(s) ==
  \A q \in DOMAIN mine[s] \ DOMAIN revs :
    mine[s][q].status = "approved" =>
      \A r \in ApprovedOf(revs, mine[s][q].doc) : revs[r].seq < mine[s][q].seq

\* What ScanConflicts has found of the states up to the one it merges onto.
ScannedIn(s) ==
  LET c == call[s]
      p == Proposal(s)
  IN c.verb = "decide" /\ c.pc \in {"demote", "insert"} /\ c.cur # NoRev =>
       \A q \in ApprovedOf(View(s), c.doc) :
         p.base < View(s)[q].seq /\ View(s)[q].seq <= View(s)[c.cur].seq
           => View(s)[q].fields \cap p.fields = {}

FInv ==
  /\ IInv
  /\ \A d \in Docs : FreshIn(revs, d) /\ \A s \in Sessions : FreshIn(View(s), d)
  /\ \A s \in Sessions : AppendsIn(s) /\ ScannedIn(s)

LEMMA FreshSame ==
  ASSUME NEW t, NEW u, NEW d, SameHistory(t, u, d), FreshIn(t, d)
  PROVE  FreshIn(u, d)
BY DEF SameHistory, SameState, FreshIn

\* The row a decision inserts merges over what was scanned, a direct write is no proposal.
LEMMA FreshExtends ==
  ASSUME FInv, IInv', NEW s \in Sessions, NEW d \in Docs, Insert(s), Extends(s, d)
  PROVE  FreshIn(View(s)', d)
<1> DEFINE n == NewRev
           x == NewRow(s)
           t == View(s)
           A == ApprovedOf(t, d)
           c == call[s]
<1>1. /\ ApprovedOf(View(s)', d) = A \cup {n} /\ View(s)'[n] = x
      /\ \A q \in A : View(s)'[q] = t[q] /\ t[q].seq < x.seq
      /\ \A q \in A : t[q].seq \in Nat /\ t[q].seq >= 1
      /\ x.seq \in Nat
  BY ExtendsLast DEF FInv
<1>2. ASSUME x.by \in Proposers, NEW q \in A, x.base < t[q].seq
      PROVE  t[q].fields \cap x.fields = {}
  <2>0. c.pc = "insert" /\ HasReadIn(s) /\ x.doc = d /\ x.status = "approved"
    BY DEF Extends, At, FInv, IInv, LInv, Reads
  <2>1. c.verb = "decide"
    <3>1. ASSUME c.verb # "decide" PROVE x.by = c.user /\ (x.status = "approved" => c.user \notin Proposers)
      BY <3>1 DEF NewRow, WrittenRow
    <3> QED BY <1>2, <2>0, <3>1
  <2>2. Proposal(s) \in Row /\ Proposal(s).doc = c.doc
    BY <2>0, <2>1, ProposalRow DEF FInv, IInv, LInv, HasReadIn, Proposal
  <2>3. /\ x.base = Proposal(s).base /\ x.fields = Proposal(s).fields /\ x.doc = c.doc
        /\ x.seq = IF c.cur = NoRev THEN 1 ELSE t[c.cur].seq + 1
    <3>1. x = MergedRow(s)
      BY <2>1 DEF NewRow
    <3>2. /\ MergedRow(s).base = Proposal(s).base /\ MergedRow(s).fields = Proposal(s).fields
          /\ MergedRow(s).doc = Proposal(s).doc
          /\ MergedRow(s).seq = IF c.cur = NoRev THEN 1 ELSE t[c.cur].seq + 1
      BY <2>2 DEF MergedRow, Row
    <3> QED BY <2>2, <3>1, <3>2
  <2> HIDE DEF x
  <2>4. c.cur # NoRev /\ x.seq = t[c.cur].seq + 1
    BY <1>1, <2>3
  <2>5. t[c.cur].seq \in Nat
    BY <2>0, <2>4, ViewType DEF HasReadIn, IsTable, Row, FInv, IInv, LInv
  <2>6. t[q].seq <= t[c.cur].seq
    BY <1>1, <2>4, <2>5
  <2> QED BY <1>2, <2>0, <2>1, <2>3, <2>4, <2>6 DEF FInv, ScannedIn
<1> HIDE DEF x, n
<1>3. ASSUME NEW r \in A \cup {n}, NEW q \in A \cup {n}, View(s)'[r].by \in Proposers,
             View(s)'[r].base < View(s)'[q].seq, View(s)'[q].seq < View(s)'[r].seq
      PROVE  View(s)'[q].fields \cap View(s)'[r].fields = {}
  <2>1. CASE r \in A /\ q \in A
    BY <1>1, <1>3, <2>1 DEF FInv, FreshIn
  <2>2. CASE r = n /\ q \in A
    BY <1>1, <1>2, <1>3, <2>2
  <2>3. CASE q = n
    BY <1>1, <1>3, <2>3
  <2> QED BY <2>1, <2>2, <2>3
<1> QED BY <1>1, <1>3 DEF FreshIn

LEMMA OwnAppends ==
  ASSUME FInv, IInv', NEW s \in Sessions, Begin(s) \/ Read(s) \/ Write(s) \/ Finish(s) \/ Lost(s)
  PROVE  AppendsIn(s)'
<1>0. LInv
  BY DEF FInv, IInv
<1>1. CASE Drops(s) \/ Commit(s)
  BY <1>0, <1>1, EmptyTables DEF Drops, Commit, AppendsIn, LInv, TypeOK
<1>2. CASE UNCHANGED <<revs, mine>>
  BY <1>2 DEF FInv, AppendsIn, ApprovedOf
<1>3. ASSUME NEW r \in DOMAIN View(s), NEW x, Writes(s, r, x), Version(s, r, x)
      PROVE  AppendsIn(s)'
  <2>1. mine'[s] = Put(mine[s], r, x) /\ revs' = revs
    BY <1>0, <1>3 DEF Writes, LInv, TypeOK
  <2> SUFFICES ASSUME NEW q \in DOMAIN mine'[s] \ DOMAIN revs, mine'[s][q].status = "approved",
                      NEW p \in ApprovedOf(revs, mine'[s][q].doc)
               PROVE  revs[p].seq < mine'[s][q].seq
    BY <2>1 DEF AppendsIn, ApprovedOf
  <2>2. q \in DOMAIN mine[s] /\ SameState(mine'[s][q], mine[s][q])
    BY <1>3, <2>1 DEF Put, Version, View, Over, SameState
  <2> QED BY <2>2 DEF FInv, AppendsIn, SameState
<1>4. CASE Demote(s)
  <2> DEFINE r == call[s].cur
             x == [View(s)[r] EXCEPT !.current = FALSE]
  <2>1. r \in DOMAIN View(s)
    BY <1>4 DEF Demote, At, FInv, IInv, LInv, Reads, HasReadIn, PathOf
  <2>2. Writes(s, r, x) /\ Version(s, r, x)
    BY <1>0, <1>4, DemoteWrites
  <2> HIDE DEF r, x
  <2> QED BY <1>3, <2>1, <2>2
<1>5. CASE Retire(s)
  <2> DEFINE r == Head(call[s].todo).prop
  <2>1. r \in DOMAIN View(s)
    BY <1>5, ProposalRow DEF Retire, At, FInv, IInv, LInv, Reads, HasReadIn, PathOf
  <2>2. PICK x : Writes(s, r, x) /\ Version(s, r, x)
    BY <1>0, <1>5, RetireWrites
  <2> HIDE DEF r
  <2> QED BY <1>3, <2>1, <2>2
<1>6. CASE Insert(s) /\ ~Drops(s)
  <2> DEFINE n == NewRev
             x == NewRow(s)
  <2>1. /\ Writes(s, n, x) /\ n \notin DOMAIN View(s) /\ At(s, "insert") /\ Version(s, n, x)
    BY <1>0, <1>6, InsertWrites DEF Insert
  <2>2. /\ mine'[s] = Put(mine[s], n, x) /\ revs' = revs /\ View(s)' = Put(View(s), n, x)
        /\ n \in Revs /\ x \in Row /\ (x.status = "approved" => x.current)
    <3>1. x.status = "approved" => x.current
      BY <1>0, <2>1, NextRow
    <3>2. View(s)' = Put(View(s), n, x)
      BY <1>0, <2>1, ViewAfterWrite
    <3> HIDE DEF n, x
    <3>3. mine'[s] = Put(mine[s], n, x) /\ revs' = revs /\ n \in Revs /\ x \in Row
      BY <1>0, <2>1 DEF Writes, Version, LInv, TypeOK
    <3> QED BY <3>1, <3>2, <3>3
  <2>3. x.status = "approved" => Extends(s, x.doc) /\ x.doc \in Docs
    BY <2>1, <2>2 DEF Extends, Row
  <2>4. ASSUME x.status = "approved", NEW p \in ApprovedOf(revs, x.doc) PROVE revs[p].seq < x.seq
    <3>1. p \in ApprovedOf(View(s), x.doc) /\ View(s)[p].seq = revs[p].seq
      BY <1>0, <2>4 DEF ApprovedOf, View, Over, LInv, Versions, SameState
    <3> QED BY <1>6, <2>3, <2>4, <3>1, ExtendsLast DEF FInv
  <2> HIDE DEF n, x
  <2>5. ASSUME NEW q \in DOMAIN mine'[s] \ DOMAIN revs, mine'[s][q].status = "approved",
               NEW p \in ApprovedOf(revs, mine'[s][q].doc)
        PROVE  revs[p].seq < mine'[s][q].seq
    <3>1. CASE q = n
      BY <2>2, <2>4, <2>5, <3>1 DEF Put
    <3>2. CASE q # n
      <4>1. q \in DOMAIN mine[s] \ DOMAIN revs /\ mine'[s][q] = mine[s][q]
        BY <2>2, <3>2 DEF Put
      <4> QED BY <2>5, <4>1 DEF FInv, AppendsIn
    <3> QED BY <3>1, <3>2
  <2> QED BY <2>2, <2>5 DEF AppendsIn, ApprovedOf
<1>7. CASE Begin(s) \/ Read(s) \/ Finish(s) \/ Lost(s)
  <2>1. UNCHANGED <<revs, mine>> \/ Drops(s) \/ Commit(s)
    BY <1>7, QuietOrOver
  <2> QED BY <1>1, <1>2, <2>1
<1> QED BY <1>1, <1>4, <1>5, <1>6, <1>7 DEF Write

LEMMA OthersAppend ==
  ASSUME FInv, NEW s \in Sessions, Begin(s) \/ Read(s) \/ Write(s) \/ Finish(s) \/ Lost(s),
         NEW t \in Sessions, t # s
  PROVE  AppendsIn(t)'
<1>0. LInv /\ AppendsIn(t)
  BY DEF FInv, IInv
<1>1. mine'[t] = mine[t] /\ (revs' = revs \/ Commit(s))
  BY <1>0, OthersKept DEF LInv
<1>2. CASE revs' = revs
  BY <1>0, <1>1, <1>2 DEF AppendsIn, ApprovedOf
<1>3. CASE Commit(s)
  <2>1. revs' = View(s) /\ DOMAIN revs \subseteq DOMAIN revs'
    BY <1>3 DEF Commit, View, Over
  <2> SUFFICES ASSUME NEW q \in DOMAIN mine[t] \ DOMAIN revs, mine[t][q].status = "approved",
                      NEW r \in ApprovedOf(View(s), mine[t][q].doc)
               PROVE  View(s)[r].seq < mine[t][q].seq
    BY <1>1, <2>1 DEF AppendsIn, ApprovedOf
  <2>2. Holds(t, mine[t][q].doc) /\ mine[t][q].doc \in Docs
    BY <1>0 DEF Holds, LInv, TypeOK, IsTable, Row
  <2>3. ~Holds(s, mine[t][q].doc)
    BY <2>2 DEF FInv, IInv, Ordered, Exclusive
  <2>4. Agree(revs, View(s), mine[t][q].doc)
    BY <1>0, <2>3, NotHolding
  <2> QED BY <1>0, <2>4 DEF Agree, SameState, AppendsIn
<1> QED BY <1>1, <1>2, <1>3

\* What was scanned stays so while the call goes on, if at all, to its insert, and while
\* every state that is new to it comes after the one it merges onto.
LEMMA ScanKept ==
  ASSUME LInv, NEW t \in Sessions, ScannedIn(t),
         call'[t].verb = call[t].verb, call'[t].cur = call[t].cur, call'[t].todo = call[t].todo,
         call'[t].doc = call[t].doc,
         call'[t].pc = call[t].pc \/ (call[t].pc = "demote" /\ call'[t].pc = "insert"),
         \A r \in DOMAIN View(t) : r \in DOMAIN View(t)' /\ SameState(View(t)'[r], View(t)[r]),
         \A q \in ApprovedOf(View(t)', call[t].doc) \ DOMAIN View(t) :
           call[t].cur \in DOMAIN View(t) => ~(View(t)'[q].seq <= View(t)[call[t].cur].seq)
  PROVE  ScannedIn(t)'
<1> DEFINE c == call[t]
           p == Proposal(t)
<1> SUFFICES ASSUME c.verb = "decide", c.pc \in {"demote", "insert"}, c.cur # NoRev,
                    NEW q \in ApprovedOf(View(t)', c.doc),
                    Proposal(t)'.base < View(t)'[q].seq, View(t)'[q].seq <= View(t)'[c.cur].seq
             PROVE  View(t)'[q].fields \cap Proposal(t)'.fields = {}
  BY DEF ScannedIn
<1>1. SameState(Proposal(t)', p) /\ c.cur \in DOMAIN View(t) /\ SameState(View(t)'[c.cur], View(t)[c.cur])
  BY DEF LInv, Reads, HasReadIn, Proposal
<1>2. q \in DOMAIN View(t) /\ SameState(View(t)'[q], View(t)[q])
  BY <1>1 DEF SameState
<1>3. q \in ApprovedOf(View(t), c.doc)
  BY <1>2 DEF ApprovedOf, SameState
<1> QED BY <1>1, <1>2, <1>3 DEF ScannedIn, SameState

LEMMA OthersScanned ==
  ASSUME FInv, NEW s \in Sessions, Begin(s) \/ Read(s) \/ Write(s) \/ Finish(s) \/ Lost(s),
         NEW t \in Sessions, t # s
  PROVE  ScannedIn(t)'
<1> DEFINE c == call[t]
<1>0. LInv /\ ScannedIn(t)
  BY DEF FInv, IInv
<1>1. call'[t] = c /\ mine'[t] = mine[t] /\ (revs' = revs \/ Commit(s))
  BY <1>0, OthersKept DEF LInv
<1>2. CASE revs' = revs
  <2>1. View(t)' = View(t)
    BY <1>1, <1>2 DEF View, Over
  <2> QED BY <1>0, <1>1, <2>1, ScanKept DEF ApprovedOf, SameState
<1>3. CASE Commit(s)
  <2>1. CASE ~(c.pc \in {"demote", "insert"} /\ c.cur # NoRev)
    BY <1>1, <2>1 DEF ScannedIn
  <2>2. CASE c.pc \in {"demote", "insert"} /\ c.cur # NoRev
    <3>1. /\ c.cur \in DOMAIN View(t) /\ View(t)[c.cur].status = "approved" /\ View(t)[c.cur].doc = c.doc
          /\ c.doc \in Docs
      BY <1>0, <2>2 DEF LInv, TypeOK, CallType, Reads, HasReadIn
    <3>2. ASSUME NEW q \in ApprovedOf(View(t)', c.doc) \ DOMAIN View(t)
          PROVE  ~(View(t)'[q].seq <= View(t)[c.cur].seq)
      <4>1. q \in DOMAIN mine[s] \ DOMAIN revs /\ View(t)'[q] = mine[s][q]
        BY <1>1, <1>3, <3>2 DEF Commit, ApprovedOf, View, Over
      <4>2. mine[s][q].status = "approved" /\ mine[s][q].doc = c.doc
        BY <3>2, <4>1 DEF ApprovedOf
      <4>3. ~Holds(t, c.doc)
        <5>1. Holds(s, c.doc)
          BY <4>1, <4>2 DEF Holds
        <5> QED BY <3>1, <5>1 DEF FInv, IInv, Ordered, Exclusive
      <4>4. c.cur \in DOMAIN revs /\ SameState(View(t)[c.cur], revs[c.cur])
        BY <1>0, <3>1, <4>3 DEF Holds, View, Over, LInv, Versions, SameState
      <4>5. revs[c.cur].seq < mine[s][q].seq
        BY <3>1, <4>1, <4>2, <4>4 DEF FInv, AppendsIn, ApprovedOf, SameState
      <4>6. revs[c.cur].seq \in Nat /\ mine[s][q].seq \in Nat
        BY <1>0, <4>1, <4>4 DEF LInv, TypeOK, IsTable, Row
      <4> QED BY <4>1, <4>4, <4>5, <4>6 DEF SameState
    <3>3. \A r \in DOMAIN View(t) : r \in DOMAIN View(t)' /\ SameState(View(t)'[r], View(t)[r])
      BY <1>0, <1>3, ViewAfterCommit
    <3> QED BY <1>0, <1>1, <3>2, <3>3, ScanKept
  <2> QED BY <2>1, <2>2
<1> QED BY <1>1, <1>2, <1>3

LEMMA OwnScanned ==
  ASSUME FInv, NEW s \in Sessions, Begin(s) \/ Read(s) \/ Write(s) \/ Finish(s) \/ Lost(s)
  PROVE  ScannedIn(s)'
<1> DEFINE c == call[s]
<1>0. c \in CallType /\ HasReadIn(s) /\ PathOf(s) /\ LInv /\ Idle.pc = "idle" /\ ScannedIn(s)
  BY DEF FInv, IInv, LInv, TypeOK, Reads, Idle
<1>1. ASSUME call'[s].pc \notin {"demote", "insert"} \/ call'[s].verb # "decide" \/ call'[s].cur = NoRev
      PROVE  ScannedIn(s)'
  BY <1>1 DEF ScannedIn
<1>2. CASE call'[s] = Idle
  BY <1>0, <1>1, <1>2
<1>3. CASE Begin(s)
  <2>1. \A u, verb, e, patch, f : BeginMutate(s, u, verb, e, patch, f) => call'[s].pc = "read"
    BY DEF BeginMutate, FInv, IInv, LInv, TypeOK, Idle
  <2>2. \A u, e, target, f : BeginRevert(s, u, e, target, f) => call'[s].pc = "read"
    BY DEF BeginRevert, FInv, IInv, LInv, TypeOK, Idle
  <2>3. \A u, todo : BeginDecide(s, u, todo) => call'[s].pc = "load"
    BY DEF BeginDecide, FInv, IInv, LInv, TypeOK, Idle
  <2> QED BY <1>1, <1>3, <2>1, <2>2, <2>3 DEF Begin
<1>4. CASE ReadForCreate(s) \/ ReadForRevise(s)
  <2>1. call'[s].verb # "decide" \/ call'[s] = Idle
    BY <1>0, <1>4 DEF ReadForCreate, ReadForRevise, Refuse, Goto, At, PathOf, LInv, TypeOK, CallType
  <2> QED BY <1>1, <1>2, <2>1
<1>5. CASE LoadPending(s)
  <2>1. call'[s].pc = "next"
    BY <1>0, <1>5 DEF LoadPending, LInv, TypeOK, CallType
  <2> QED BY <1>1, <2>1
<1>6. CASE NextDecision(s)
  <2> DEFINE h == Head(c.todo)
             p == Proposal(s)
             cur == CurrentRevision(View(s), p.doc)
             next == [c EXCEPT !.cur = IF p.op = "create" THEN NoRev ELSE cur, !.doc = p.doc,
                               !.pc = IF h.action = "reject" THEN "retire"
                                      ELSE IF p.op = "create" THEN "insert" ELSE "scan"]
  <2>1. call'[s] = next \/ call'[s] = Idle
    BY <1>6 DEF NextDecision, Refuse, LInv, TypeOK, FInv, IInv
  <2>2. next.pc \in {"retire", "scan"} \/ next.cur = NoRev
    BY <1>0 DEF CallType
  <2> QED BY <1>1, <1>2, <2>1, <2>2
<1>7. CASE ScanConflicts(s)
  <2>1. ASSUME Goto(s, "demote"), UNCHANGED <<revs, mine, audited>>,
               Proposal(s).fields \cap ChangedSince(View(s), Proposal(s)) = {}
        PROVE  ScannedIn(s)'
    <3>1. call'[s] = [c EXCEPT !.pc = "demote"] /\ c.pc = "scan" /\ c.verb = "decide"
      BY <1>0, <1>7, <2>1 DEF ScanConflicts, Goto, LInv, TypeOK, At, PathOf
    <3>2. /\ call'[s].cur = c.cur /\ call'[s].doc = c.doc /\ call'[s].todo = c.todo
          /\ View(s)' = View(s)
      BY <1>0, <2>1, <3>1 DEF CallType, View, Over
    <3>3. Proposal(s)' = Proposal(s) /\ Proposal(s).doc = c.doc
      BY <1>0, <3>1, <3>2 DEF Proposal, HasReadIn
    <3>4. ASSUME NEW q \in ApprovedOf(View(s), c.doc), Proposal(s).base < View(s)[q].seq
          PROVE  View(s)[q].fields \cap Proposal(s).fields = {}
      <4>1. View(s)[q].fields \subseteq ChangedSince(View(s), Proposal(s))
        <5>1. View(s)[q].seq \in Nat /\ Proposal(s).base \in Nat
          <6>1. q \in DOMAIN View(s)
            BY DEF ApprovedOf
          <6>2. Proposal(s) \in Row
            BY <1>0, <3>1, ProposalRow DEF HasReadIn, LInv
          <6> QED BY <1>0, <6>1, <6>2, ViewType DEF IsTable, Row, LInv
        <5> QED BY <3>3, <3>4, <5>1 DEF ChangedSince
      <4> QED BY <2>1, <4>1
    <3> QED BY <3>2, <3>3, <3>4 DEF ScannedIn
  <2> QED BY <1>2, <1>7, <2>1 DEF ScanConflicts, Refuse, FInv, IInv, LInv, TypeOK
<1>8. CASE Demote(s)
  <2>1. \A q \in DOMAIN View(s) : q \in DOMAIN View(s)' /\ SameState(View(s)'[q], View(s)[q])
    BY <1>0, <1>8, DemoteWrites, ViewAfterWrite
  <2>2. DOMAIN mine'[s] = DOMAIN mine[s] \cup {c.cur} /\ revs' = revs /\ c.cur \in DOMAIN View(s)
    BY <1>0, <1>8 DEF HasReadIn, PathOf, Demote, At, Put, LInv, TypeOK
  <2>3. DOMAIN View(s)' = DOMAIN View(s)
    BY <2>2 DEF View, Over
  <2>4. call'[s] = [c EXCEPT !.pc = "insert"] /\ c.pc = "demote"
    BY <1>8 DEF Demote, Goto, At, FInv, IInv, LInv, TypeOK
  <2>5. /\ call'[s].verb = c.verb /\ call'[s].cur = c.cur /\ call'[s].todo = c.todo /\ call'[s].doc = c.doc
        /\ call'[s].pc = "insert"
    BY <1>0, <2>4 DEF CallType
  <2>6. ApprovedOf(View(s)', c.doc) \ DOMAIN View(s) = {}
    BY <2>3 DEF ApprovedOf
  <2> QED BY <1>0, <2>1, <2>4, <2>5, <2>6, ScanKept
<1>9. CASE Insert(s) \/ Retire(s)
  <2>1. call'[s].pc \in {"audit", "next", "retire"} \/ call'[s] = Idle
    BY <1>0, <1>9 DEF Insert, Retire, Refuse, LInv, TypeOK, CallType
  <2> QED BY <1>1, <1>2, <2>1
<1>10. CASE Finish(s) \/ Lost(s)
  <2>1. call'[s].pc = "commit" \/ call'[s] = Idle
    BY <1>0, <1>10 DEF Finish, Lost, Audit, AuditFails, Commit, DeadlockVictim, Refuse, Goto, LInv, TypeOK, CallType
  <2> QED BY <1>1, <1>2, <2>1
<1> QED BY <1>3, <1>4, <1>5, <1>6, <1>7, <1>8, <1>9, <1>10 DEF Read, Write

LEMMA FInvInit == Init => FInv
<1> SUFFICES ASSUME Init PROVE FInv
  OBVIOUS
<1>1. IInv
  BY LInvInit, OrderedInit DEF IInv
<1>2. revs = NoRows /\ \A s \in Sessions : mine[s] = NoRows /\ call[s] = Idle
  BY DEF Init
<1>3. \A d \in Docs : ApprovedOf(revs, d) = {}
  BY <1>2, EmptyTables DEF ApprovedOf
<1>4. \A s \in Sessions : View(s) = revs
  BY <1>2, NothingWritten, EmptyTables DEF View
<1>5. \A d \in Docs : FreshIn(revs, d) /\ \A s \in Sessions : FreshIn(View(s), d)
  BY <1>3, <1>4 DEF FreshIn
<1>6. \A s \in Sessions : AppendsIn(s)
  BY <1>2, EmptyTables DEF AppendsIn
<1>7. ASSUME NEW s \in Sessions PROVE ScannedIn(s)
  <2>1. Idle.pc = "idle"
    BY DEF Idle
  <2> QED BY <1>2, <2>1 DEF ScannedIn
<1> QED BY <1>1, <1>5, <1>6, <1>7 DEF FInv

LEMMA FInvStep == FInv /\ [Next]_vars => FInv'
<1> SUFFICES ASSUME FInv, [Next]_vars PROVE FInv'
  OBVIOUS
<1>0. IInv /\ IInv'
  BY LInvStep, OrderedStep DEF FInv, IInv
<1>1. CASE UNCHANGED vars \/ Exhausted
  <2>1. UNCHANGED vars
    BY <1>1 DEF Exhausted
  <2>2. \A d \in Docs : FreshIn(revs, d)' /\ \A s \in Sessions : FreshIn(View(s), d)'
    <3>1. revs' = revs /\ \A s \in Sessions : View(s)' = View(s)
      BY <2>1 DEF vars, View, Over
    <3>2. \A d \in Docs : FreshIn(revs, d)' <=> FreshIn(revs, d)
      BY <3>1 DEF FreshIn, ApprovedOf
    <3>3. \A d \in Docs : \A s \in Sessions : FreshIn(View(s), d)' <=> FreshIn(View(s), d)
      BY <3>1 DEF FreshIn, ApprovedOf
    <3> QED BY <3>2, <3>3 DEF FInv
  <2>3. \A s \in Sessions : AppendsIn(s)'
    BY <2>1 DEF FInv, vars, AppendsIn, ApprovedOf
  <2>4. ASSUME NEW s \in Sessions PROVE ScannedIn(s)'
    <3>1. ScannedIn(s) /\ LInv
      BY DEF FInv, IInv
    <3>2. View(s)' = View(s) /\ call' = call
      BY <2>1 DEF vars, View, Over
    <3> QED BY <3>1, <3>2, ScanKept DEF ApprovedOf, SameState
  <2> QED BY <1>0, <2>2, <2>3, <2>4 DEF FInv
<1>2. ASSUME NEW s \in Sessions, Begin(s) \/ Read(s) \/ Write(s) \/ Finish(s) \/ Lost(s) PROVE FInv'
  <2>1. ASSUME NEW t \in Sessions, NEW d \in Docs PROVE FreshIn(View(t)', d)
    <3>1. FreshIn(View(t), d) /\ FreshIn(View(s), d) /\ FreshIn(revs, d)
      BY DEF FInv
    <3>2. CASE SameHistory(View(t), View(t)', d)
      BY <3>1, <3>2, FreshSame
    <3>3. CASE SameHistory(View(s), View(t)', d)
      BY <3>1, <3>3, FreshSame
    <3>4. CASE SameHistory(revs, View(t)', d)
      BY <3>1, <3>4, FreshSame
    <3>5. CASE t = s /\ Insert(s) /\ Extends(s, d)
      BY <1>0, <3>5, FreshExtends
    <3> QED BY <1>0, <1>2, <3>2, <3>3, <3>4, <3>5, ViewSteps
  <2>2. ASSUME NEW d \in Docs PROVE FreshIn(revs', d)
    <3>1. revs' = revs \/ revs' = View(s)
      BY <1>2, QuietOrOver DEF Write, Demote, Insert, Retire, Refuse, Drops, Commit
    <3> QED BY <3>1 DEF FInv
  <2>3. \A t \in Sessions : AppendsIn(t)'
    BY <1>0, <1>2, OwnAppends, OthersAppend
  <2>4. \A t \in Sessions : ScannedIn(t)'
    BY <1>2, OwnScanned, OthersScanned
  <2>5. \A d \in Docs : FreshIn(revs, d)' /\ \A t \in Sessions : FreshIn(View(t), d)'
    BY <2>1, <2>2 DEF FreshIn, ApprovedOf
  <2> QED BY <1>0, <2>3, <2>4, <2>5 DEF FInv
<1> QED BY <1>1, <1>2 DEF Next

\* An approved proposal never overwrites a field that an approved revision changed after
\* the proposal was written, even one that commits while the approval runs.
THEOREM ProposalFreshAlways == Spec => []ProposalFresh
<1>1. FInv => ProposalFresh
  BY DEF FInv, FreshIn, ProposalFresh
<1> QED BY <1>1, FInvInit, FInvStep, PTL DEF Spec

---------------------------------------------------------------------------
(* What a direct write replaces *)

\* A call that updates or deletes a document directly.
Revises(s) == call[s].verb \in {"update", "delete"} /\ call[s].user \notin Proposers

\* ... and names the revision it saw.
Guarded(s) == call[s].expect # NoRev /\ call[s].user \notin Proposers

\* Until its insert a direct write has written at most the new version of the revision it
\* read, and then that version and the one new state.
ReplacesIn(s) ==
  LET c == call[s]
  IN /\ c.expect # NoRev => c.verb \in {"update", "delete"}
     /\ c.verb # "decide" /\ c.pc \in {"read", "demote", "insert"} => c.done = {}
     /\ c.verb # "decide" /\ c.pc \in {"read", "demote"} => DOMAIN mine[s] = {}
     /\ Revises(s) /\ c.pc \in {"demote", "insert", "audit", "commit"} =>
          /\ c.expect # NoRev => c.cur = c.expect
          /\ c.cur \in DOMAIN revs /\ revs[c.cur].status = "approved"
     /\ Revises(s) /\ c.pc = "insert" => DOMAIN mine[s] = {c.cur}
     /\ Revises(s) /\ c.pc \in {"audit", "commit"} =>
          \E n : /\ c.done = {n} /\ n \notin DOMAIN revs /\ DOMAIN mine[s] = {c.cur, n}
                 /\ mine[s][n].status = "approved" /\ mine[s][n].doc = revs[c.cur].doc

\* A guarded revert turns the revision it names into the one it restores.
RestoresIn(s) ==
  LET c == call[s]
  IN Guarded(s) /\ c.target # NoRev =>
       /\ c.verb = "update" /\ c.target \in DOMAIN revs
       /\ c.pc \in {"read", "demote", "insert"} =>
            /\ c.expect \in DOMAIN revs
            /\ Overlay(revs[c.expect].data, c.patch) = revs[c.target].data
       /\ c.pc \in {"audit", "commit"} =>
            \A r \in c.done : r \in DOMAIN mine[s] /\ mine[s][r].data = revs[c.target].data

GInv == IInv /\ \A s \in Sessions : ReplacesIn(s) /\ RestoresIn(s)

LEMMA ReplacesKept ==
  ASSUME LInv, NEW t \in Sessions, ReplacesIn(t), RestoresIn(t), call'[t] = call[t], mine'[t] = mine[t],
         \A r \in DOMAIN revs : r \in DOMAIN revs' /\ SameState(revs'[r], revs[r]),
         DOMAIN mine[t] \cap DOMAIN revs' \subseteq DOMAIN revs
  PROVE  ReplacesIn(t)' /\ RestoresIn(t)'
<1> DEFINE c == call[t]
<1>1. Revises(t)' <=> Revises(t)
  BY DEF Revises
<1>2. Guarded(t)' <=> Guarded(t)
  BY DEF Guarded
<1>3. \A r \in DOMAIN revs : r \in DOMAIN revs' /\ revs'[r].data = revs[r].data /\ revs'[r].doc = revs[r].doc
        /\ (revs[r].status = "approved" => revs'[r].status = "approved")
  BY DEF SameState
<1>4. ReplacesIn(t)'
  <2>1. ASSUME Revises(t), c.pc \in {"audit", "commit"}
        PROVE  \E n : /\ c.done = {n} /\ n \notin DOMAIN revs' /\ DOMAIN mine[t] = {c.cur, n}
                      /\ mine[t][n].status = "approved" /\ mine[t][n].doc = revs'[c.cur].doc
    BY <1>3, <2>1 DEF ReplacesIn
  <2>2. ASSUME Revises(t), c.pc \in {"demote", "insert", "audit", "commit"}
        PROVE  /\ c.expect # NoRev => c.cur = c.expect
               /\ c.cur \in DOMAIN revs' /\ revs'[c.cur].status = "approved"
    BY <1>3, <2>2 DEF ReplacesIn
  <2> QED BY <1>1, <2>1, <2>2 DEF ReplacesIn
<1>5. RestoresIn(t)'
  BY <1>2, <1>3 DEF RestoresIn
<1> QED BY <1>4, <1>5

LEMMA OthersReplace ==
  ASSUME GInv, NEW s \in Sessions, Begin(s) \/ Read(s) \/ Write(s) \/ Finish(s) \/ Lost(s),
         NEW t \in Sessions, t # s
  PROVE  ReplacesIn(t)' /\ RestoresIn(t)'
<1>0. LInv /\ ReplacesIn(t) /\ RestoresIn(t)
  BY DEF GInv, IInv
<1>1. call'[t] = call[t] /\ mine'[t] = mine[t] /\ (revs' = revs \/ Commit(s))
  BY <1>0, OthersKept DEF LInv
<1>2. \A r \in DOMAIN revs : r \in DOMAIN revs' /\ SameState(revs'[r], revs[r])
  BY <1>0, <1>1 DEF Commit, View, Over, LInv, Versions, SameState
<1>3. DOMAIN mine[t] \cap DOMAIN revs' \subseteq DOMAIN revs
  BY <1>0, <1>1 DEF Commit, View, Over, LInv, RowLocks
<1> QED BY <1>0, <1>1, <1>2, <1>3, ReplacesKept

LEMMA DroppedReplaces ==
  ASSUME NEW s \in Sessions, call'[s] = Idle, mine'[s] = NoRows
  PROVE  ReplacesIn(s)' /\ RestoresIn(s)'
<1>1. Idle.pc = "idle" /\ Idle.expect = NoRev
  BY DEF Idle
<1> QED BY <1>1 DEF ReplacesIn, RestoresIn, Guarded

LEMMA BeginReplaces ==
  ASSUME GInv, NEW s \in Sessions, Begin(s)
  PROVE  ReplacesIn(s)' /\ RestoresIn(s)'
<1> DEFINE d == call'[s]
<1>0. LInv
  BY DEF GInv, IInv
<1>1. DOMAIN mine[s] = {}
  BY <1>0, EmptyTables DEF Begin, LInv, Reads, PathOf
<1> DEFINE Fresh == /\ d.done = {} /\ UNCHANGED <<revs, mine>>
                    /\ \/ d.pc = "read" /\ (d.expect # NoRev => d.verb \in {"update", "delete"})
                       \/ d.pc = "load" /\ d.expect = NoRev
<1>2. ASSUME NEW u, NEW verb, NEW e, NEW patch, NEW f, BeginMutate(s, u, verb, e, patch, f)
      PROVE  Fresh /\ d.target = NoRev
  <2>1. call'[s] = [Idle EXCEPT !.pc = "read", !.user = u, !.verb = verb, !.doc = e, !.patch = patch,
                                !.expect = f]
    BY <1>0, <1>2 DEF BeginMutate, LInv, TypeOK
  <2>2. f # NoRev => verb \in {"update", "delete"}
    BY <1>2 DEF BeginMutate, Ops
  <2>3. d.done = {} /\ d.pc = "read" /\ d.expect = f /\ d.verb = verb /\ d.target = NoRev
    BY <2>1 DEF Idle
  <2>4. UNCHANGED <<revs, mine>>
    BY <1>2 DEF BeginMutate
  <2> QED BY <2>2, <2>3, <2>4
<1>3. ASSUME NEW u \in Users, NEW e \in Docs, NEW target \in DOMAIN revs, NEW f \in CurrentOf(revs, e) \cup {NoRev},
             BeginRevert(s, u, e, target, f)
      PROVE  /\ Fresh /\ d.verb = "update" /\ d.target = target
             /\ d.expect # NoRev => /\ d.expect \in DOMAIN revs
                                    /\ Overlay(revs[d.expect].data, d.patch) = revs[target].data
  <2> DEFINE cur == CurrentRevision(revs, e)
             diff == {x \in Fields : revs[target].data[x] # revs[cur].data[x]}
  <2>1. call'[s] = [Idle EXCEPT !.pc = "read", !.user = u, !.verb = "update", !.doc = e,
                                !.patch = Slice(revs[target].data, diff), !.expect = f, !.target = target]
    BY <1>0, <1>3 DEF BeginRevert, LInv, TypeOK
  <2>2. cur \in DOMAIN revs /\ f \in {NoRev, cur}
    BY <1>3, CurrentRow DEF BeginRevert
  <2>3. revs[cur].data \in Document /\ revs[target].data \in Document
    BY <1>0, <2>2 DEF LInv, TypeOK, IsTable, Row
  <2>4. Overlay(revs[cur].data, Slice(revs[target].data, diff)) = revs[target].data
    BY <2>3 DEF Overlay, Slice, Document
  <2>5. /\ d.expect = f /\ d.patch = Slice(revs[target].data, diff) /\ d.target = target
        /\ d.verb = "update" /\ d.pc = "read" /\ d.done = {}
    BY <2>1 DEF Idle
  <2> QED BY <1>3, <2>2, <2>4, <2>5 DEF BeginRevert
<1>4. ASSUME NEW u, NEW todo, BeginDecide(s, u, todo)
      PROVE  Fresh /\ d.target = NoRev
  <2>1. call'[s] = [Idle EXCEPT !.pc = "load", !.user = u, !.verb = "decide", !.todo = todo]
    BY <1>0, <1>4 DEF BeginDecide, LInv, TypeOK
  <2>2. d.done = {} /\ d.pc = "load" /\ d.expect = NoRev /\ d.target = NoRev
    BY <2>1 DEF Idle
  <2>3. UNCHANGED <<revs, mine>>
    BY <1>4 DEF BeginDecide
  <2> QED BY <2>2, <2>3
<1>5. /\ Fresh
      /\ d.target # NoRev /\ d.expect # NoRev =>
           /\ d.verb = "update" /\ d.target \in DOMAIN revs /\ d.expect \in DOMAIN revs
           /\ Overlay(revs[d.expect].data, d.patch) = revs[d.target].data
  BY <1>2, <1>3, <1>4 DEF Begin
<1>6. ReplacesIn(s)'
  BY <1>1, <1>5 DEF ReplacesIn
<1>7. RestoresIn(s)'
  BY <1>5 DEF RestoresIn, Guarded
<1> QED BY <1>6, <1>7

\* A step from one position of a call to another that leaves what it asked for alone.
SameRequest(c, d) ==
  /\ d.verb = c.verb /\ d.user = c.user /\ d.expect = c.expect /\ d.target = c.target /\ d.patch = c.patch

LEMMA ReadReplaces ==
  ASSUME GInv, NEW s \in Sessions, Read(s)
  PROVE  ReplacesIn(s)' /\ RestoresIn(s)'
<1> DEFINE c == call[s]
           d == call'[s]
<1>0. c \in CallType /\ HasReadIn(s) /\ PathOf(s) /\ LInv /\ ReplacesIn(s) /\ RestoresIn(s)
  BY DEF GInv, IInv, LInv, TypeOK, Reads
<1>1. ASSUME Refuse(s) PROVE ReplacesIn(s)' /\ RestoresIn(s)'
  BY <1>0, <1>1, DroppedReplaces DEF Refuse, LInv, TypeOK
<1>2. ASSUME SameRequest(c, d), UNCHANGED <<revs, mine>>, c.verb = "decide"
      PROVE  ReplacesIn(s)' /\ RestoresIn(s)'
  BY <1>0, <1>2 DEF SameRequest, ReplacesIn, RestoresIn, Guarded, Revises
<1>3. CASE ReadForCreate(s)
  <2>1. ASSUME Goto(s, "insert"), UNCHANGED <<revs, mine, audited>>
        PROVE  ReplacesIn(s)' /\ RestoresIn(s)'
    <3>1. d = [c EXCEPT !.pc = "insert"] /\ c.verb = "create" /\ c.pc = "read"
      BY <1>0, <1>3, <2>1 DEF ReadForCreate, Goto, LInv, TypeOK, At
    <3>2. SameRequest(c, d) /\ d.pc = "insert" /\ d.done = c.done
      BY <1>0, <3>1 DEF CallType, SameRequest
    <3> QED BY <1>0, <2>1, <3>1, <3>2 DEF SameRequest, ReplacesIn, RestoresIn, Guarded, Revises
  <2> QED BY <1>1, <1>3, <2>1 DEF ReadForCreate
<1>4. CASE ReadForRevise(s)
  <2> DEFINE cur == CurrentRevision(View(s), c.doc)
             next == [c EXCEPT !.cur = cur, !.pc = IF c.user \in Proposers THEN "insert" ELSE "demote"]
  <2>1. ASSUME cur # NoRev, AsExpected(c, cur), d = next, UNCHANGED <<revs, mine, audited>>
        PROVE  ReplacesIn(s)' /\ RestoresIn(s)'
    <3>1. /\ SameRequest(c, d) /\ d.done = c.done /\ d.cur = cur /\ c.pc = "read"
          /\ c.verb \in {"update", "delete"}
          /\ d.pc = IF c.user \in Proposers THEN "insert" ELSE "demote"
      BY <1>0, <1>4, <2>1 DEF ReadForRevise, CallType, SameRequest, At
    <3>2. DOMAIN mine[s] = {} /\ c.done = {}
      BY <1>0, <3>1 DEF ReplacesIn
    <3>3. cur \in DOMAIN revs /\ revs[cur].status = "approved"
      <4>1. cur \in DOMAIN View(s) /\ View(s)[cur].current
        BY <2>1, CurrentRow
      <4>2. View(s)[cur].status = "approved"
        BY <1>0, <4>1, ViewApproved DEF OnlyApproved
      <4> QED BY <3>2, <4>1, <4>2 DEF View, Over
    <3>4. Revises(s)' => c.user \notin Proposers
      BY <3>1 DEF Revises, SameRequest
    <3>5. ReplacesIn(s)'
      BY <1>0, <2>1, <3>1, <3>2, <3>3, <3>4 DEF ReplacesIn, AsExpected, SameRequest
    <3>6. RestoresIn(s)'
      BY <1>0, <2>1, <3>1 DEF RestoresIn, Guarded, SameRequest
    <3> QED BY <3>5, <3>6
  <2>2. \/ cur # NoRev /\ AsExpected(c, cur) /\ d = next /\ UNCHANGED <<revs, mine, audited>>
        \/ Refuse(s)
    BY <1>0, <1>4 DEF ReadForRevise, LInv, TypeOK
  <2> QED BY <1>1, <2>1, <2>2
<1>5. CASE LoadPending(s) \/ NextDecision(s) \/ ScanConflicts(s)
  <2>1. c.verb = "decide"
    BY <1>0, <1>5 DEF LoadPending, NextDecision, ScanConflicts, PathOf, At
  <2>2. Refuse(s) \/ (SameRequest(c, d) /\ UNCHANGED <<revs, mine>>)
    BY <1>0, <1>5 DEF LoadPending, NextDecision, ScanConflicts, Goto, LInv, TypeOK, CallType, SameRequest
  <2> QED BY <1>1, <1>2, <2>1, <2>2
<1> QED BY <1>3, <1>4, <1>5 DEF Read

LEMMA WriteReplaces ==
  ASSUME GInv, NEW s \in Sessions, Write(s)
  PROVE  ReplacesIn(s)' /\ RestoresIn(s)'
<1> DEFINE c == call[s]
           d == call'[s]
<1>0. c \in CallType /\ HasReadIn(s) /\ PathOf(s) /\ LInv /\ ReplacesIn(s) /\ RestoresIn(s)
  BY DEF GInv, IInv, LInv, TypeOK, Reads
<1>1. CASE c.verb = "decide" /\ ~Drops(s)
  <2>1. SameRequest(c, d)
    BY <1>0, <1>1 DEF Write, Demote, Insert, Retire, Refuse, Drops, Goto, LInv, TypeOK, CallType, SameRequest
  <2> QED BY <1>0, <1>1, <2>1 DEF SameRequest, ReplacesIn, RestoresIn, Guarded, Revises
<1>2. CASE Drops(s)
  BY <1>0, <1>2, DroppedReplaces DEF Drops, LInv, TypeOK
<1>3. CASE c.verb # "decide" /\ Demote(s)
  <2>1. d = [c EXCEPT !.pc = "insert"] /\ c.pc = "demote"
    BY <1>0, <1>3 DEF Demote, Goto, LInv, TypeOK, At
  <2>2. SameRequest(c, d) /\ d.done = c.done /\ d.cur = c.cur /\ d.pc = "insert"
    BY <1>0, <2>1 DEF CallType, SameRequest
  <2>3. DOMAIN mine'[s] = {c.cur} /\ revs' = revs
    BY <1>0, <1>3, <2>1 DEF Demote, Put, ReplacesIn, LInv, TypeOK
  <2>4. Revises(s)' <=> Revises(s)
    BY <2>2 DEF Revises, SameRequest
  <2>5. ReplacesIn(s)'
    BY <1>0, <1>3, <2>1, <2>2, <2>3, <2>4 DEF ReplacesIn, SameRequest
  <2>6. RestoresIn(s)'
    BY <1>0, <2>1, <2>2, <2>3 DEF RestoresIn, Guarded, SameRequest
  <2> QED BY <2>5, <2>6
<1>4. CASE c.verb # "decide" /\ Insert(s) /\ ~Drops(s)
  <2> DEFINE n == NewRev
             x == WrittenRow(s)
  <2>1. /\ Writes(s, n, x) /\ Version(s, n, x) /\ n \notin DOMAIN View(s)
        /\ call' = [call EXCEPT ![s].done = @ \cup {n}, ![s].pc = "audit"]
    BY <1>0, <1>4, InsertWrites DEF NewRow
  <2>2. d = [c EXCEPT !.done = @ \cup {n}, !.pc = "audit"] /\ c.pc = "insert"
    BY <1>0, <1>4, <2>1 DEF Insert, At, LInv, TypeOK
  <2>3. /\ x.doc = c.doc /\ (c.user \notin Proposers => x.status = "approved")
        /\ c.verb # "create" => x.data = Overlay(View(s)[c.cur].data, c.patch)
    BY DEF WrittenRow
  <2> HIDE DEF n, x
  <2>4. SameRequest(c, d) /\ d.done = {n} /\ d.cur = c.cur /\ d.pc = "audit"
    BY <1>0, <1>4, <2>2 DEF CallType, SameRequest, ReplacesIn
  <2>5. mine'[s] = Put(mine[s], n, x) /\ revs' = revs /\ n \notin DOMAIN revs /\ n \notin DOMAIN mine[s]
    BY <1>0, <2>1 DEF Writes, LInv, TypeOK, View, Over
  <2>6. Revises(s)' <=> Revises(s)
    BY <2>4 DEF Revises, SameRequest
  <2>7. ASSUME Revises(s) PROVE /\ DOMAIN mine'[s] = {c.cur, n} /\ mine'[s][n] = x /\ c.cur \in DOMAIN revs
                                /\ x.status = "approved" /\ x.doc = revs[c.cur].doc
                                /\ View(s)[c.cur].data = revs[c.cur].data
    <3>1. DOMAIN mine[s] = {c.cur} /\ c.cur \in DOMAIN revs
      BY <1>0, <2>2, <2>7 DEF ReplacesIn
    <3>2. SameState(View(s)[c.cur], revs[c.cur]) /\ c.cur \in Revs
      BY <1>0, <3>1 DEF View, Over, LInv, Versions, SameState, TypeOK, IsTable
    <3>3. c.cur # NoRev
      BY <3>2, ConstantsAssumption
    <3>4. View(s)[c.cur].doc = c.doc
      BY <1>0, <2>2, <3>3 DEF HasReadIn
    <3> QED BY <2>3, <2>5, <2>7, <3>1, <3>2, <3>4 DEF Put, SameState, Revises
  <2>8. ReplacesIn(s)'
    <3>1. d.expect # NoRev => d.verb \in {"update", "delete"}
      BY <1>0, <2>4 DEF ReplacesIn, SameRequest
    <3>2. ASSUME Revises(s)
          PROVE  /\ d.expect # NoRev => d.cur = d.expect
                 /\ d.cur \in DOMAIN revs' /\ revs'[d.cur].status = "approved"
                 /\ d.done = {n} /\ n \notin DOMAIN revs' /\ DOMAIN mine'[s] = {d.cur, n}
                 /\ mine'[s][n].status = "approved" /\ mine'[s][n].doc = revs'[d.cur].doc
      BY <1>0, <2>2, <2>4, <2>5, <2>7, <3>2 DEF ReplacesIn, SameRequest
    <3> QED BY <2>4, <2>6, <3>1, <3>2 DEF ReplacesIn
  <2>9. RestoresIn(s)'
    <3> SUFFICES ASSUME Guarded(s), c.target # NoRev
                 PROVE  /\ c.verb = "update" /\ c.target \in DOMAIN revs
                        /\ \A r \in {n} : r \in DOMAIN mine'[s] /\ mine'[s][r].data = revs[c.target].data
      BY <2>4, <2>5 DEF RestoresIn, Guarded, SameRequest
    <3>1. c.verb = "update" /\ c.target \in DOMAIN revs /\ Overlay(revs[c.expect].data, c.patch) = revs[c.target].data
      BY <1>0, <2>2 DEF RestoresIn
    <3>2. Revises(s) /\ c.cur = c.expect
      BY <1>0, <2>2, <3>1 DEF Revises, Guarded, ReplacesIn
    <3> QED BY <2>3, <2>7, <3>1, <3>2
  <2> QED BY <2>8, <2>9
<1>5. Retire(s) => c.verb = "decide"
  BY <1>0 DEF Retire, At, PathOf
<1> QED BY <1>1, <1>2, <1>3, <1>4, <1>5 DEF Write

LEMMA FinishReplaces ==
  ASSUME GInv, NEW s \in Sessions, Finish(s) \/ Lost(s)
  PROVE  ReplacesIn(s)' /\ RestoresIn(s)'
<1> DEFINE c == call[s]
<1>0. c \in CallType /\ LInv /\ ReplacesIn(s) /\ RestoresIn(s)
  BY DEF GInv, IInv, LInv, TypeOK
<1>1. CASE Audit(s)
  <2>1. call'[s] = [c EXCEPT !.pc = "commit"] /\ c.pc = "audit" /\ UNCHANGED <<revs, mine>>
    BY <1>0, <1>1 DEF Audit, Goto, At, LInv, TypeOK
  <2>2. SameRequest(c, call'[s]) /\ call'[s].done = c.done /\ call'[s].cur = c.cur /\ call'[s].pc = "commit"
    BY <1>0, <2>1 DEF CallType, SameRequest
  <2>3. ReplacesIn(s)'
    BY <1>0, <2>1, <2>2 DEF SameRequest, ReplacesIn, Revises
  <2>4. RestoresIn(s)'
    BY <1>0, <2>1, <2>2 DEF SameRequest, RestoresIn, Guarded
  <2> QED BY <2>3, <2>4
<1>2. CASE ~Audit(s)
  BY <1>0, <1>2, DroppedReplaces DEF Finish, Lost, AuditFails, Commit, DeadlockVictim, Refuse, LInv, TypeOK
<1> QED BY <1>1, <1>2

LEMMA GInvInit == Init => GInv
<1> SUFFICES ASSUME Init PROVE GInv
  OBVIOUS
<1>1. IInv
  BY LInvInit, OrderedInit DEF IInv
<1>2. \A s \in Sessions : call[s] = Idle
  BY DEF Init
<1>3. Idle.pc = "idle" /\ Idle.expect = NoRev
  BY DEF Idle
<1>4. \A s \in Sessions : ReplacesIn(s) /\ RestoresIn(s)
  BY <1>2, <1>3 DEF ReplacesIn, RestoresIn, Guarded
<1> QED BY <1>1, <1>4 DEF GInv

LEMMA GInvStep == GInv /\ [Next]_vars => GInv'
<1> SUFFICES ASSUME GInv, [Next]_vars PROVE GInv'
  OBVIOUS
<1>0. IInv'
  BY LInvStep, OrderedStep DEF GInv, IInv
<1>1. CASE UNCHANGED vars \/ Exhausted
  <2>1. UNCHANGED <<revs, mine, call>>
    BY <1>1 DEF vars, Exhausted
  <2>2. \A s \in Sessions : ReplacesIn(s)' /\ RestoresIn(s)'
    BY <2>1, ReplacesKept DEF GInv, IInv, SameState
  <2> QED BY <1>0, <2>2 DEF GInv
<1>2. ASSUME NEW s \in Sessions, Begin(s) \/ Read(s) \/ Write(s) \/ Finish(s) \/ Lost(s) PROVE GInv'
  BY <1>0, <1>2, OthersReplace, BeginReplaces, ReadReplaces, WriteReplaces, FinishReplaces DEF GInv
<1> QED BY <1>1, <1>2 DEF Next

\* What commits has replaced the revision it names.
LEMMA CommitReplaces ==
  ASSUME GInv, NEW s \in Sessions, Commit(s), Guarded(s)
  PROVE  revs[call[s].expect].current /\ ~revs'[call[s].expect].current
<1> DEFINE c == call[s]
           e == c.expect
<1>0. LInv /\ ReplacesIn(s) /\ c.pc = "commit" /\ Revises(s)
  BY DEF GInv, IInv, Commit, At, Guarded, Revises, ReplacesIn
<1>1. c.cur = e /\ e \in DOMAIN revs /\ revs[e].status = "approved"
  BY <1>0 DEF ReplacesIn, Guarded
<1>2. PICK n : /\ n \notin DOMAIN revs /\ DOMAIN mine[s] = {e, n}
               /\ mine[s][n].status = "approved" /\ mine[s][n].doc = revs[e].doc
  BY <1>0, <1>1 DEF ReplacesIn
<1> DEFINE d == revs[e].doc
<1>3. d \in Docs /\ Holds(s, d)
  BY <1>0, <1>1, <1>2 DEF Holds, LInv, TypeOK, IsTable, Row
<1>4. e \in ApprovedOf(revs, d)
  BY <1>1 DEF ApprovedOf
<1>5. PICK r \in ApprovedOf(revs, d) : CurrentOf(revs, d) = {r}
  BY <1>3, <1>4 DEF GInv, IInv, Ordered, WellKept, OneCurrentIn
<1>6. r \in DOMAIN mine[s] /\ r \in DOMAIN revs
  BY <1>3, <1>5 DEF GInv, IInv, Ordered, Demotes, ApprovedOf
<1>7. r = e
  BY <1>2, <1>6
<1>8. revs[e].current
  BY <1>5, <1>7 DEF CurrentOf
<1>9. revs'[e] = mine[s][e] /\ ~mine[s][e].current
  BY <1>0, <1>1, <1>2 DEF Commit, View, Over, LInv, Versions
<1> QED BY <1>8, <1>9

LEMMA CommitRestores ==
  ASSUME GInv, NEW s \in Sessions, Commit(s), Guarded(s), call[s].target # NoRev, NEW r \in call[s].done
  PROVE  revs'[r].data = revs'[call[s].target].data
<1> DEFINE g == call[s].target
<1>1. LInv /\ g \in DOMAIN revs /\ r \in DOMAIN mine[s] /\ mine[s][r].data = revs[g].data
  BY DEF GInv, IInv, RestoresIn, Commit, At
<1> QED BY <1>1 DEF Commit, View, Over, LInv, Versions, SameState

\* If-Match: a direct write that names the revision it saw replaces that revision, and a
\* revert that does leaves the document as the revision it restores, whoever else wrote,
\* proposed or approved meanwhile.
THEOREM IfMatchAlways == Spec => IfMatchHolds
<1>1. GInv /\ [Next]_vars =>
        \A s \in Sessions :
          LET c == call[s]
          IN Commit(s) /\ c.expect # NoRev /\ c.user \notin Proposers
               => revs[c.expect].current /\ ~revs'[c.expect].current
  BY CommitReplaces DEF Guarded
<1>2. GInv /\ [Next]_vars =>
        \A s \in Sessions :
          LET c == call[s]
          IN Commit(s) /\ c.target # NoRev /\ c.expect # NoRev /\ c.user \notin Proposers
               => \A r \in c.done : revs'[r].data = revs'[c.target].data
  BY CommitRestores DEF Guarded
<1>3. Spec => CommitsOnExpected
  BY <1>1, GInvInit, GInvStep, PTL DEF Spec, CommitsOnExpected
<1>4. Spec => GuardedRevertRestores
  BY <1>2, GInvInit, GInvStep, PTL DEF Spec, GuardedRevertRestores
<1> QED BY <1>3, <1>4 DEF IfMatchHolds

---------------------------------------------------------------------------
(* The table as histories of documents *)

\* The approved revisions of d are numbered 1 .. n, n being how many there are.
NumberedIn(t, d) ==
  LET A == ApprovedOf(t, d)
  IN IsFiniteSet(A) /\ {t[r].seq : r \in A} = 1 .. Cardinality(A)

\* A create starts from nothing, and among the states it is the first one and no other.
CreatedIn(t) ==
  \A r \in DOMAIN t :
    /\ t[r].op = "create" => \A f \in Fields \ t[r].fields : t[r].data[f] = Null
    /\ t[r].status = "approved" => (t[r].op = "create" <=> t[r].seq = 1)

\* What a call has done, with what it has still to do, is at most a batch; what it has
\* added is among what it has done.
BatchIn(s) ==
  LET c == call[s]
      n == Cardinality(c.done)
  IN /\ IsFiniteSet(c.done)
     /\ DOMAIN mine[s] \ DOMAIN revs \subseteq c.done
     /\ c.verb # "decide" /\ c.pc \in {"read", "demote", "insert"} => c.done = {}
     /\ c.verb = "decide" /\ c.pc \in {"load", "next", "scan", "demote", "insert"} => n + Len(c.todo) <= MaxBatch
     /\ c.verb = "decide" /\ c.pc = "retire" =>
          n + Len(c.todo) <= IF Head(c.todo).action = "approve" THEN MaxBatch + 1 ELSE MaxBatch
     /\ c.pc \in {"audit", "commit"} => n <= MaxBatch
     /\ c.verb = "decide" /\ c.pc \in {"scan", "demote", "insert"} =>
          /\ Head(c.todo).action = "approve"
          /\ c.cur = NoRev <=> Proposal(s).op = "create"

HInv ==
  /\ IInv
  /\ \A d \in Docs : NumberedIn(revs, d) /\ \A s \in Sessions : NumberedIn(View(s), d)
  /\ CreatedIn(revs)
  /\ \A s \in Sessions : CreatedIn(mine[s]) /\ BatchIn(s)

LEMMA NumberedSame ==
  ASSUME NEW t, NEW u, NEW d, SameHistory(t, u, d), NumberedIn(t, d)
  PROVE  NumberedIn(u, d)
<1>1. {t[r].seq : r \in ApprovedOf(t, d)} = {u[r].seq : r \in ApprovedOf(u, d)}
  BY DEF SameHistory, SameState
<1> QED BY <1>1 DEF SameHistory, NumberedIn

LEMMA NumberedExtends ==
  ASSUME HInv, IInv', NEW s \in Sessions, NEW d \in Docs, Insert(s), Extends(s, d)
  PROVE  NumberedIn(View(s)', d)
<1> DEFINE n == NewRev
           x == NewRow(s)
           t == View(s)
           A == ApprovedOf(t, d)
           c == call[s]
           k == Cardinality(A)
<1>1. /\ ApprovedOf(View(s)', d) = A \cup {n} /\ View(s)'[n] = x
      /\ \A q \in A : View(s)'[q] = t[q] /\ t[q].seq < x.seq
      /\ \A q \in A : t[q].seq \in Nat /\ t[q].seq >= 1
      /\ x.seq \in Nat
  BY ExtendsLast DEF HInv
<1>2. IsFiniteSet(A) /\ {t[q].seq : q \in A} = 1 .. k /\ k \in Nat
  BY FS_CardinalityType DEF HInv, NumberedIn
<1>3. n \notin A
  BY DEF Extends, ApprovedOf
<1>4. IsFiniteSet(A \cup {n}) /\ Cardinality(A \cup {n}) = k + 1
  BY <1>2, <1>3, FS_AddElement
<1>5. x.seq = k + 1
  <2>1. c.pc = "insert" /\ HasReadIn(s) /\ LInv
    BY DEF Extends, At, HInv, IInv, LInv, Reads
  <2>2. /\ c.cur = NoRev => x.seq = 1
        /\ c.cur # NoRev => x.seq = t[c.cur].seq + 1 /\ c.cur \in A
    BY <2>1, NextRow DEF Extends, HasReadIn, ApprovedOf
  <2> HIDE DEF x, k, A
  <2>3. CASE c.cur = NoRev
    <3>1. A = {}
      BY <1>1, <2>2, <2>3
    <3> QED BY <1>2, <2>2, <2>3, <3>1, FS_EmptySet DEF k
  <2>4. CASE c.cur # NoRev
    <3>1. t[c.cur].seq \in 1 .. k
      BY <1>2, <2>2, <2>4
    <3>2. PICK q \in A : t[q].seq = k
      BY <1>2, <3>1
    <3> QED BY <1>1, <1>2, <2>2, <2>4, <3>1, <3>2
  <2> QED BY <2>3, <2>4
<1> HIDE DEF x, n, A, k
<1>6. {View(s)'[q].seq : q \in A \cup {n}} = (1 .. k) \cup {k + 1}
  BY <1>1, <1>2, <1>5
<1>7. (1 .. k) \cup {k + 1} = 1 .. k + 1
  BY <1>2
<1> QED BY <1>1, <1>4, <1>6, <1>7 DEF NumberedIn

LEMMA CreatedVersion ==
  ASSUME HInv, NEW s \in Sessions
  PROVE  /\ CreatedIn(View(s))
         /\ \A r \in DOMAIN View(s) : \A x : SameState(x, View(s)[r]) => CreatedIn(Put(mine[s], r, x))
<1>1. CreatedIn(View(s))
  BY DEF HInv, CreatedIn, View, Over
<1>2. ASSUME NEW r \in DOMAIN View(s), NEW x, SameState(x, View(s)[r])
      PROVE  CreatedIn(Put(mine[s], r, x))
  BY <1>1, <1>2 DEF HInv, CreatedIn, Put, SameState
<1> QED BY <1>1, <1>2

\* The row a call inserts is the first state of its document exactly if it is a create.
LEMMA CreatedRow ==
  ASSUME HInv, IInv', NEW s \in Sessions, Insert(s), ~Drops(s)
  PROVE  LET x == NewRow(s)
         IN /\ x.op = "create" => \A f \in Fields \ x.fields : x.data[f] = Null
            /\ x.status = "approved" => (x.op = "create" <=> x.seq = 1)
<1> DEFINE c == call[s]
           x == NewRow(s)
<1>0. LInv /\ c \in CallType /\ HasReadIn(s) /\ PathOf(s) /\ c.pc = "insert" /\ At(s, "insert")
  BY DEF HInv, IInv, LInv, TypeOK, Reads, Insert, At
<1>1. c.cur = NoRev <=> x.op = "create"
  <2>1. CASE c.verb = "decide"
    <3>1. Proposal(s) \in Row
      BY <1>0, <2>1, ProposalRow DEF HasReadIn, LInv
    <3>2. MergedRow(s).op = Proposal(s).op
      BY <3>1 DEF MergedRow, Row
    <3> QED BY <1>0, <2>1, <3>2 DEF HInv, BatchIn, NewRow
  <2>2. CASE c.verb # "decide"
    BY <1>0, <2>2 DEF PathOf, NewRow, WrittenRow
  <2> QED BY <2>1, <2>2
<1>2. ASSUME x.op = "create", NEW f \in Fields \ x.fields PROVE x.data[f] = Null
  <2>1. CASE c.verb = "decide"
    <3>1. Proposal(s) \in Row /\ Head(c.todo).prop \in DOMAIN View(s)
      BY <1>0, <2>1, ProposalRow DEF HasReadIn, LInv
    <3> DEFINE y == MergedRow(s)
    <3>2. y.op = Proposal(s).op /\ y.fields = Proposal(s).fields /\ y.data = Merged(s)
      BY <3>1 DEF MergedRow, Row
    <3>3. x = y
      BY <2>1 DEF NewRow
    <3> HIDE DEF x, y
    <3>4. Merged(s) = Proposal(s).data
      BY <1>1, <1>2 DEF Merged
    <3> QED BY <1>2, <3>1, <3>2, <3>3, <3>4, CreatedVersion DEF CreatedIn, Proposal
  <2>2. CASE c.verb # "decide"
    <3>1. WrittenRow(s).op = c.verb /\ WrittenRow(s).fields = DOMAIN c.patch
      BY DEF WrittenRow
    <3>2. c.verb = "create" => WrittenRow(s).data = Overlay(Blank, c.patch)
      BY DEF WrittenRow
    <3> QED BY <1>2, <2>2, <3>1, <3>2 DEF NewRow, Overlay, Blank
  <2> QED BY <2>1, <2>2
<1>3. ASSUME x.status = "approved" PROVE x.op = "create" <=> x.seq = 1
  <2>1. x.current /\ x.doc = c.doc /\ (c.cur = NoRev => x.seq = 1) /\ (c.cur # NoRev => x.seq = View(s)[c.cur].seq + 1)
    BY <1>0, <1>3, NextRow
  <2>2. Extends(s, c.doc) /\ c.doc \in Docs
    <3>1. Writes(s, NewRev, x) /\ Version(s, NewRev, x) /\ NewRev \notin DOMAIN View(s)
      BY <1>0, InsertWrites
    <3>2. View(s)' = Put(View(s), NewRev, x)
      BY <1>0, <3>1, ViewAfterWrite
    <3>3. NewRev \in Revs /\ x \in Row
      BY <3>1 DEF Version
    <3> QED BY <1>0, <1>3, <2>1, <3>1, <3>2, <3>3 DEF Extends, CallType
  <2>3. \A q \in ApprovedOf(View(s), c.doc) : View(s)[q].seq \in Nat /\ View(s)[q].seq >= 1
    BY <2>2, ExtendsLast DEF HInv
  <2>4. c.cur # NoRev => c.cur \in ApprovedOf(View(s), c.doc)
    BY <1>0 DEF HasReadIn, ApprovedOf
  <2> HIDE DEF x
  <2> QED BY <1>1, <2>1, <2>3, <2>4
<1> QED BY <1>2, <1>3

LEMMA CreatedStep ==
  ASSUME HInv, IInv', NEW s \in Sessions, Begin(s) \/ Read(s) \/ Write(s) \/ Finish(s) \/ Lost(s)
  PROVE  CreatedIn(revs)' /\ \A t \in Sessions : CreatedIn(mine[t])'
<1>0. LInv
  BY DEF HInv, IInv
<1>1. CreatedIn(revs)'
  <2>1. revs' = revs \/ revs' = View(s)
    BY QuietOrOver DEF Write, Demote, Insert, Retire, Refuse, Drops, Commit
  <2> QED BY <2>1, CreatedVersion DEF HInv, CreatedIn
<1>2. ASSUME NEW t \in Sessions, t # s PROVE CreatedIn(mine[t])'
  BY <1>0, <1>2, OthersKept DEF HInv, LInv, CreatedIn
<1>3. CreatedIn(mine[s])'
  <2>1. CASE mine'[s] = NoRows
    BY <2>1, EmptyTables DEF CreatedIn
  <2>2. CASE mine' = mine
    BY <2>2 DEF HInv, CreatedIn
  <2>3. ASSUME NEW r \in DOMAIN View(s), NEW x, Writes(s, r, x), Version(s, r, x) PROVE CreatedIn(mine[s])'
    BY <1>0, <2>3, CreatedVersion DEF Writes, Version, CreatedIn, LInv, TypeOK
  <2>4. CASE Demote(s)
    <3> DEFINE r == call[s].cur
               x == [View(s)[r] EXCEPT !.current = FALSE]
    <3>1. r \in DOMAIN View(s)
      BY <1>0, <2>4 DEF Demote, At, LInv, Reads, HasReadIn, PathOf
    <3>2. Writes(s, r, x) /\ Version(s, r, x)
      BY <1>0, <2>4, DemoteWrites
    <3> HIDE DEF r, x
    <3> QED BY <2>3, <3>1, <3>2
  <2>5. CASE Retire(s)
    <3> DEFINE r == Head(call[s].todo).prop
    <3>1. r \in DOMAIN View(s)
      BY <1>0, <2>5, ProposalRow DEF Retire, At, LInv, Reads, HasReadIn, PathOf
    <3>2. PICK x : Writes(s, r, x) /\ Version(s, r, x)
      BY <1>0, <2>5, RetireWrites
    <3> HIDE DEF r
    <3> QED BY <2>3, <3>1, <3>2
  <2>6. CASE Insert(s) /\ ~Drops(s)
    <3> DEFINE n == NewRev
               x == NewRow(s)
    <3>1. mine'[s] = Put(mine[s], n, x)
      BY <1>0, <2>6, InsertWrites DEF Writes, LInv, TypeOK
    <3>2. /\ x.op = "create" => \A f \in Fields \ x.fields : x.data[f] = Null
          /\ x.status = "approved" => (x.op = "create" <=> x.seq = 1)
      BY <2>6, CreatedRow
    <3> HIDE DEF n, x
    <3> QED BY <3>1, <3>2 DEF HInv, CreatedIn, Put
  <2>7. CASE Drops(s) \/ Commit(s)
    BY <1>0, <2>1, <2>7 DEF Drops, Commit, LInv, TypeOK
  <2> QED BY <2>2, <2>4, <2>5, <2>6, <2>7, QuietOrOver DEF Write
<1> QED BY <1>1, <1>2, <1>3

\* What a call has still to do and has done stays within a batch while it goes on, if at all,
\* to a later position of the same decision without adding to either.
LEMMA BatchKept ==
  ASSUME LInv, NEW t \in Sessions, BatchIn(t),
         call'[t].verb = call[t].verb, call'[t].cur = call[t].cur, call'[t].todo = call[t].todo,
         call'[t].done = call[t].done,
         \/ call'[t].pc = call[t].pc
         \/ call[t].pc = "scan" /\ call'[t].pc = "demote"
         \/ call[t].pc = "demote" /\ call'[t].pc = "insert",
         \A r \in DOMAIN View(t) : r \in DOMAIN View(t)' /\ SameState(View(t)'[r], View(t)[r]),
         DOMAIN mine'[t] \ DOMAIN revs' \subseteq DOMAIN mine[t] \ DOMAIN revs
  PROVE  BatchIn(t)'
<1> DEFINE c == call[t]
           d == call'[t]
<1>1. c.verb = "decide" /\ c.pc \in {"scan", "demote", "insert"} => Proposal(t)'.op = Proposal(t).op
  BY DEF LInv, Reads, HasReadIn, Proposal, SameState
<1>2. c.verb = "decide" /\ c.pc \in {"scan", "demote", "insert"} =>
        Head(c.todo).action = "approve" /\ (c.cur = NoRev <=> Proposal(t).op = "create")
  BY DEF BatchIn
<1>3. c.pc = "scan" => c.verb = "decide"
  BY DEF LInv, Reads, PathOf
<1>4. IsFiniteSet(d.done) /\ DOMAIN mine'[t] \ DOMAIN revs' \subseteq d.done
  BY DEF BatchIn
<1>5. d.verb # "decide" /\ d.pc \in {"read", "demote", "insert"} => d.done = {}
  BY <1>3 DEF BatchIn
<1>6. /\ d.verb = "decide" /\ d.pc \in {"load", "next", "scan", "demote", "insert"} =>
           Cardinality(d.done) + Len(d.todo) <= MaxBatch
      /\ d.verb = "decide" /\ d.pc = "retire" =>
           Cardinality(d.done) + Len(d.todo) <= IF Head(d.todo).action = "approve" THEN MaxBatch + 1 ELSE MaxBatch
      /\ d.pc \in {"audit", "commit"} => Cardinality(d.done) <= MaxBatch
  BY DEF BatchIn
<1>7. d.verb = "decide" /\ d.pc \in {"scan", "demote", "insert"} =>
        Head(d.todo).action = "approve" /\ (d.cur = NoRev <=> Proposal(t)'.op = "create")
  BY <1>1, <1>2
<1> HIDE DEF c, d
<1> QED BY <1>4, <1>5, <1>6, <1>7 DEF BatchIn, d

LEMMA OthersBatch ==
  ASSUME LInv, NEW s \in Sessions, Begin(s) \/ Read(s) \/ Write(s) \/ Finish(s) \/ Lost(s),
         NEW t \in Sessions, t # s, BatchIn(t)
  PROVE  BatchIn(t)'
<1>1. call'[t] = call[t] /\ mine'[t] = mine[t] /\ (revs' = revs \/ Commit(s))
  BY OthersKept DEF LInv
<1>2. DOMAIN revs \subseteq DOMAIN revs'
  BY <1>1 DEF Commit, View, Over
<1>3. \A r \in DOMAIN View(t) : r \in DOMAIN View(t)' /\ SameState(View(t)'[r], View(t)[r])
  <2>1. CASE Commit(s)
    BY <2>1, ViewAfterCommit
  <2>2. CASE revs' = revs
    BY <1>1, <2>2 DEF View, Over, SameState
  <2> QED BY <1>1, <2>1, <2>2
<1> QED BY <1>1, <1>2, <1>3, BatchKept

LEMMA DroppedBatch ==
  ASSUME NEW s \in Sessions, call'[s] = Idle, mine'[s] = NoRows
  PROVE  BatchIn(s)'
<1>1. Idle.pc = "idle" /\ Idle.done = {}
  BY DEF Idle
<1> QED BY <1>1, EmptyTables, FS_EmptySet DEF BatchIn

LEMMA OneMore ==
  ASSUME NEW S, IsFiniteSet(S), NEW x
  PROVE  /\ IsFiniteSet(S \cup {x}) /\ Cardinality(S \cup {x}) \in Nat
         /\ Cardinality(S \cup {x}) <= Cardinality(S) + 1
<1>1. IsFiniteSet(S \cup {x}) /\ Cardinality(S \cup {x}) = IF x \in S THEN Cardinality(S) ELSE Cardinality(S) + 1
  BY FS_AddElement
<1>2. Cardinality(S) \in Nat
  BY FS_CardinalityType
<1> QED BY <1>1, <1>2

LEMMA BeginBatch ==
  ASSUME LInv, NEW s \in Sessions, Begin(s)
  PROVE  BatchIn(s)'
<1> DEFINE d == call'[s]
           Fresh == /\ d.done = {} /\ UNCHANGED <<revs, mine>>
                    /\ \/ d.pc = "read" /\ d.verb # "decide"
                       \/ d.pc = "load" /\ d.verb = "decide" /\ Len(d.todo) \in 1 .. MaxBatch
<1>1. ASSUME NEW u, NEW verb, NEW e, NEW patch, NEW f, BeginMutate(s, u, verb, e, patch, f) PROVE Fresh
  <2>1. d = [Idle EXCEPT !.pc = "read", !.user = u, !.verb = verb, !.doc = e, !.patch = patch, !.expect = f]
    BY <1>1 DEF BeginMutate, LInv, TypeOK
  <2>2. d.done = {} /\ d.pc = "read" /\ d.verb = verb
    BY <2>1 DEF Idle
  <2>3. UNCHANGED <<revs, mine>> /\ verb # "decide"
    BY <1>1 DEF BeginMutate, Ops
  <2> QED BY <2>2, <2>3
<1>2. ASSUME NEW u, NEW e, NEW target, NEW f, BeginRevert(s, u, e, target, f) PROVE Fresh
  <2>1. d.done = {} /\ d.pc = "read" /\ d.verb = "update"
    BY <1>2 DEF BeginRevert, LInv, TypeOK, Idle
  <2>2. UNCHANGED <<revs, mine>>
    BY <1>2 DEF BeginRevert
  <2> QED BY <2>1, <2>2
<1>3. ASSUME NEW u, NEW todo, BeginDecide(s, u, todo) PROVE Fresh
  <2>1. d.done = {} /\ d.pc = "load" /\ d.verb = "decide" /\ d.todo = todo
    BY <1>3 DEF BeginDecide, LInv, TypeOK, Idle
  <2>2. UNCHANGED <<revs, mine>> /\ Len(todo) \in 1 .. MaxBatch
    BY <1>3 DEF BeginDecide
  <2> QED BY <2>1, <2>2
<1>4. Fresh
  BY <1>1, <1>2, <1>3 DEF Begin
<1>5. DOMAIN mine[s] = {}
  BY EmptyTables DEF Begin, LInv, Reads, PathOf
<1>6. IsFiniteSet({}) /\ Cardinality({}) = 0 /\ MaxBatch \in Nat
  BY FS_EmptySet, ConstantsAssumption
<1>7. CASE d.pc = "read"
  BY <1>4, <1>5, <1>6, <1>7 DEF BatchIn
<1>8. CASE d.pc = "load"
  <2>1. Cardinality(d.done) + Len(d.todo) <= MaxBatch
    BY <1>4, <1>6, <1>8
  <2> QED BY <1>4, <1>5, <1>6, <1>8, <2>1 DEF BatchIn
<1> QED BY <1>4, <1>7, <1>8

LEMMA ReadBatch ==
  ASSUME HInv, NEW s \in Sessions, Read(s)
  PROVE  BatchIn(s)'
<1> DEFINE c == call[s]
           d == call'[s]
<1>0. c \in CallType /\ HasReadIn(s) /\ PathOf(s) /\ LInv /\ BatchIn(s)
  BY DEF HInv, IInv, LInv, TypeOK, Reads
<1>1. ASSUME Refuse(s) PROVE BatchIn(s)'
  BY <1>0, <1>1, DroppedBatch DEF Refuse, LInv, TypeOK
<1>2. ASSUME UNCHANGED <<revs, mine>> PROVE View(s)' = View(s)
  BY <1>2 DEF View, Over
<1>3. CASE ReadForCreate(s) \/ ReadForRevise(s)
  <2>1. Refuse(s) \/ (UNCHANGED <<revs, mine>> /\ d.pc \in {"insert", "demote"} /\ d.done = c.done /\ d.verb = c.verb)
    BY <1>0, <1>3 DEF ReadForCreate, ReadForRevise, Goto, LInv, TypeOK, CallType
  <2>2. c.pc = "read" /\ c.verb # "decide"
    BY <1>3 DEF ReadForCreate, ReadForRevise, At
  <2> QED BY <1>0, <1>1, <2>1, <2>2 DEF BatchIn
<1>4. CASE LoadPending(s)
  <2>1. /\ d.pc = "next" /\ d.done = c.done /\ d.verb = c.verb /\ d.todo = c.todo /\ UNCHANGED <<revs, mine>>
        /\ c.pc = "load"
    BY <1>0, <1>4 DEF LoadPending, LInv, TypeOK, CallType, At
  <2>2. c.verb = "decide"
    BY <1>0, <2>1 DEF PathOf
  <2> QED BY <1>0, <2>1, <2>2 DEF BatchIn
<1>5. CASE NextDecision(s)
  <2> DEFINE h == Head(c.todo)
             p == Proposal(s)
             cur == CurrentRevision(View(s), p.doc)
             next == [c EXCEPT !.cur = IF p.op = "create" THEN NoRev ELSE cur, !.doc = p.doc,
                               !.pc = IF h.action = "reject" THEN "retire"
                                      ELSE IF p.op = "create" THEN "insert" ELSE "scan"]
  <2>1. \/ /\ d = next /\ UNCHANGED <<revs, mine>>
           /\ (h.action = "approve" /\ p.op # "create" => cur # NoRev)
        \/ Refuse(s)
    BY <1>0, <1>5 DEF NextDecision, LInv, TypeOK
  <2>2. h.action \in {"approve", "reject"} /\ c.verb = "decide" /\ c.pc = "next"
    <3>1. c.todo \in Seq(Decision) /\ c.todo # <<>> /\ c.verb = "decide" /\ c.pc = "next"
      BY <1>0, <1>5 DEF NextDecision, CallType, PathOf, At
    <3>2. h \in Decision
      BY <3>1
    <3> QED BY <3>1, <3>2 DEF Decision, Actions
  <2>3. ASSUME d = next, UNCHANGED <<revs, mine>>, h.action = "approve" /\ p.op # "create" => cur # NoRev
        PROVE  BatchIn(s)'
    <3>1. /\ d.done = c.done /\ d.todo = c.todo /\ d.verb = "decide"
          /\ d.cur = IF p.op = "create" THEN NoRev ELSE cur
          /\ d.pc = IF h.action = "reject" THEN "retire" ELSE IF p.op = "create" THEN "insert" ELSE "scan"
      BY <1>0, <2>2, <2>3 DEF CallType
    <3>2. Proposal(s)' = p
      BY <1>2, <2>3, <3>1 DEF Proposal
    <3>3. Cardinality(c.done) + Len(c.todo) <= MaxBatch /\ IsFiniteSet(c.done) /\ DOMAIN mine[s] \ DOMAIN revs \subseteq c.done
      BY <1>0, <2>2 DEF BatchIn
    <3>4. d.pc \in {"insert", "scan"} => h.action = "approve" /\ (d.cur = NoRev <=> p.op = "create")
      BY <2>2, <2>3, <3>1
    <3>5. d.pc \in {"retire", "insert", "scan"} /\ (d.pc = "retire" => h.action # "approve")
      BY <2>2, <3>1
    <3> HIDE DEF h, p, cur, next, c, d
    <3>6. call'[s] = d /\ h = Head(c.todo)
      BY DEF d, h
    <3> QED BY <2>3, <3>1, <3>2, <3>3, <3>4, <3>5, <3>6 DEF BatchIn
  <2> QED BY <1>1, <2>1, <2>3
<1>6. CASE ScanConflicts(s)
  <2>1. Refuse(s) \/ (Goto(s, "demote") /\ UNCHANGED <<revs, mine>> /\ c.pc = "scan")
    BY <1>6 DEF ScanConflicts, At
  <2>2. ASSUME Goto(s, "demote"), UNCHANGED <<revs, mine>>, c.pc = "scan"
        PROVE  BatchIn(s)'
    <3>1. /\ d.verb = c.verb /\ d.cur = c.cur /\ d.todo = c.todo /\ d.done = c.done /\ d.pc = "demote"
      BY <1>0, <2>2 DEF Goto, LInv, TypeOK, CallType
    <3> QED BY <1>0, <1>2, <2>2, <3>1, BatchKept DEF SameState
  <2> QED BY <1>1, <2>1, <2>2
<1> QED BY <1>3, <1>4, <1>5, <1>6 DEF Read

LEMMA WriteBatch ==
  ASSUME HInv, NEW s \in Sessions, Write(s)
  PROVE  BatchIn(s)'
<1> DEFINE c == call[s]
           d == call'[s]
<1>0. /\ c \in CallType /\ HasReadIn(s) /\ PathOf(s) /\ LInv /\ BatchIn(s)
      /\ IsFiniteSet(c.done) /\ Cardinality(c.done) \in Nat /\ MaxBatch \in Nat \ {0}
  BY FS_CardinalityType, ConstantsAssumption DEF HInv, IInv, LInv, TypeOK, Reads, BatchIn
<1>1. CASE Demote(s)
  <2>1. \A q \in DOMAIN View(s) : q \in DOMAIN View(s)' /\ SameState(View(s)'[q], View(s)[q])
    BY <1>0, <1>1, DemoteWrites, ViewAfterWrite
  <2>2. DOMAIN mine'[s] = DOMAIN mine[s] \cup {c.cur} /\ revs' = revs /\ c.cur \in DOMAIN View(s)
    BY <1>0, <1>1 DEF HasReadIn, PathOf, Demote, At, Put, LInv, TypeOK
  <2>3. DOMAIN mine'[s] \ DOMAIN revs' \subseteq DOMAIN mine[s] \ DOMAIN revs
    BY <2>2 DEF View, Over
  <2>4. /\ d.verb = c.verb /\ d.cur = c.cur /\ d.todo = c.todo /\ d.done = c.done /\ d.pc = "insert"
        /\ c.pc = "demote"
    BY <1>0, <1>1 DEF Demote, Goto, At, LInv, TypeOK, CallType
  <2> QED BY <1>0, <2>1, <2>3, <2>4, BatchKept
<1>2. CASE Insert(s)
  <2>1. CASE Drops(s)
    BY <1>0, <2>1, DroppedBatch DEF Drops, LInv, TypeOK
  <2>2. CASE ~Drops(s)
    <3> DEFINE n == NewRev
    <3>1. Writes(s, n, NewRow(s)) /\ call' = [call EXCEPT ![s].done = @ \cup {n},
                                                ![s].pc = IF c.verb = "decide" THEN "retire" ELSE "audit"]
      BY <1>0, <1>2, <2>2, InsertWrites
    <3> HIDE DEF n
    <3>2. /\ d.done = c.done \cup {n} /\ d.verb = c.verb /\ d.todo = c.todo
          /\ d.pc = (IF c.verb = "decide" THEN "retire" ELSE "audit") /\ c.pc = "insert"
      BY <1>0, <1>2, <3>1 DEF Insert, At, LInv, TypeOK, CallType
    <3>3. DOMAIN mine'[s] = DOMAIN mine[s] \cup {n} /\ revs' = revs
      BY <1>0, <3>1 DEF Writes, Put, LInv, TypeOK
    <3>4. IsFiniteSet(d.done) /\ Cardinality(d.done) \in Nat /\ Cardinality(d.done) <= Cardinality(c.done) + 1
      <4>1. /\ IsFiniteSet(c.done \cup {n}) /\ Cardinality(c.done \cup {n}) \in Nat
            /\ Cardinality(c.done \cup {n}) <= Cardinality(c.done) + 1
        BY <1>0, OneMore
      <4> QED BY <3>2, <4>1
    <3>5. DOMAIN mine'[s] \ DOMAIN revs' \subseteq d.done
      BY <1>0, <3>2, <3>3 DEF BatchIn
    <3>6. CASE c.verb = "decide"
      <4>1. Cardinality(c.done) + Len(c.todo) <= MaxBatch /\ Head(c.todo).action = "approve" /\ Len(c.todo) \in Nat
        BY <1>0, <3>2, <3>6 DEF BatchIn, CallType
      <4>2. Cardinality(d.done) + Len(d.todo) <= MaxBatch + 1
        BY <1>0, <3>2, <3>4, <4>1
      <4> QED BY <3>2, <3>4, <3>5, <3>6, <4>1, <4>2 DEF BatchIn
    <3>7. CASE c.verb # "decide"
      <4>1. c.done = {}
        BY <1>0, <3>2, <3>7 DEF BatchIn
      <4>2. Cardinality(d.done) <= MaxBatch
        BY <1>0, <3>4, <4>1, FS_EmptySet
      <4> QED BY <3>2, <3>4, <3>5, <3>7, <4>2 DEF BatchIn
    <3> QED BY <3>6, <3>7
  <2> QED BY <2>1, <2>2
<1>3. CASE Retire(s)
  <2> DEFINE h == Head(c.todo)
  <2>1. c.pc = "retire" /\ c.verb = "decide" /\ c.todo \in Seq(Decision) /\ c.todo # <<>>
    BY <1>0, <1>3 DEF Retire, At, PathOf, CallType
  <2>2. /\ d.todo = Tail(c.todo) /\ d.verb = c.verb
        /\ d.done = (IF h.action = "reject" THEN c.done \cup {h.prop} ELSE c.done)
        /\ d.pc = (IF Tail(c.todo) = <<>> THEN "audit" ELSE "next")
    BY <1>0, <1>3 DEF Retire, LInv, TypeOK, CallType
  <2>3. h \in Decision /\ Tail(c.todo) \in Seq(Decision) /\ Len(Tail(c.todo)) = Len(c.todo) - 1 /\ Len(c.todo) \in Nat
    BY <2>1
  <2>4. Cardinality(c.done) + Len(c.todo) <= IF h.action = "approve" THEN MaxBatch + 1 ELSE MaxBatch
    BY <1>0, <2>1 DEF BatchIn
  <2>5. h.prop \in DOMAIN View(s)
    BY <1>0, <2>1, ProposalRow DEF HasReadIn, LInv
  <2>6. DOMAIN mine'[s] \ DOMAIN revs' \subseteq DOMAIN mine[s] \ DOMAIN revs
    <3>1. DOMAIN mine'[s] = DOMAIN mine[s] \cup {h.prop} /\ revs' = revs
      BY <1>0, <1>3 DEF Retire, Put, LInv, TypeOK
    <3> QED BY <2>5, <3>1 DEF View, Over
  <2>7. h.action \in {"approve", "reject"}
    BY <2>3 DEF Decision, Actions
  <2> HIDE DEF h, c, d
  <2>8. IsFiniteSet(d.done) /\ Cardinality(d.done) \in Nat
          /\ Cardinality(d.done) + Len(d.todo) <= MaxBatch
    <3>1. CASE h.action = "reject"
      <4>1. /\ IsFiniteSet(c.done \cup {h.prop}) /\ Cardinality(c.done \cup {h.prop}) \in Nat
            /\ Cardinality(c.done \cup {h.prop}) <= Cardinality(c.done) + 1
        BY <1>0, OneMore
      <4>2. Cardinality(c.done) + Len(c.todo) <= MaxBatch
        BY <2>4, <3>1
      <4> QED BY <1>0, <2>2, <2>3, <3>1, <4>1, <4>2
    <3>2. CASE h.action = "approve"
      <4>1. Cardinality(c.done) + Len(c.todo) <= MaxBatch + 1
        BY <2>4, <3>2
      <4> QED BY <1>0, <2>2, <2>3, <3>2, <4>1
    <3> QED BY <2>7, <3>1, <3>2
  <2>9. Len(d.todo) \in Nat
    BY <2>2, <2>3
  <2>10. DOMAIN mine'[s] \ DOMAIN revs' \subseteq d.done
    BY <1>0, <2>2, <2>6 DEF BatchIn, c
  <2>11. Cardinality(d.done) <= MaxBatch /\ d.pc \in {"audit", "next"} /\ d.verb = "decide"
    BY <1>0, <2>1, <2>2, <2>8, <2>9
  <2>12. call'[s] = d
    BY DEF d
  <2> QED BY <2>8, <2>10, <2>11, <2>12 DEF BatchIn
<1> QED BY <1>1, <1>2, <1>3 DEF Write

LEMMA FinishBatch ==
  ASSUME HInv, NEW s \in Sessions, Finish(s) \/ Lost(s)
  PROVE  BatchIn(s)'
<1>0. call[s] \in CallType /\ LInv /\ BatchIn(s)
  BY DEF HInv, IInv, LInv, TypeOK
<1>1. CASE Audit(s)
  <2>1. /\ call'[s].pc = "commit" /\ call[s].pc = "audit" /\ UNCHANGED <<revs, mine>>
        /\ call'[s].done = call[s].done
    BY <1>0, <1>1 DEF Audit, Goto, At, LInv, TypeOK, CallType
  <2> QED BY <1>0, <2>1 DEF BatchIn
<1>2. CASE ~Audit(s)
  BY <1>0, <1>2, DroppedBatch DEF Finish, Lost, AuditFails, Commit, DeadlockVictim, Refuse, LInv, TypeOK
<1> QED BY <1>1, <1>2

LEMMA HInvInit == Init => HInv
<1> SUFFICES ASSUME Init PROVE HInv
  OBVIOUS
<1>1. IInv
  BY LInvInit, OrderedInit DEF IInv
<1>2. revs = NoRows /\ \A s \in Sessions : mine[s] = NoRows /\ call[s] = Idle
  BY DEF Init
<1>3. \A d \in Docs : ApprovedOf(revs, d) = {}
  BY <1>2, EmptyTables DEF ApprovedOf
<1>4. \A s \in Sessions : View(s) = revs
  BY <1>2, NothingWritten, EmptyTables DEF View
<1>5. \A d \in Docs : NumberedIn(revs, d) /\ \A s \in Sessions : NumberedIn(View(s), d)
  <2>1. \A d \in Docs : NumberedIn(revs, d)
    BY <1>3, FS_EmptySet DEF NumberedIn
  <2> QED BY <1>4, <2>1
<1>6. CreatedIn(revs) /\ \A s \in Sessions : CreatedIn(mine[s])
  BY <1>2, EmptyTables DEF CreatedIn
<1>7. ASSUME NEW s \in Sessions PROVE BatchIn(s)
  <2>1. Idle.pc = "idle" /\ Idle.done = {}
    BY DEF Idle
  <2> QED BY <1>2, <2>1, EmptyTables, FS_EmptySet DEF BatchIn
<1> QED BY <1>1, <1>5, <1>6, <1>7 DEF HInv

LEMMA HInvStep == HInv /\ [Next]_vars => HInv'
<1> SUFFICES ASSUME HInv, [Next]_vars PROVE HInv'
  OBVIOUS
<1>0. IInv /\ IInv' /\ LInv
  BY LInvStep, OrderedStep DEF HInv, IInv
<1>1. CASE UNCHANGED vars \/ Exhausted
  <2>1. revs' = revs /\ mine' = mine /\ call' = call
    BY <1>1 DEF vars, Exhausted
  <2>2. \A s \in Sessions : View(s)' = View(s)
    BY <2>1 DEF View, Over
  <2>3. \A d \in Docs : NumberedIn(revs, d)' /\ \A s \in Sessions : NumberedIn(View(s), d)'
    <3>1. \A d \in Docs : NumberedIn(revs, d)'
      BY <2>1 DEF HInv, NumberedIn, ApprovedOf
    <3>2. ASSUME NEW d \in Docs, NEW s \in Sessions PROVE NumberedIn(View(s), d)'
      <4>1. NumberedIn(View(s), d) /\ View(s)' = View(s)
        BY <2>2 DEF HInv
      <4> HIDE DEF View
      <4> QED BY <4>1 DEF NumberedIn, ApprovedOf
    <3> QED BY <3>1, <3>2
  <2>4. CreatedIn(revs)' /\ \A s \in Sessions : CreatedIn(mine[s])'
    BY <2>1 DEF HInv, CreatedIn
  <2>5. \A s \in Sessions : BatchIn(s)'
    BY <1>0, <2>1, <2>2, BatchKept DEF HInv, SameState
  <2> QED BY <1>0, <2>3, <2>4, <2>5 DEF HInv
<1>2. ASSUME NEW s \in Sessions, Begin(s) \/ Read(s) \/ Write(s) \/ Finish(s) \/ Lost(s) PROVE HInv'
  <2>1. ASSUME NEW t \in Sessions, NEW d \in Docs PROVE NumberedIn(View(t)', d)
    <3>1. NumberedIn(View(t), d) /\ NumberedIn(View(s), d) /\ NumberedIn(revs, d)
      BY DEF HInv
    <3>2. CASE SameHistory(View(t), View(t)', d)
      BY <3>1, <3>2, NumberedSame
    <3>3. CASE SameHistory(View(s), View(t)', d)
      BY <3>1, <3>3, NumberedSame
    <3>4. CASE SameHistory(revs, View(t)', d)
      BY <3>1, <3>4, NumberedSame
    <3>5. CASE t = s /\ Insert(s) /\ Extends(s, d)
      BY <1>0, <3>5, NumberedExtends
    <3> QED BY <1>0, <1>2, <3>2, <3>3, <3>4, <3>5, ViewSteps
  <2>2. ASSUME NEW d \in Docs PROVE NumberedIn(revs', d)
    <3>1. revs' = revs \/ revs' = View(s)
      BY <1>2, QuietOrOver DEF Write, Demote, Insert, Retire, Refuse, Drops, Commit
    <3> QED BY <3>1 DEF HInv
  <2>3. \A d \in Docs : NumberedIn(revs, d)' /\ \A t \in Sessions : NumberedIn(View(t), d)'
    BY <2>1, <2>2 DEF NumberedIn, ApprovedOf
  <2>4. \A t \in Sessions : BatchIn(t)'
    BY <1>0, <1>2, OthersBatch, BeginBatch, ReadBatch, WriteBatch, FinishBatch DEF HInv
  <2> QED BY <1>0, <1>2, <2>3, <2>4, CreatedStep DEF HInv
<1> QED BY <1>1, <1>2 DEF Next

---------------------------------------------------------------------------
(* The refinement: each commit extends the histories of the documents *)

\* The approved revision of d that is numbered n.
Nth(t, d, n) == CHOOSE r \in ApprovedOf(t, d) : t[r].seq = n

Held(x) == [op |-> x.op, fields |-> x.fields, data |-> x.data]

StatesOf(t, d) == [n \in 1 .. Cardinality(ApprovedOf(t, d)) |-> Held(t[Nth(t, d, n)])]

LEMMA NthIs ==
  ASSUME NEW t, NEW d, NumberedIn(t, d), ContiguousIn(t, d), NEW n \in 1 .. Cardinality(ApprovedOf(t, d))
  PROVE  /\ Nth(t, d, n) \in ApprovedOf(t, d) /\ t[Nth(t, d, n)].seq = n
         /\ \A r \in ApprovedOf(t, d) : t[r].seq = n => r = Nth(t, d, n)
<1>1. \E r \in ApprovedOf(t, d) : t[r].seq = n
  BY DEF NumberedIn
<1>2. Nth(t, d, n) \in ApprovedOf(t, d) /\ t[Nth(t, d, n)].seq = n
  BY <1>1 DEF Nth
<1> QED BY <1>2 DEF ContiguousIn

LEMMA PrefixOf ==
  ASSUME NEW m \in Nat, NEW n \in Nat, m <= n, NEW h, NEW g,
         h = [i \in 1 .. m |-> h[i]], g = [i \in 1 .. n |-> g[i]], \A i \in 1 .. m : h[i] = g[i]
  PROVE  Len(h) = m /\ Len(g) = n /\ History!IsPrefix(h, g)
<1> DEFINE S == {h[i] : i \in 1 .. m} \cup {g[i] : i \in 1 .. n}
<1>1. h \in [1 .. m -> S] /\ g \in [1 .. n -> S]
  OBVIOUS
<1> HIDE DEF S
<1>2. h \in Seq(S) /\ g \in Seq(S) /\ Len(h) = m /\ Len(g) = n
  BY <1>1
<1>3. SubSeq(h, 1, m) = [i \in 1 .. m |-> h[i]] /\ SubSeq(g, 1, m) = [i \in 1 .. m |-> g[i]]
  BY <1>2
<1>4. SubSeq(h, 1, m) = SubSeq(g, 1, m)
  BY <1>3
<1> QED BY <1>2, <1>4 DEF History!IsPrefix

\* A table that keeps the approved revisions of another, and adds at most a batch, holds
\* histories that have grown.
LEMMA GrowsLemma ==
  ASSUME NEW t, NEW u, NEW d, NumberedIn(t, d), NumberedIn(u, d), ContiguousIn(t, d), WellKept(u, d),
         CreatedIn(u), IsTable(u), ApprovedOf(t, d) \subseteq ApprovedOf(u, d),
         \A r \in ApprovedOf(t, d) : SameState(t[r], u[r]),
         NEW D, IsFiniteSet(D), Cardinality(D) <= MaxBatch, ApprovedOf(u, d) \ ApprovedOf(t, d) \subseteq D
  PROVE  History!Grows(StatesOf(t, d), StatesOf(u, d))
<1> DEFINE A == ApprovedOf(t, d)
           B == ApprovedOf(u, d)
           m == Cardinality(A)
           n == Cardinality(B)
           h == StatesOf(t, d)
           g == StatesOf(u, d)
<1>1. IsFiniteSet(A) /\ IsFiniteSet(B) /\ m \in Nat /\ n \in Nat
  BY FS_CardinalityType DEF NumberedIn
<1>2. m <= n
  BY <1>1, FS_Subset
<1>3. n <= m + MaxBatch
  <2>1. IsFiniteSet(B \ A) /\ Cardinality(B \ A) <= Cardinality(D)
    BY FS_Subset
  <2>2. Cardinality(A \cup (B \ A)) = m + Cardinality(B \ A) - Cardinality(A \cap (B \ A))
    BY <1>1, <2>1, FS_Union
  <2>3. A \cup (B \ A) = B /\ A \cap (B \ A) = {}
    OBVIOUS
  <2>4. Cardinality({}) = 0
    BY FS_EmptySet
  <2>5. Cardinality(B \ A) \in Nat /\ Cardinality(D) \in Nat /\ MaxBatch \in Nat
    BY <2>1, FS_CardinalityType, ConstantsAssumption
  <2>6. n = m + Cardinality(B \ A)
    <3>1. Cardinality(B) = Cardinality(A) + Cardinality(B \ A) - 0
      BY <2>2, <2>3, <2>4
    <3> QED BY <1>1, <2>5, <3>1
  <2> HIDE DEF m, n, A, B
  <2> QED BY <1>1, <2>1, <2>5, <2>6
<1>4. \A i \in 1 .. m : h[i] = g[i]
  <2> SUFFICES ASSUME NEW i \in 1 .. m PROVE h[i] = g[i]
    OBVIOUS
  <2>1. Nth(t, d, i) \in A /\ t[Nth(t, d, i)].seq = i
    BY NthIs
  <2>2. i \in 1 .. n
    BY <1>1, <1>2
  <2>3. \A r \in B : u[r].seq = i => r = Nth(u, d, i)
    BY <2>2, NthIs DEF WellKept
  <2>4. Nth(u, d, i) = Nth(t, d, i) /\ SameState(t[Nth(t, d, i)], u[Nth(t, d, i)])
    BY <2>1, <2>3 DEF SameState
  <2>5. Held(t[Nth(t, d, i)]) = Held(u[Nth(u, d, i)])
    BY <2>4 DEF Held, SameState
  <2> QED BY <2>2, <2>5 DEF StatesOf
<1>5. h = [i \in 1 .. m |-> h[i]] /\ g = [i \in 1 .. n |-> g[i]]
  BY DEF StatesOf
<1>6. Len(h) = m /\ Len(g) = n /\ History!IsPrefix(h, g)
  <2> HIDE DEF h, g, m, n
  <2> QED BY <1>1, <1>2, <1>4, <1>5, PrefixOf
<1>7. ASSUME NEW i \in 1 .. n PROVE History!Continues(g, i)
  <2> DEFINE r == Nth(u, d, i)
  <2>1. r \in B /\ u[r].seq = i /\ g[i] = Held(u[r])
    BY NthIs DEF WellKept, StatesOf
  <2>2. u[r] \in Row /\ DOMAIN u[r].data = Fields /\ r \in DOMAIN u /\ u[r].status = "approved"
    BY <2>1 DEF IsTable, Row, Document, ApprovedOf
  <2>3. g[i].op = u[r].op /\ g[i].fields = u[r].fields /\ g[i].data = u[r].data
    BY <2>1 DEF Held
  <2>4. g[i].op = "create" <=> i = 1
    BY <2>1, <2>2, <2>3 DEF CreatedIn
  <2>5. ASSUME NEW f \in Fields \ u[r].fields
        PROVE  u[r].data[f] = IF i = 1 THEN Null ELSE g[i - 1].data[f]
    <3>1. CASE i = 1
      BY <2>2, <2>3, <2>4, <3>1 DEF CreatedIn
    <3>2. CASE i # 1
      <4>1. i - 1 \in 1 .. n
        BY <1>1, <3>2
      <4> DEFINE q == Nth(u, d, i - 1)
      <4>2. q \in B /\ u[q].seq = i - 1 /\ g[i - 1] = Held(u[q])
        BY <4>1, NthIs DEF WellKept, StatesOf
      <4>3. u[r].seq = u[q].seq + 1
        BY <1>1, <2>1, <4>2
      <4>4. u[r].data[f] = u[q].data[f]
        BY <2>1, <4>2, <4>3 DEF WellKept, CarriedForwardIn
      <4> QED BY <3>2, <4>2, <4>4 DEF Held
    <3> QED BY <3>1, <3>2
  <2> HIDE DEF g, r
  <2> QED BY <2>2, <2>3, <2>4, <2>5 DEF History!Continues
<1> HIDE DEF m, n, h, g
<1>8. Len(g) <= Len(h) + MaxBatch
  BY <1>3, <1>6
<1>9. \A i \in Len(h) + 1 .. Len(g) : History!Continues(g, i)
  BY <1>1, <1>6, <1>7
<1> QED BY <1>6, <1>8, <1>9 DEF History!Grows, h, g
LEMMA CommitGrows ==
  ASSUME HInv, HInv', NEW s \in Sessions, Commit(s), NEW d \in Docs
  PROVE  History!Grows(StatesOf(revs, d), StatesOf(revs', d))
<1> DEFINE D == call[s].done
<1>1. revs' = View(s) /\ call[s].pc = "commit"
  BY DEF Commit, At
<1>2. IsFiniteSet(D) /\ Cardinality(D) <= MaxBatch /\ DOMAIN mine[s] \ DOMAIN revs \subseteq D
  BY <1>1 DEF HInv, BatchIn
<1>3. \A r \in DOMAIN revs : r \in DOMAIN View(s) /\ SameState(revs[r], View(s)[r])
  BY DEF HInv, IInv, LInv, Versions, SameState, View, Over
<1>4. \A r \in DOMAIN View(s) \ DOMAIN revs : r \in D
  BY <1>2 DEF View, Over
<1> HIDE DEF D
<1>5. /\ ApprovedOf(revs, d) \subseteq ApprovedOf(revs', d)
      /\ \A r \in ApprovedOf(revs, d) : SameState(revs[r], revs'[r])
      /\ ApprovedOf(revs', d) \ ApprovedOf(revs, d) \subseteq D
  BY <1>1, <1>3, <1>4 DEF ApprovedOf, SameState
<1>6. NumberedIn(revs, d) /\ WellKept(revs, d)
  BY DEF HInv, IInv, Ordered
<1>7. NumberedIn(revs', d) /\ WellKept(revs', d) /\ CreatedIn(revs') /\ IsTable(revs')
  <2>1. NumberedIn(revs, d)' /\ WellKept(revs, d)' /\ CreatedIn(revs)' /\ IsTable(revs)'
    BY DEF HInv, IInv, Ordered, LInv, TypeOK
  <2>2. NumberedIn(revs', d)
    BY <2>1 DEF NumberedIn, ApprovedOf
  <2>3. WellKept(revs', d)
    BY <2>1 DEF WellKept, OneCurrentIn, ContiguousIn, CarriedForwardIn, ApprovedOf, CurrentOf
  <2>4. CreatedIn(revs') /\ IsTable(revs')
    BY <2>1 DEF CreatedIn, IsTable
  <2> QED BY <2>2, <2>3, <2>4
<1> QED BY <1>2, <1>5, <1>6, <1>7, GrowsLemma DEF WellKept

LEMMA HistoryStep == HInv /\ HInv' /\ [Next]_vars => [History!Next]_[d \in Docs |-> States(d)]
<1> SUFFICES ASSUME HInv, HInv', [Next]_vars
             PROVE  \/ History!Next
                    \/ [d \in Docs |-> States(d)]' = [d \in Docs |-> States(d)]
  OBVIOUS
<1>1. CASE revs' = revs
  <2>1. \A d \in Docs : States(d)' = States(d)
    BY <1>1 DEF States, ApprovedOf
  <2> QED BY <2>1
<1>2. CASE \E s \in Sessions : Commit(s)
  <2>1. PICK s \in Sessions : Commit(s)
    BY <1>2
  <2>2. ASSUME NEW d \in Docs PROVE History!Grows(States(d), States(d)')
    <3>1. States(d) = StatesOf(revs, d) /\ States(d)' = StatesOf(revs', d)
      BY DEF States, StatesOf, Nth, Held, ApprovedOf
    <3> QED BY <2>1, <3>1, CommitGrows
  <2>3. \A d \in Docs : [e \in Docs |-> States(e)][d] = States(d) /\ [e \in Docs |-> States(e)]'[d] = States(d)'
    OBVIOUS
  <2>4. DOMAIN [d \in Docs |-> States(d)]' = Docs
    OBVIOUS
  <2> HIDE DEF States
  <2> QED BY <2>2, <2>3, <2>4 DEF History!Next
<1>3. revs' = revs \/ \E s \in Sessions : Commit(s)
  <2>1. CASE UNCHANGED vars \/ Exhausted
    BY <2>1 DEF vars, Exhausted
  <2>2. ASSUME NEW s \in Sessions, Begin(s) \/ Read(s) \/ Write(s) \/ Finish(s) \/ Lost(s)
        PROVE  revs' = revs \/ Commit(s)
    BY <2>2, QuietOrOver DEF Write, Demote, Insert, Retire, Refuse, Drops
  <2> QED BY <2>1, <2>2 DEF Next
<1> QED BY <1>1, <1>2, <1>3

LEMMA HistoryInit == Init => History!Init
<1> SUFFICES ASSUME Init PROVE History!Init
  OBVIOUS
<1>1. revs = NoRows
  BY DEF Init
<1>2. ASSUME NEW d \in Docs PROVE States(d) = <<>>
  <2>1. ApprovedOf(revs, d) = {}
    BY <1>1, EmptyTables DEF ApprovedOf
  <2>2. Cardinality(ApprovedOf(revs, d)) = 0
    BY <2>1, FS_EmptySet
  <2>3. 1 .. 0 = {}
    OBVIOUS
  <2>4. DOMAIN States(d) = {}
    BY <2>2, <2>3 DEF States
  <2> QED BY <2>2, <2>3 DEF States
<1> QED BY <1>2 DEF History!Init

\* The table is an append-only history of whole documents (IsDocumentHistory): whatever the
\* interleaving of writers, deciders and reverts, a commit only appends states to the
\* documents, at most a batch of them, each one changing just the fields it names.
THEOREM ImplementsHistory == Spec => IsDocumentHistory
<1>1. Init => HInv
  BY HInvInit
<1>2. HInv /\ [Next]_vars => HInv'
  BY HInvStep
<1>3. Init => History!Init
  BY HistoryInit
<1>4. HInv /\ HInv' /\ [Next]_vars => [History!Next]_[d \in Docs |-> States(d)]
  BY HistoryStep
<1> QED BY <1>1, <1>2, <1>3, <1>4, PTL DEF Spec, IsDocumentHistory, History!Spec

---------------------------------------------------------------------------
(* What a document shows of another collection *)

Content(r) == [value |-> r.value, ref |-> r.ref]
Live(r) == r.current /\ r.op # "delete"

RowType ==
  [space : Spaces, id : Ids, value : Nat, ref : Ids \cup {None}, status : {"approved", "pending", "rejected", "superseded"},
   op : {"create", "update", "delete"}, current : BOOLEAN, seq : 1 .. MaxWrites]

\* A row is of a document, with a content that it may have, and only what is approved is current.
RowIs(c, r) ==
  /\ <<c, r.space, r.id>> \in Documents /\ Content(r) \in ContentsOf[<<c, r.space, r.id>>]
  /\ r.current => r.status = "approved"

\* The current row of a document is one, and its content is what is approved.
CurrentIs(k) ==
  /\ \A q, r \in RowsOf(k) : q.current /\ r.current => q = r
  /\ \A r \in RowsOf(k) : Live(r) => documents[k] = Content(r)
  /\ documents[k] # None => \E r \in RowsOf(k) : Live(r)

ComposedInv ==
  /\ ComposedTypeOK
  /\ documents = [k \in Documents |-> documents[k]] /\ asked = [m \in Managers |-> asked[m]]
  /\ \A c \in Ends : IsFiniteSet(revisions[c]) /\ Cardinality(revisions[c]) <= writes
  /\ writes \in 0 .. MaxWrites
  /\ \A c \in Ends : \A r \in revisions[c] : RowIs(c, r)
  /\ \A k \in Documents : CurrentIs(k)
  /\ ListsAreRecorded

LEMMA DocumentKey ==
  ASSUME NEW k \in Documents
  PROVE  k[1] \in Ends /\ k[2] \in Spaces /\ k[3] \in Ids /\ k = <<k[1], k[2], k[3]>>
  BY ComposedAssumption

LEMMA ComposedInvInit == ComposedInit => ComposedInv
  <1> SUFFICES ASSUME ComposedInit PROVE ComposedInv
    OBVIOUS
  <1>1. \A c \in Ends : revisions[c] = {}
    BY DEF ComposedInit
  <1>2. \A k \in Documents : RowsOf(k) = {}
    BY <1>1, DocumentKey DEF RowsOf
  <1>3. ComposedTypeOK
    BY DEF ComposedInit, ComposedTypeOK
  <1>4. \A c \in Ends : IsFiniteSet(revisions[c]) /\ Cardinality(revisions[c]) = 0
    BY <1>1, FS_EmptySet
  <1>5. \A k \in Documents : CurrentIs(k)
    BY <1>2 DEF CurrentIs, ComposedInit
  <1>6. ListsAreRecorded
    BY DEF ListsAreRecorded, ComposedInit
  <1> QED BY <1>1, <1>3, <1>4, <1>5, <1>6, ComposedAssumption DEF ComposedInv, ComposedInit

\* An image of a finite set has no more members.
LEMMA ImageIsFinite ==
  ASSUME NEW S, IsFiniteSet(S), NEW f, DOMAIN f = S
  PROVE  LET T == {f[x] : x \in S} IN IsFiniteSet(T) /\ Cardinality(T) <= Cardinality(S)
  <1> DEFINE T == {f[x] : x \in S}
             g == [x \in S |-> f[x]]
  <1>1. g \in Surjection(S, T)
    BY DEF Surjection
  <1> HIDE DEF T, g
  <1>2. IsFiniteSet(T) /\ Cardinality(T) <= Cardinality(S)
    BY <1>1, FS_Surjection
  <1> QED BY <1>2 DEF T

Past(r, st) == [r EXCEPT !.current = FALSE, !.status = st]

\* What a version of a row that gives way has of it.
LEMMA GivesWay ==
  ASSUME NEW c \in Ends, NEW r \in RowType, RowIs(c, r), NEW st \in {"approved", "pending", "rejected", "superseded"}
  PROVE  LET x == Past(r, st) IN x \in RowType /\ RowIs(c, x) /\ x.space = r.space /\ x.id = r.id /\ ~x.current
  <1> DEFINE x == Past(r, st)
  <1>1. x \in RowType /\ x.space = r.space /\ x.id = r.id /\ ~x.current /\ x.value = r.value /\ x.ref = r.ref
    BY DEF RowType, Past
  <1> HIDE DEF x
  <1>2. RowIs(c, x)
    BY <1>1 DEF RowIs, Content
  <1> QED BY <1>1, <1>2 DEF x

LEMMA RowFacts ==
  ASSUME ComposedInv
  PROVE  /\ revisions \in [Ends -> SUBSET RowType] /\ writes \in Nat /\ MaxWrites \in Nat
         /\ \A k \in Documents : /\ IsFiniteSet(RowsOf(k)) /\ Cardinality(RowsOf(k)) \in 0 .. writes
                                 /\ \A r \in RowsOf(k) : r \in RowType /\ RowIs(k[1], r) /\ <<k[1], r.space, r.id>> = k
  <1>1. revisions \in [Ends -> SUBSET RowType] /\ writes \in Nat /\ MaxWrites \in Nat
    BY ComposedAssumption DEF ComposedInv, ComposedTypeOK, RowType
  <1>2. ASSUME NEW k \in Documents
        PROVE  /\ IsFiniteSet(RowsOf(k)) /\ Cardinality(RowsOf(k)) \in 0 .. writes
               /\ \A r \in RowsOf(k) : r \in RowType /\ RowIs(k[1], r) /\ <<k[1], r.space, r.id>> = k
    <2>1. k[1] \in Ends /\ k = <<k[1], k[2], k[3]>>
      BY DocumentKey
    <2>2. RowsOf(k) \subseteq revisions[k[1]]
      BY DEF RowsOf
    <2>3. IsFiniteSet(revisions[k[1]]) /\ Cardinality(revisions[k[1]]) <= writes
      BY <2>1 DEF ComposedInv
    <2>4. IsFiniteSet(RowsOf(k)) /\ Cardinality(RowsOf(k)) <= Cardinality(revisions[k[1]])
      BY <2>2, <2>3, FS_Subset
    <2>5. Cardinality(RowsOf(k)) \in Nat /\ Cardinality(revisions[k[1]]) \in Nat
      BY <2>3, <2>4, FS_CardinalityType
    <2>6. Cardinality(RowsOf(k)) \in 0 .. writes
      BY <1>1, <2>3, <2>4, <2>5
    <2>7. \A r \in RowsOf(k) : r \in RowType /\ RowIs(k[1], r) /\ <<k[1], r.space, r.id>> = k
      BY <1>1, <2>1 DEF ComposedInv, RowsOf
    <2> QED BY <2>4, <2>6, <2>7
  <1> QED BY <1>1, <1>2

\* The rows of a document give way, and those of others stay.
GaveWay(k, rows) ==
  /\ IsFiniteSet(rows) /\ Cardinality(rows) <= Cardinality(revisions[k[1]])
  /\ \A r \in revisions[k[1]] : <<k[1], r.space, r.id>> # k => r \in rows
  /\ \A x \in rows :
       \/ x \in revisions[k[1]] /\ <<k[1], x.space, x.id>> # k
       \/ \E r \in RowsOf(k), st \in {"approved", "pending", "rejected", "superseded"} : x = Past(r, st)

Appends(k, content, op, rows) ==
  /\ revisions' = Appended(rows, k, RevisionOf(k, content, "approved", op, TRUE))
  /\ documents' = [documents EXCEPT ![k] = IF op = "delete" THEN None ELSE content]
  /\ UNCHANGED <<restricted, aclVars>>

\* Then one of its own is current, with what is approved now.
LEMMA RowAppended ==
  ASSUME ComposedInv, OneMoreWrite, NEW k \in Documents, NEW content \in ContentsOf[k], NEW op \in {"create", "update", "delete"},
         NEW rows, GaveWay(k, rows), Appends(k, content, op, rows)
  PROVE  ComposedInv'
  <1> DEFINE c == k[1]
             row == RevisionOf(k, content, "approved", op, TRUE)
             given == IF op = "delete" THEN None ELSE content
  <1>1. c \in Ends /\ k[2] \in Spaces /\ k[3] \in Ids /\ k = <<c, k[2], k[3]>>
    BY DocumentKey
  <1>2. /\ revisions \in [Ends -> SUBSET RowType] /\ writes \in Nat /\ MaxWrites \in Nat
        /\ Cardinality(RowsOf(k)) \in 0 .. writes /\ \A r \in RowsOf(k) : r \in RowType /\ RowIs(c, r) /\ <<c, r.space, r.id>> = k
    BY RowFacts
  <1>3. writes < MaxWrites /\ writes' = writes + 1
    BY DEF OneMoreWrite
  <1>4. content \in [value : Nat, ref : Ids \cup {None}] /\ content = [value |-> content.value, ref |-> content.ref]
    BY ComposedAssumption
  <1>5. row \in RowType /\ row.space = k[2] /\ row.id = k[3] /\ row.current /\ row.status = "approved" /\ row.op = op
        /\ Content(row) = content
    <2> DEFINE seq == Cardinality(RowsOf(k)) + 1
    <2>1. seq \in 1 .. MaxWrites
      BY <1>2, <1>3
    <2>2. row = [space |-> k[2], id |-> k[3], value |-> content.value, ref |-> content.ref, status |-> "approved",
                 op |-> op, current |-> TRUE, seq |-> seq]
      BY DEF RevisionOf
    <2> HIDE DEF seq, row
    <2> QED BY <1>1, <1>4, <2>1, <2>2 DEF RowType, Content
  <1>6. RowIs(c, row)
    BY <1>1, <1>5 DEF RowIs
  <1> HIDE DEF row
  <1>7. \A x \in rows : /\ x \in RowType /\ RowIs(c, x)
                        /\ \/ x \in revisions[c] /\ <<c, x.space, x.id>> # k
                           \/ <<c, x.space, x.id>> = k /\ ~x.current
    <2> TAKE x \in rows
    <2>1. CASE x \in revisions[c] /\ <<c, x.space, x.id>> # k
      BY <1>1, <1>2, <2>1 DEF ComposedInv
    <2>2. CASE \E r \in RowsOf(k), st \in {"approved", "pending", "rejected", "superseded"} : x = Past(r, st)
      <3>1. PICK r \in RowsOf(k), st \in {"approved", "pending", "rejected", "superseded"} : x = Past(r, st)
        BY <2>2
      <3>2. r \in RowType /\ RowIs(c, r) /\ <<c, r.space, r.id>> = k
        BY <1>2
      <3>3. x \in RowType /\ RowIs(c, x) /\ x.space = r.space /\ x.id = r.id /\ ~x.current
        <4> HIDE DEF c
        <4> QED BY <1>1, <3>1, <3>2, GivesWay
      <3> QED BY <3>2, <3>3
    <2> QED BY <2>1, <2>2 DEF GaveWay
  <1>8. revisions' = [revisions EXCEPT ![c] = rows \cup {row}]
    BY DEF Appends, Appended, row
  <1>9. revisions'[c] = rows \cup {row} /\ \A d \in Ends : d # c => revisions'[d] = revisions[d]
    BY <1>1, <1>2, <1>8
  <1>10. revisions' \in [Ends -> SUBSET RowType]
    <2>1. rows \cup {row} \in SUBSET RowType
      BY <1>5, <1>7
    <2> HIDE DEF c
    <2> QED BY <1>1, <1>2, <1>8, <2>1
  <1>11. \A d \in Ends : \A r \in revisions'[d] : RowIs(d, r)
    BY <1>6, <1>7, <1>9 DEF ComposedInv
  <1>12. \A d \in Ends : IsFiniteSet(revisions'[d]) /\ Cardinality(revisions'[d]) <= writes'
    <2>1. \A d \in Ends : IsFiniteSet(revisions[d]) /\ Cardinality(revisions[d]) <= writes /\ Cardinality(revisions[d]) \in Nat
      BY FS_CardinalityType DEF ComposedInv
    <2>2. IsFiniteSet(rows \cup {row}) /\ Cardinality(rows \cup {row}) <= Cardinality(rows) + 1 /\ Cardinality(rows) \in Nat
          /\ Cardinality(rows \cup {row}) \in Nat
      <3>1. IsFiniteSet(rows)
        BY DEF GaveWay
      <3>2. IsFiniteSet(rows \cup {row})
            /\ Cardinality(rows \cup {row}) = IF row \in rows THEN Cardinality(rows) ELSE Cardinality(rows) + 1
        BY <3>1, FS_AddElement
      <3>3. Cardinality(rows) \in Nat /\ Cardinality(rows \cup {row}) \in Nat
        BY <3>1, <3>2, FS_CardinalityType
      <3> QED BY <3>2, <3>3
    <2>3. Cardinality(rows \cup {row}) <= writes'
      <3> DEFINE u == Cardinality(rows \cup {row})
                 v == Cardinality(rows)
                 w == Cardinality(revisions[c])
      <3>1. u <= v + 1 /\ u \in Nat /\ v \in Nat /\ v <= w /\ w \in Nat /\ w <= writes
        BY <1>1, <2>1, <2>2 DEF GaveWay
      <3> HIDE DEF u, v, w
      <3>2. u <= writes + 1
        BY <1>2, <3>1
      <3> QED BY <1>3, <3>2 DEF u
    <2> TAKE d \in Ends
    <2>4. CASE d = c
      BY <1>9, <2>2, <2>3, <2>4
    <2>5. CASE d # c
      <3> DEFINE w == Cardinality(revisions[d])
      <3>1. revisions'[d] = revisions[d] /\ IsFiniteSet(revisions[d]) /\ w <= writes /\ w \in Nat
        BY <1>9, <2>1, <2>5
      <3>2. w <= writes'
        <4> HIDE DEF w
        <4> QED BY <1>2, <1>3, <3>1
      <3> QED BY <3>1, <3>2
    <2> QED BY <2>4, <2>5
  <1>13. \A j \in Documents : j # k => RowsOf(j)' = RowsOf(j)
    <2> TAKE j \in Documents
    <2> SUFFICES ASSUME j # k PROVE RowsOf(j)' = RowsOf(j)
      OBVIOUS
    <2>1. j[1] \in Ends /\ j = <<j[1], j[2], j[3]>>
      BY DocumentKey
    <2>2. CASE j[1] # c
      BY <1>9, <2>1, <2>2 DEF RowsOf
    <2>3. CASE j[1] = c
      <3>1. \A r : r.space = j[2] /\ r.id = j[3] => <<c, r.space, r.id>> # k
        BY <2>1, <2>3
      <3>2. ~(row.space = j[2] /\ row.id = j[3])
        <4>1. <<c, row.space, row.id>> = k
          BY <1>1, <1>5
        <4> QED BY <3>1, <4>1
      <3>3. \A r : r.space = j[2] /\ r.id = j[3] => (r \in revisions'[c] <=> r \in revisions[c])
        BY <1>1, <1>7, <1>9, <3>1, <3>2 DEF GaveWay
      <3> QED BY <2>3, <3>3 DEF RowsOf
    <2> QED BY <2>2, <2>3
  <1>14. \A x \in RowsOf(k)' : x = row \/ ~x.current
    <2>1. \A x : x.space = k[2] /\ x.id = k[3] => <<c, x.space, x.id>> = k
      BY <1>1
    <2> QED BY <1>7, <1>9, <2>1 DEF RowsOf
  <1>15. row \in RowsOf(k)'
    BY <1>5, <1>9 DEF RowsOf
  <1>16. documents' = [j \in Documents |-> documents'[j]] /\ documents'[k] = given
         /\ \A j \in Documents : j # k => documents'[j] = documents[j]
    BY DEF ComposedInv, Appends
  <1>17. CurrentIs(k)'
    <2>1. Live(row) <=> op # "delete"
      BY <1>5 DEF Live
    <2>2. content # None
      BY <1>4, ComposedAssumption
    <2>3. \A r \in RowsOf(k)' : Live(r) => r = row
      BY <1>14 DEF Live
    <2> QED BY <1>5, <1>14, <1>15, <1>16, <2>1, <2>2, <2>3 DEF CurrentIs, Live
  <1>18. \A j \in Documents : CurrentIs(j)'
    <2> TAKE j \in Documents
    <2>1. CASE j = k
      BY <1>17, <2>1
    <2>2. CASE j # k
      <3>1. RowsOf(j)' = RowsOf(j) /\ documents'[j] = documents[j] /\ CurrentIs(j)
        BY <1>13, <1>16, <2>2 DEF ComposedInv
      <3> QED BY <3>1 DEF CurrentIs, Live, Content
    <2> QED BY <2>1, <2>2
  <1>19. ComposedTypeOK'
    BY <1>10, <1>16 DEF ComposedInv, ComposedTypeOK, RowType, aclVars, Appends
  <1>20. ListsAreRecorded'
    BY DEF ComposedInv, ListsAreRecorded, aclVars, Appends
  <1>21. asked' = [m \in Managers |-> asked'[m]] /\ writes' \in 0 .. MaxWrites
    <2>1. asked' = asked
      BY DEF aclVars, Appends
    <2>2. writes' \in 0 .. MaxWrites
      BY <1>2, <1>3
    <2> QED BY <2>1, <2>2 DEF ComposedInv
  <1> QED BY <1>11, <1>12, <1>16, <1>18, <1>19, <1>20, <1>21 DEF ComposedInv

LEMMA OutdatedGivesWay ==
  ASSUME ComposedInv, NEW k \in Documents
  PROVE  GaveWay(k, Outdated(revisions[k[1]], k))
  <1> DEFINE old == revisions[k[1]]
             ofK(r) == r.space = k[2] /\ r.id = k[3]
             f == [r \in old |-> IF ofK(r) THEN [r EXCEPT !.current = FALSE] ELSE r]
             rows == Outdated(old, k)
  <1>1. k[1] \in Ends /\ k = <<k[1], k[2], k[3]>> /\ old \subseteq RowType /\ IsFiniteSet(old)
    BY DocumentKey, RowFacts DEF ComposedInv
  <1>2. rows = {f[r] : r \in old}
    BY DEF Outdated
  <1>3. DOMAIN f = old
    OBVIOUS
  <1>4. IsFiniteSet(rows) /\ Cardinality(rows) <= Cardinality(old)
    <2> HIDE DEF f, rows, old
    <2> QED BY <1>1, <1>2, <1>3, ImageIsFinite
  <1>5. \A r \in old : <<k[1], r.space, r.id>> # k => f[r] = r
    BY <1>1
  <1>6. \A r \in old : <<k[1], r.space, r.id>> = k => r \in RowsOf(k) /\ f[r] = Past(r, r.status)
    <2> TAKE r \in old
    <2> SUFFICES ASSUME <<k[1], r.space, r.id>> = k PROVE r \in RowsOf(k) /\ f[r] = Past(r, r.status)
      OBVIOUS
    <2>1. r \in RowType /\ ofK(r)
      BY <1>1
    <2>2. [r EXCEPT !.current = FALSE] = [r EXCEPT !.current = FALSE, !.status = r.status]
      BY <2>1 DEF RowType
    <2> QED BY <2>1, <2>2 DEF RowsOf, Past
  <1>7. \A r \in old : r.status \in {"approved", "pending", "rejected", "superseded"}
    BY <1>1 DEF RowType
  <1> HIDE DEF f, rows
  <1> QED BY <1>2, <1>4, <1>5, <1>6, <1>7 DEF GaveWay, rows

LEMMA PutKeeps ==
  ASSUME ComposedInv, NEW k \in Documents, NEW content \in ContentsOf[k], PutDocument(k, content)
  PROVE  ComposedInv'
  <1> DEFINE op == IF documents[k] = None THEN "create" ELSE "update"
  <1>1. OneMoreWrite /\ op \in {"create", "update"} /\ Appends(k, content, op, Outdated(revisions[k[1]], k))
    BY DEF PutDocument, Appends
  <1> HIDE DEF op
  <1>2. GaveWay(k, Outdated(revisions[k[1]], k))
    BY OutdatedGivesWay
  <1> QED BY <1>1, <1>2, RowAppended

LEMMA DeleteKeeps ==
  ASSUME ComposedInv, NEW k \in Documents, DeleteDocument(k)
  PROVE  ComposedInv'
  <1>1. documents[k] \in ContentsOf[k] /\ OneMoreWrite
    BY DEF DeleteDocument, ComposedInv, ComposedTypeOK
  <1>2. Appends(k, documents[k], "delete", Outdated(revisions[k[1]], k))
    BY DEF DeleteDocument, Appends
  <1>3. GaveWay(k, Outdated(revisions[k[1]], k))
    BY OutdatedGivesWay
  <1> QED BY <1>1, <1>2, <1>3, RowAppended

LEMMA ApproveKeeps ==
  ASSUME ComposedInv, NEW k \in Documents, NEW p \in RowsOf(k), ApproveChange(k, p)
  PROVE  ComposedInv'
  <1> DEFINE content == [value |-> p.value, ref |-> p.ref]
             out == Outdated(revisions[k[1]], k)
             q == [p EXCEPT !.status = "superseded"]
             rows == (out \ {p}) \cup {q}
  <1>1. OneMoreWrite /\ p.status = "pending" /\ Appends(k, content, "update", rows)
    BY DEF ApproveChange, Appends
  <1>2. p \in RowType /\ RowIs(k[1], p) /\ <<k[1], p.space, p.id>> = k /\ p \in revisions[k[1]]
    BY RowFacts DEF RowsOf
  <1>3. content \in ContentsOf[k] /\ p.current = FALSE
    BY <1>1, <1>2 DEF RowIs, Content, RowType
  <1>4. GaveWay(k, out)
    BY OutdatedGivesWay
  <1>5. q = Past(p, "superseded")
    BY <1>2, <1>3 DEF RowType, Past
  <1>6. p \in out
    <2>1. p.space = k[2] /\ p.id = k[3]
      BY DEF RowsOf
    <2>2. [p EXCEPT !.current = FALSE] = p
      BY <1>2, <1>3 DEF RowType
    <2> QED BY <1>2, <2>1, <2>2 DEF Outdated
  <1> HIDE DEF out, q, content
  <1>7. IsFiniteSet(rows) /\ Cardinality(rows) <= Cardinality(revisions[k[1]])
    <2> DEFINE less == out \ {p}
    <2>1. IsFiniteSet(out) /\ Cardinality(out) <= Cardinality(revisions[k[1]])
      BY <1>4 DEF GaveWay
    <2>2. IsFiniteSet(less) /\ Cardinality(less) = Cardinality(out) - 1
      BY <1>6, <2>1, FS_RemoveElement
    <2> HIDE DEF less
    <2>3. IsFiniteSet(less \cup {q}) /\ Cardinality(less \cup {q}) <= Cardinality(less) + 1
      <3>1. Cardinality(less) \in Nat
        BY <2>2, FS_CardinalityType
      <3>2. Cardinality(less \cup {q}) = IF q \in less THEN Cardinality(less) ELSE Cardinality(less) + 1
        BY <2>2, FS_AddElement
      <3>3. IsFiniteSet(less \cup {q})
        BY <2>2, FS_AddElement
      <3> QED BY <3>1, <3>2, <3>3
    <2>4. Cardinality(out) \in Nat /\ Cardinality(less) \in Nat /\ Cardinality(less \cup {q}) \in Nat
      BY <2>1, <2>2, <2>3, FS_CardinalityType
    <2>5. Cardinality(revisions[k[1]]) \in Nat
      BY DocumentKey, FS_CardinalityType DEF ComposedInv
    <2>6. Cardinality(less \cup {q}) <= Cardinality(revisions[k[1]])
      <3> DEFINE a == Cardinality(less \cup {q})
                 b == Cardinality(less)
                 c == Cardinality(out)
                 d == Cardinality(revisions[k[1]])
      <3>1. a <= b + 1 /\ b = c - 1 /\ c <= d /\ a \in Nat /\ b \in Nat /\ c \in Nat /\ d \in Nat
        BY <2>1, <2>2, <2>3, <2>4, <2>5
      <3> HIDE DEF a, b, c, d
      <3>2. a <= d
        BY <3>1
      <3> QED BY <3>2 DEF a, d
    <2> QED BY <2>3, <2>6 DEF less
  <1>8. GaveWay(k, rows)
    <2>1. \A r \in revisions[k[1]] : <<k[1], r.space, r.id>> # k => r \in rows
      BY <1>2, <1>4 DEF GaveWay
    <2>2. \A x \in rows :
            \/ x \in revisions[k[1]] /\ <<k[1], x.space, x.id>> # k
            \/ \E r \in RowsOf(k), st \in {"approved", "pending", "rejected", "superseded"} : x = Past(r, st)
      BY <1>4, <1>5 DEF GaveWay
    <2> HIDE DEF rows
    <2> QED BY <1>7, <2>1, <2>2 DEF GaveWay
  <1> HIDE DEF rows
  <1> QED BY <1>1, <1>3, <1>8, RowAppended

\* What is not current comes and goes without anybody seeing it.
LEMMA RowsAside ==
  ASSUME ComposedInv, NEW c \in Ends, NEW rows, revisions' = [revisions EXCEPT ![c] = rows],
         IsFiniteSet(rows), Cardinality(rows) <= writes', writes' \in 0 .. MaxWrites, writes <= writes',
         rows \subseteq RowType, \A r \in rows : RowIs(c, r),
         {r \in rows : r.current} = {r \in revisions[c] : r.current},
         UNCHANGED <<restricted, documents, aclVars>>
  PROVE  ComposedInv'
  <1>1. revisions \in [Ends -> SUBSET RowType] /\ writes \in Nat
    BY RowFacts
  <1>2. revisions'[c] = rows /\ \A d \in Ends : d # c => revisions'[d] = revisions[d]
    BY <1>1
  <1>3. revisions' \in [Ends -> SUBSET RowType]
    BY <1>1
  <1>4. \A d \in Ends : \A r \in revisions'[d] : RowIs(d, r)
    BY <1>2 DEF ComposedInv
  <1>5. \A d \in Ends : IsFiniteSet(revisions'[d]) /\ Cardinality(revisions'[d]) <= writes'
    <2> TAKE d \in Ends
    <2>1. CASE d = c
      BY <1>2, <2>1
    <2>2. CASE d # c
      <3> DEFINE w == Cardinality(revisions[d])
      <3>1. revisions'[d] = revisions[d] /\ IsFiniteSet(revisions[d]) /\ w <= writes /\ w \in Nat
        BY <1>2, <2>2, FS_CardinalityType DEF ComposedInv
      <3>2. w <= writes'
        <4>1. writes' \in Nat
          BY ComposedAssumption
        <4> HIDE DEF w
        <4> QED BY <1>1, <3>1, <4>1
      <3> QED BY <3>1, <3>2
    <2> QED BY <2>1, <2>2
  <1>6. \A d \in Ends : {r \in revisions'[d] : r.current} = {r \in revisions[d] : r.current}
    BY <1>2
  <1>7. \A k \in Documents : {r \in RowsOf(k)' : r.current} = {r \in RowsOf(k) : r.current}
    <2> TAKE k \in Documents
    <2>1. k[1] \in Ends
      BY DocumentKey
    <2>2. \A r : r \in revisions'[k[1]] /\ r.current <=> r \in revisions[k[1]] /\ r.current
      BY <1>6, <2>1
    <2> QED BY <2>2 DEF RowsOf
  <1>8. \A k \in Documents : CurrentIs(k)'
    <2> TAKE k \in Documents
    <2>1. CurrentIs(k) /\ documents'[k] = documents[k]
      BY DEF ComposedInv
    <2>2. \A r : r \in RowsOf(k)' /\ r.current <=> r \in RowsOf(k) /\ r.current
      BY <1>7
    <2> QED BY <2>1, <2>2 DEF CurrentIs, Live, Content
  <1>9. ComposedTypeOK'
    BY <1>3 DEF ComposedInv, ComposedTypeOK, RowType, aclVars
  <1>10. ListsAreRecorded'
    BY DEF ComposedInv, ListsAreRecorded, aclVars
  <1>11. documents' = [k \in Documents |-> documents'[k]] /\ asked' = [m \in Managers |-> asked'[m]]
    BY DEF ComposedInv, aclVars
  <1> QED BY <1>4, <1>5, <1>8, <1>9, <1>10, <1>11 DEF ComposedInv

LEMMA ProposeKeeps ==
  ASSUME ComposedInv, NEW k \in Documents, NEW content \in ContentsOf[k], ProposeChange(k, content)
  PROVE  ComposedInv'
  <1> DEFINE row == RevisionOf(k, content, "pending", "update", FALSE)
             old == revisions[k[1]]
  <1>1. k[1] \in Ends /\ k[2] \in Spaces /\ k[3] \in Ids /\ k = <<k[1], k[2], k[3]>>
    BY DocumentKey
  <1>2. writes < MaxWrites /\ writes' = writes + 1 /\ writes \in Nat /\ MaxWrites \in Nat
    BY RowFacts DEF ProposeChange, OneMoreWrite
  <1>3. content \in [value : Nat, ref : Ids \cup {None}] /\ content = [value |-> content.value, ref |-> content.ref]
    BY ComposedAssumption
  <1>4. row \in RowType /\ row.space = k[2] /\ row.id = k[3] /\ ~row.current /\ Content(row) = content
    <2> DEFINE seq == Cardinality(RowsOf(k)) + 1
    <2>1. seq \in 1 .. MaxWrites
      <3>1. Cardinality(RowsOf(k)) \in 0 .. writes
        BY RowFacts
      <3> QED BY <1>2, <3>1
    <2>2. row = [space |-> k[2], id |-> k[3], value |-> content.value, ref |-> content.ref, status |-> "pending",
                 op |-> "update", current |-> FALSE, seq |-> seq]
      BY DEF RevisionOf
    <2> HIDE DEF seq, row
    <2> QED BY <1>1, <1>3, <2>1, <2>2 DEF RowType, Content
  <1>5. revisions' = [revisions EXCEPT ![k[1]] = old \cup {row}] /\ UNCHANGED <<restricted, documents, aclVars>>
    BY DEF ProposeChange, Appended
  <1> HIDE DEF row, old
  <1>6. old \subseteq RowType /\ IsFiniteSet(old) /\ Cardinality(old) <= writes /\ \A r \in old : RowIs(k[1], r)
    BY <1>1, RowFacts DEF ComposedInv, old
  <1>7. IsFiniteSet(old \cup {row}) /\ Cardinality(old \cup {row}) <= writes'
    <2>1. IsFiniteSet(old \cup {row}) /\ Cardinality(old \cup {row}) = IF row \in old THEN Cardinality(old) ELSE Cardinality(old) + 1
      BY <1>6, FS_AddElement
    <2>2. Cardinality(old) \in Nat
      BY <1>6, FS_CardinalityType
    <2> QED BY <1>2, <1>6, <2>1, <2>2
  <1>8. RowIs(k[1], row)
    BY <1>1, <1>4 DEF RowIs
  <1>9. {r \in old \cup {row} : r.current} = {r \in old : r.current}
    BY <1>4
  <1>10. writes' \in 0 .. MaxWrites /\ writes <= writes'
    BY <1>2
  <1> DEFINE rows == old \cup {row}
  <1>11. rows \subseteq RowType /\ \A r \in rows : RowIs(k[1], r)
    BY <1>4, <1>6, <1>8
  <1>12. {r \in rows : r.current} = {r \in revisions[k[1]] : r.current} /\ revisions' = [revisions EXCEPT ![k[1]] = rows]
         /\ IsFiniteSet(rows) /\ Cardinality(rows) <= writes'
    BY <1>5, <1>7, <1>9 DEF old
  <1> HIDE DEF rows
  <1> QED BY <1>1, <1>5, <1>10, <1>11, <1>12, RowsAside

LEMMA RejectKeeps ==
  ASSUME ComposedInv, NEW k \in Documents, NEW p \in RowsOf(k), RejectChange(k, p)
  PROVE  ComposedInv'
  <1> DEFINE old == revisions[k[1]]
             q == [p EXCEPT !.status = "rejected"]
             rows == (old \ {p}) \cup {q}
  <1>1. writes < MaxWrites /\ writes' = writes + 1 /\ writes \in Nat /\ MaxWrites \in Nat
    BY RowFacts DEF RejectChange, OneMoreWrite
  <1>2. k[1] \in Ends /\ revisions \in [Ends -> SUBSET RowType]
    BY DocumentKey, RowFacts
  <1>3. p.status = "pending" /\ revisions' = [revisions EXCEPT ![k[1]] = rows] /\ UNCHANGED <<restricted, documents, aclVars>>
    BY <1>2 DEF RejectChange
  <1>4. p \in RowType /\ RowIs(k[1], p) /\ p \in old
    BY RowFacts DEF RowsOf
  <1>5. ~p.current /\ q \in RowType /\ RowIs(k[1], q) /\ ~q.current
    <2>1. q \in RowType /\ q.space = p.space /\ q.id = p.id /\ q.value = p.value /\ q.ref = p.ref /\ q.current = p.current
      BY <1>4 DEF RowType
    <2> HIDE DEF q
    <2> QED BY <1>3, <1>4, <2>1 DEF RowIs, Content
  <1>6. old \subseteq RowType /\ IsFiniteSet(old) /\ Cardinality(old) <= writes /\ \A r \in old : RowIs(k[1], r)
    BY <1>2 DEF ComposedInv
  <1> HIDE DEF q, old
  <1>7. IsFiniteSet(rows) /\ Cardinality(rows) <= writes'
    <2> DEFINE less == old \ {p}
    <2>1. IsFiniteSet(less) /\ Cardinality(less) <= Cardinality(old)
      BY <1>6, FS_Subset
    <2> HIDE DEF less
    <2>2. IsFiniteSet(less \cup {q})
          /\ Cardinality(less \cup {q}) = IF q \in less THEN Cardinality(less) ELSE Cardinality(less) + 1
      BY <2>1, FS_AddElement
    <2>3. Cardinality(old) \in Nat /\ Cardinality(less) \in Nat
      BY <1>6, <2>1, FS_CardinalityType
    <2>4. Cardinality(less \cup {q}) <= writes'
      BY <1>1, <1>6, <2>1, <2>2, <2>3
    <2> QED BY <2>2, <2>4 DEF less
  <1>8. rows \subseteq RowType /\ \A r \in rows : RowIs(k[1], r)
    BY <1>5, <1>6
  <1>9. {r \in rows : r.current} = {r \in revisions[k[1]] : r.current}
    BY <1>5 DEF old
  <1>10. writes' \in 0 .. MaxWrites /\ writes <= writes'
    BY <1>1
  <1> HIDE DEF rows
  <1> QED BY <1>2, <1>3, <1>7, <1>8, <1>9, <1>10, RowsAside

\* The call of m has stored the list that is in force, and its caller does not know yet, or was refused.
Holding(m, k) ==
  asked[m] # None /\ asked[m].key = k /\ asked[m].principals = restricted[k] /\ asked[m].at \in {"stored", "unrecorded"}

\* The verbs of a list leave the rows alone.
LEMMA ListsOnly ==
  ASSUME ComposedInv, UNCHANGED <<revisions, documents>>, writes' \in 0 .. MaxWrites, writes <= writes',
         asked' = [m \in Managers |-> asked'[m]], ListsAreRecorded',
         restricted' \in [Documents -> Lists \cup {{}}], standing' \subseteq Managers,
         \A m \in Managers : asked'[m] # None => asked'[m] \in AclCalls,
         trail' \subseteq [key : Documents, principals : Lists]
  PROVE  ComposedInv'
  <1>1. ComposedTypeOK'
    BY DEF ComposedInv, ComposedTypeOK
  <1>2. \A c \in Ends : IsFiniteSet(revisions'[c]) /\ Cardinality(revisions'[c]) <= writes'
    <2> TAKE c \in Ends
    <2> DEFINE w == Cardinality(revisions[c])
    <2>1. revisions'[c] = revisions[c] /\ IsFiniteSet(revisions[c]) /\ w <= writes /\ w \in Nat
      BY FS_CardinalityType DEF ComposedInv
    <2>2. writes \in Nat /\ writes' \in Nat
      BY ComposedAssumption DEF ComposedInv
    <2>3. w <= writes'
      <3> HIDE DEF w
      <3> QED BY <2>1, <2>2
    <2> QED BY <2>1, <2>3
  <1>3. \A k \in Documents : CurrentIs(k)'
    BY DEF ComposedInv, CurrentIs, RowsOf, Live, Content
  <1>4. \A c \in Ends : \A r \in revisions'[c] : RowIs(c, r)
    BY DEF ComposedInv
  <1> QED BY <1>1, <1>2, <1>3, <1>4 DEF ComposedInv

LEMMA AclKeeps ==
  ASSUME ComposedInv, NEW m \in Managers,
         \/ \E k \in Documents, principals \in Lists : AskAcl(m, k, principals)
         \/ StoreAcl(m) \/ RecordAcl(m) \/ AuditOfAclFails(m) \/ LoseStanding(m)
  PROVE  ComposedInv'
  <1>1. /\ restricted \in [Documents -> Lists \cup {{}}] /\ standing \subseteq Managers
        /\ \A n \in Managers : asked[n] # None => asked[n] \in AclCalls
        /\ trail \subseteq [key : Documents, principals : Lists]
        /\ asked = [n \in Managers |-> asked[n]] /\ ListsAreRecorded
        /\ writes \in Nat /\ MaxWrites \in Nat /\ writes <= MaxWrites
    BY ComposedAssumption DEF ComposedInv, ComposedTypeOK
  <1>2. ASSUME NEW k \in Documents, NEW principals \in Lists, AskAcl(m, k, principals)
        PROVE  ComposedInv'
    <2>1. UNCHANGED <<revisions, restricted, documents, standing, trail>>
          /\ asked[m] = None /\ asked' = [asked EXCEPT ![m] = Asking(k, principals, "gated")]
          /\ writes < MaxWrites /\ writes' = writes + 1
      BY <1>2 DEF AskAcl, OneMoreWrite
    <2>2. Asking(k, principals, "gated") \in AclCalls
      BY DEF Asking, AclCalls
    <2>3. asked' = [n \in Managers |-> asked'[n]] /\ asked'[m] \in AclCalls /\ \A n \in Managers : n # m => asked'[n] = asked[n]
      BY <1>1, <2>1, <2>2
    <2>4. ListsAreRecorded'
      BY <1>1, <2>1, <2>3 DEF ListsAreRecorded
    <2>5. writes' \in 0 .. MaxWrites /\ writes <= writes'
      BY <1>1, <2>1
    <2> QED BY <1>1, <2>1, <2>3, <2>4, <2>5, ListsOnly
  <1>3. CASE StoreAcl(m)
    <2> DEFINE k == asked[m].key
               principals == asked[m].principals
    <2>1. asked[m] # None /\ asked[m].at = "gated" /\ restricted' = [restricted EXCEPT ![k] = principals]
          /\ asked' = [asked EXCEPT ![m].at = "stored"] /\ UNCHANGED <<revisions, documents, standing, trail, writes>>
      BY <1>3 DEF StoreAcl
    <2>2. asked[m] \in AclCalls /\ k \in Documents /\ principals \in Lists
      BY <1>1, <2>1 DEF AclCalls
    <2>3. /\ asked' = [n \in Managers |-> asked'[n]] /\ asked'[m] \in AclCalls
          /\ asked'[m].key = k /\ asked'[m].principals = principals /\ asked'[m].at = "stored"
          /\ \A n \in Managers : n # m => asked'[n] = asked[n]
      BY <1>1, <2>1, <2>2 DEF AclCalls
    <2>4. restricted' \in [Documents -> Lists \cup {{}}] /\ restricted'[k] = principals
          /\ \A j \in Documents : j # k => restricted'[j] = restricted[j]
      BY <1>1, <2>1, <2>2
    <2>5. asked'[m] # None
      BY <2>3, ComposedAssumption
    <2> HIDE DEF k, principals
    <2>6. ListsAreRecorded'
      <3> SUFFICES ASSUME NEW j \in Documents, restricted'[j] # {}
                   PROVE  \/ [key |-> j, principals |-> restricted'[j]] \in trail'
                          \/ \E n \in Managers : IF asked'[n] = None THEN FALSE
                                                 ELSE /\ asked'[n].key = j /\ asked'[n].principals = restricted'[j]
                                                      /\ asked'[n].at \in {"stored", "unrecorded"}
        BY DEF ListsAreRecorded
      <3>1. CASE j = k
        BY <2>3, <2>4, <2>5, <3>1
      <3>2. CASE j # k
        <4>1. restricted'[j] = restricted[j] /\ restricted[j] # {}
          BY <2>4, <3>2
        <4>2. CASE [key |-> j, principals |-> restricted[j]] \in trail
          BY <2>1, <4>1, <4>2
        <4>3. CASE \E n \in Managers : Holding(n, j)
          <5>1. PICK n \in Managers : Holding(n, j)
            BY <4>3
          <5>2. n # m
            BY <2>1, <5>1 DEF Holding
          <5>3. asked'[n] = asked[n]
            BY <2>3, <5>2
          <5> QED BY <4>1, <5>1, <5>3 DEF Holding
        <4> QED BY <1>1, <4>1, <4>2, <4>3 DEF ListsAreRecorded, Holding
      <3> QED BY <3>1, <3>2
    <2>7. writes' \in 0 .. MaxWrites /\ writes <= writes'
      BY <1>1, <2>1
    <2> QED BY <1>1, <2>1, <2>3, <2>4, <2>6, <2>7, ListsOnly
  <1>4. CASE RecordAcl(m)
    <2> DEFINE row == [key |-> asked[m].key, principals |-> asked[m].principals]
    <2>1. asked[m] # None /\ asked[m].at = "stored" /\ trail' = trail \cup {row}
          /\ asked' = [asked EXCEPT ![m] = None] /\ UNCHANGED <<revisions, restricted, documents, standing, writes>>
      BY <1>4 DEF RecordAcl
    <2>2. row \in [key : Documents, principals : Lists]
      BY <1>1, <2>1 DEF AclCalls
    <2>3. asked' = [n \in Managers |-> asked'[n]] /\ asked'[m] = None /\ \A n \in Managers : n # m => asked'[n] = asked[n]
      BY <1>1, <2>1
    <2>4. ListsAreRecorded'
      <3> SUFFICES ASSUME NEW j \in Documents, restricted'[j] # {}
                   PROVE  \/ [key |-> j, principals |-> restricted'[j]] \in trail'
                          \/ \E n \in Managers : IF asked'[n] = None THEN FALSE
                                                 ELSE /\ asked'[n].key = j /\ asked'[n].principals = restricted'[j]
                                                      /\ asked'[n].at \in {"stored", "unrecorded"}
        BY DEF ListsAreRecorded
      <3>1. CASE [key |-> j, principals |-> restricted[j]] \in trail
        BY <2>1, <3>1
      <3>2. CASE \E n \in Managers : Holding(n, j)
        <4>1. PICK n \in Managers : Holding(n, j)
          BY <3>2
        <4>2. CASE n = m
          BY <2>1, <4>1, <4>2 DEF Holding
        <4>3. CASE n # m
          BY <2>1, <2>3, <4>1, <4>3 DEF Holding
        <4> QED BY <4>2, <4>3
      <3> QED BY <1>1, <2>1, <3>1, <3>2 DEF ListsAreRecorded, Holding
    <2>5. trail' \subseteq [key : Documents, principals : Lists]
      BY <1>1, <2>1, <2>2
    <2>6. writes' \in 0 .. MaxWrites /\ writes <= writes'
      BY <1>1, <2>1
    <2> QED BY <1>1, <2>1, <2>3, <2>4, <2>5, <2>6, ListsOnly
  <1>5. CASE AuditOfAclFails(m)
    <2>1. asked[m] # None /\ asked[m].at = "stored" /\ asked' = [asked EXCEPT ![m].at = "unrecorded"]
          /\ UNCHANGED <<revisions, restricted, documents, standing, trail, writes>>
      BY <1>5 DEF AuditOfAclFails
    <2>2. asked[m] \in AclCalls
      BY <1>1, <2>1
    <2>3. /\ asked' = [n \in Managers |-> asked'[n]] /\ asked'[m] \in AclCalls
          /\ asked'[m].key = asked[m].key /\ asked'[m].principals = asked[m].principals /\ asked'[m].at = "unrecorded"
          /\ \A n \in Managers : n # m => asked'[n] = asked[n]
      BY <1>1, <2>1, <2>2 DEF AclCalls
    <2>4. asked'[m] # None
      BY <2>3, ComposedAssumption
    <2>5. \A n \in Managers : asked[n] # None /\ asked[n].at \in {"stored", "unrecorded"} =>
            /\ asked'[n] # None /\ asked'[n].at \in {"stored", "unrecorded"}
            /\ asked'[n].key = asked[n].key /\ asked'[n].principals = asked[n].principals
      BY <2>3, <2>4
    <2>6. ListsAreRecorded'
      <3> SUFFICES ASSUME NEW j \in Documents, restricted'[j] # {}
                   PROVE  \/ [key |-> j, principals |-> restricted'[j]] \in trail'
                          \/ \E n \in Managers : IF asked'[n] = None THEN FALSE
                                                 ELSE /\ asked'[n].key = j /\ asked'[n].principals = restricted'[j]
                                                      /\ asked'[n].at \in {"stored", "unrecorded"}
        BY DEF ListsAreRecorded
      <3>1. CASE [key |-> j, principals |-> restricted[j]] \in trail
        BY <2>1, <3>1
      <3>2. CASE \E n \in Managers : Holding(n, j)
        <4>1. PICK n \in Managers : Holding(n, j)
          BY <3>2
        <4> QED BY <2>1, <2>5, <4>1 DEF Holding
      <3> QED BY <1>1, <2>1, <3>1, <3>2 DEF ListsAreRecorded, Holding
    <2>7. writes' \in 0 .. MaxWrites /\ writes <= writes'
      BY <1>1, <2>1
    <2> QED BY <1>1, <2>1, <2>3, <2>6, <2>7, ListsOnly
  <1>6. CASE LoseStanding(m)
    <2>1. UNCHANGED <<revisions, restricted, documents, asked, trail, writes>> /\ standing' = standing \ {m}
      BY <1>6 DEF LoseStanding
    <2>2. ListsAreRecorded' /\ writes' \in 0 .. MaxWrites /\ writes <= writes' /\ standing' \subseteq Managers
      BY <1>1, <2>1 DEF ListsAreRecorded
    <2> QED BY <1>1, <2>1, <2>2, ListsOnly
  <1> QED BY <1>2, <1>3, <1>4, <1>5, <1>6

LEMMA ComposedInvNext == ComposedInv /\ [ComposedNext]_composedVars => ComposedInv'
  <1> SUFFICES ASSUME ComposedInv, [ComposedNext]_composedVars PROVE ComposedInv'
    OBVIOUS
  <1>1. CASE UNCHANGED composedVars
    <2>1. UNCHANGED <<revisions, restricted, documents, standing, asked, trail, writes>>
      BY <1>1 DEF composedVars, aclVars
    <2>2. ComposedTypeOK' /\ ListsAreRecorded'
      BY <2>1 DEF ComposedInv, ComposedTypeOK, ListsAreRecorded
    <2>3. \A k \in Documents : CurrentIs(k)'
      BY <2>1 DEF ComposedInv, CurrentIs, RowsOf, Live, Content
    <2> QED BY <2>1, <2>2, <2>3 DEF ComposedInv
  <1>2. ASSUME NEW k \in Documents, NEW content \in ContentsOf[k], PutDocument(k, content) \/ ProposeChange(k, content)
        PROVE  ComposedInv'
    BY <1>2, PutKeeps, ProposeKeeps
  <1>3. ASSUME NEW k \in Documents, DeleteDocument(k)
        PROVE  ComposedInv'
    BY <1>3, DeleteKeeps
  <1>4. ASSUME NEW k \in Documents, NEW p \in RowsOf(k), ApproveChange(k, p) \/ RejectChange(k, p)
        PROVE  ComposedInv'
    BY <1>4, ApproveKeeps, RejectKeeps
  <1>5. ASSUME NEW m \in Managers,
               \/ \E k \in Documents, principals \in Lists : AskAcl(m, k, principals)
               \/ StoreAcl(m) \/ RecordAcl(m) \/ AuditOfAclFails(m) \/ LoseStanding(m)
        PROVE  ComposedInv'
    BY <1>5, AclKeeps
  <1> QED BY <1>1, <1>2, <1>3, <1>4, <1>5 DEF ComposedNext

---------------------------------------------------------------------------
(* What is read through it *)

\* A row of a view is what is approved of its document, and a document has one there.
LEMMA ViewIsApproved ==
  ASSUME ComposedInv, NEW c \in Ends, NEW s
  PROVE  /\ \A t \in ViewRows(c, s) : LET k == <<c, s, t.id>> IN
              /\ k \in Documents /\ t \in RowType /\ t.space = s /\ t \in revisions[c]
              /\ documents[k] = Content(t) /\ documents[k] # None /\ Approved(k) = documents[k]
              /\ \A reader : Seen(k, reader) <=> Admitted(c, t, reader)
         /\ \A t, u \in ViewRows(c, s) : t.id = u.id => t = u
         /\ \A i : <<c, s, i>> \in Documents /\ documents[<<c, s, i>>] # None => \E t \in ViewRows(c, s) : t.id = i
  <1>1. revisions \in [Ends -> SUBSET RowType] /\ \A k \in Documents : CurrentIs(k)
    BY RowFacts DEF ComposedInv
  <1>2. ASSUME NEW t \in ViewRows(c, s)
        PROVE  LET k == <<c, s, t.id>> IN
               /\ k \in Documents /\ t \in RowType /\ t.space = s /\ t \in revisions[c] /\ t \in RowsOf(k) /\ Live(t)
               /\ documents[k] = Content(t) /\ documents[k] # None /\ Approved(k) = documents[k]
               /\ \A reader : Seen(k, reader) <=> Admitted(c, t, reader)
    <2> DEFINE k == <<c, s, t.id>>
    <2>1. t \in revisions[c] /\ t.space = s /\ Live(t) /\ t \in RowType
      BY <1>1 DEF ViewRows, Live
    <2>2. k \in Documents /\ Content(t) \in ContentsOf[k]
      BY <2>1 DEF ComposedInv, RowIs
    <2>3. t \in RowsOf(k)
      BY <2>1 DEF RowsOf
    <2>4. documents[k] = Content(t)
      BY <1>1, <2>1, <2>2, <2>3 DEF CurrentIs
    <2>5. documents[k] # None
      BY <2>2, <2>4, ComposedAssumption
    <2>6. Approved(k) = documents[k]
      BY <2>2 DEF Approved
    <2>7. \A reader : Seen(k, reader) <=> Admitted(c, t, reader)
      BY <2>1, <2>5, <2>6 DEF Seen, Admitted
    <2> QED BY <2>1, <2>2, <2>3, <2>4, <2>5, <2>6, <2>7
  <1>3. ASSUME NEW t \in ViewRows(c, s), NEW u \in ViewRows(c, s), t.id = u.id
        PROVE  t = u
    <2> DEFINE k == <<c, s, t.id>>
    <2>1. k \in Documents /\ t \in RowsOf(k) /\ Live(t) /\ u \in RowsOf(<<c, s, u.id>>) /\ Live(u)
      BY <1>2
    <2>2. u \in RowsOf(k) /\ CurrentIs(k)
      BY <1>1, <1>3, <2>1
    <2> HIDE DEF k
    <2> QED BY <2>1, <2>2 DEF CurrentIs, Live
  <1>4. ASSUME NEW i, <<c, s, i>> \in Documents, documents[<<c, s, i>>] # None
        PROVE  \E t \in ViewRows(c, s) : t.id = i
    <2>1. PICK t \in RowsOf(<<c, s, i>>) : Live(t)
      BY <1>1, <1>4 DEF CurrentIs
    <2>2. t \in revisions[c] /\ t.space = s /\ t.id = i /\ t \in ViewRows(c, s)
      BY <2>1 DEF RowsOf, Live, ViewRows
    <2> QED BY <2>2
  <1> QED BY <1>2, <1>3, <1>4

LEMMA HostsAreOnce == ASSUME ComposedInv PROVE HostOnce
  <1> SUFFICES ASSUME NEW s \in Spaces, NEW i \in Ids
               PROVE  {[value |-> h.value, ref |-> h.ref] : h \in {r \in ViewRows("host", s) : r.id = i}}
                        = {Approved(<<"host", s, i>>)} \ {None}
    BY DEF HostOnce
  <1> DEFINE k == <<"host", s, i>>
  <1>1. "host" \in Ends
    BY DEF Ends
  <1>2. \A h \in ViewRows("host", s) : h.id = i => Content(h) = Approved(k) /\ Approved(k) # None
    BY <1>1, ViewIsApproved
  <1>3. Approved(k) # None => \E h \in ViewRows("host", s) : h.id = i
    BY <1>1, ViewIsApproved DEF Approved
  <1> QED BY <1>2, <1>3 DEF Content

LEMMA RelationsHold == ASSUME ComposedInv PROVE RelationIsTheDocument
  <1> SUFFICES ASSUME NEW s \in Spaces, NEW reader \in Readers, NEW h \in ViewRows("host", s)
               PROVE  ToOne(h, s, reader) = IF h.ref = None THEN None
                        ELSE IF Seen(<<"target", s, h.ref>>, reader) THEN Exposed(documents[<<"target", s, h.ref>>]) ELSE None
    BY DEF RelationIsTheDocument
  <1> DEFINE k == <<"target", s, h.ref>>
             found == {t \in ViewRows("target", s) : t.id = h.ref /\ Admitted("target", t, reader)}
  <1>1. "target" \in Ends
    BY DEF Ends
  <1>2. \A t \in found : k \in Documents /\ t \in RowType /\ documents[k] = Content(t) /\ Seen(k, reader) /\ h.ref \in Ids
    BY <1>1, ViewIsApproved DEF RowType
  <1>3. h.ref # None /\ Seen(k, reader) => found # {}
    <2> SUFFICES ASSUME Seen(k, reader) PROVE found # {}
      OBVIOUS
    <2>1. k \in Documents /\ documents[k] # None
      BY DEF Seen, Approved
    <2>2. PICK t \in ViewRows("target", s) : t.id = h.ref
      BY <1>1, <2>1, ViewIsApproved
    <2>3. Admitted("target", t, reader)
      BY <1>1, <2>2, ViewIsApproved
    <2> QED BY <2>2, <2>3
  <1>4. \A t \in found : Exposed(t) = Exposed(Content(t))
    BY ComposedAssumption DEF Exposed, Content
  <1>5. CASE found = {}
    BY <1>3, <1>5 DEF ToOne
  <1>6. CASE found # {}
    <2> DEFINE t == CHOOSE x \in found : TRUE
    <2>1. t \in found
      BY <1>6
    <2>2. ToOne(h, s, reader) = Exposed(t)
      BY <1>6 DEF ToOne
    <2> HIDE DEF t
    <2>3. Exposed(t) = Exposed(documents[k]) /\ Seen(k, reader) /\ h.ref # None
      BY <1>2, <1>4, <2>1, ComposedAssumption
    <2> QED BY <2>2, <2>3
  <1> QED BY <1>5, <1>6

\* What the limit leaves of a finite set, in the order of the values.
LEMMA FirstIsLargest ==
  ASSUME NEW S \in SUBSET RowType, IsFiniteSet(S), NEW list \in FirstOf(S)
  PROVE  LET K == IF Cardinality(S) > Limit THEN Limit ELSE Cardinality(S) IN
         /\ K \in Nat /\ DOMAIN list = 1 .. K /\ Len(list) = K /\ \A n \in 1 .. K : list[n] \in S
         /\ \A m, n \in 1 .. K : list[m] = list[n] => m = n
         /\ \A n \in 1 .. K, t \in S : (\A m \in 1 .. K : list[m] # t) => list[n].value >= t.value
  <1> DEFINE N == Cardinality(S)
             K == IF N > Limit THEN Limit ELSE N
  <1>1. N \in Nat /\ Limit \in Nat \ {0}
    BY ComposedAssumption, FS_CardinalityType
  <1>2. PICK e \in Enumerations(S) : /\ \A m, n \in 1 .. N : m < n => e[m].value >= e[n].value
                                     /\ list = [n \in 1 .. K |-> e[n]]
    BY DEF FirstOf
  <1>3. e \in [1 .. N -> S] /\ \A m, n \in 1 .. N : e[m] = e[n] => m = n
    BY <1>2 DEF Enumerations
  <1>4. \A t \in S : \E m \in 1 .. N : e[m] = t
    <2>1. e \in Injection(1 .. N, S)
      BY <1>3, Fun_IsInj
    <2>2. Cardinality(1 .. N) = N
      <3>1. N \in Int /\ 1 \in Int /\ (1 > N => N = 0) /\ N - 1 + 1 = N
        BY <1>1
      <3>2. \A b, c \in Int : Cardinality(b .. c) = IF b > c THEN 0 ELSE c - b + 1
        BY FS_Interval
      <3> HIDE DEF N
      <3> QED BY <3>1, <3>2
    <2>3. e \in Surjection(1 .. N, S)
      BY <2>1, <2>2, FS_Injection
    <2> QED BY <2>3 DEF Surjection
  <1> HIDE DEF N
  <1>5. K \in Nat /\ K <= N /\ \A n \in 1 .. K : n \in 1 .. N
    BY <1>1
  <1> HIDE DEF K
  <1>6. DOMAIN list = 1 .. K /\ \A n \in 1 .. K : list[n] = e[n] /\ list[n] \in S
    BY <1>2, <1>3, <1>5
  <1>7. Len(list) = K
    <2>1. list \in [1 .. K -> S]
      BY <1>2, <1>3, <1>5
    <2>2. list \in Seq(S)
      BY <1>5, <2>1, SeqDef
    <2> QED BY <1>5, <1>6, <2>2, LenProperties
  <1>8. \A m, n \in 1 .. K : list[m] = list[n] => m = n
    BY <1>3, <1>5, <1>6
  <1>9. ASSUME NEW n \in 1 .. K, NEW t \in S, \A m \in 1 .. K : list[m] # t
        PROVE  list[n].value >= t.value
    <2>1. PICK m \in 1 .. N : e[m] = t
      BY <1>4
    <2>2. ~(m <= K)
      BY <1>1, <1>5, <1>6, <1>9, <2>1
    <2>3. n < m
      BY <1>1, <1>5, <2>2
    <2>4. n \in 1 .. N
      BY <1>5
    <2> QED BY <1>2, <1>6, <2>1, <2>3, <2>4
  <1> QED BY <1>5, <1>6, <1>7, <1>8, <1>9 DEF K, N

LEMMA ListsAreFirst == ASSUME ComposedInv PROVE ListIsTheFirst
  <1> SUFFICES ASSUME NEW s \in Spaces, NEW reader \in Readers, NEW h \in ViewRows("host", s), NEW list \in ToMany(h, s, reader)
               PROVE  LET seen == {i \in Ids : Seen(<<"target", s, i>>, reader) /\ documents[<<"target", s, i>>].ref = h.id}
                          shown == {list[n].id : n \in DOMAIN list}
                      IN /\ shown \subseteq seen
                         /\ Len(list) = Cardinality(shown)
                         /\ Len(list) = IF Cardinality(seen) > Limit THEN Limit ELSE Cardinality(seen)
                         /\ \A i \in shown, j \in seen \ shown :
                              documents[<<"target", s, i>>].value >= documents[<<"target", s, j>>].value
    BY DEF ListIsTheFirst
  <1> DEFINE S == {t \in ViewRows("target", s) : t.ref = h.id /\ Admitted("target", t, reader)}
             seen == {i \in Ids : Seen(<<"target", s, i>>, reader) /\ documents[<<"target", s, i>>].ref = h.id}
             shown == {list[n].id : n \in DOMAIN list}
             N == Cardinality(S)
             K == IF N > Limit THEN Limit ELSE N
  <1>1. "target" \in Ends
    BY DEF Ends
  <1>2. \A t \in ViewRows("target", s) : LET k == <<"target", s, t.id>> IN
          /\ k \in Documents /\ t \in RowType /\ t \in revisions["target"] /\ documents[k] = Content(t)
          /\ (Seen(k, reader) <=> Admitted("target", t, reader))
    BY <1>1, ViewIsApproved
  <1>3. \A t, u \in ViewRows("target", s) : t.id = u.id => t = u
    BY <1>1, ViewIsApproved
  <1>4. S \subseteq RowType /\ IsFiniteSet(S)
    <2>1. IsFiniteSet(revisions["target"])
      BY <1>1 DEF ComposedInv
    <2>2. S \subseteq revisions["target"] /\ S \subseteq RowType
      BY <1>2
    <2> HIDE DEF S
    <2> QED BY <2>1, <2>2, FS_Subset
  <1>5. \A t \in S : t.id \in seen
    <2> TAKE t \in S
    <2>1. t \in ViewRows("target", s) /\ t.ref = h.id /\ Admitted("target", t, reader)
      OBVIOUS
    <2>2. t.id \in Ids
      BY <1>2, <2>1 DEF RowType
    <2>3. documents[<<"target", s, t.id>>] = Content(t) /\ Seen(<<"target", s, t.id>>, reader)
      BY <1>2, <2>1
    <2>4. documents[<<"target", s, t.id>>].ref = h.id
      BY <2>1, <2>3 DEF Content
    <2> QED BY <2>2, <2>3, <2>4
  <1>6. \A i \in seen : \E t \in S : t.id = i
    <2> TAKE i \in seen
    <2> DEFINE k == <<"target", s, i>>
    <2>1. Seen(k, reader) /\ documents[k].ref = h.id
      OBVIOUS
    <2>2. k \in Documents /\ documents[k] # None
      BY <2>1 DEF Seen, Approved
    <2>3. PICK t \in ViewRows("target", s) : t.id = i
      BY <1>1, <2>2, ViewIsApproved
    <2>4. documents[k] = Content(t) /\ Admitted("target", t, reader)
      BY <1>2, <2>1, <2>3
    <2>5. t.ref = h.id
      BY <2>1, <2>4 DEF Content
    <2> QED BY <2>3, <2>4, <2>5
  <1>7. \A t, u \in S : t.id = u.id => t = u
    BY <1>3
  <1>8. \A t \in S : documents[<<"target", s, t.id>>].value = t.value
    <2> TAKE t \in S
    <2>1. documents[<<"target", s, t.id>>] = Content(t)
      BY <1>2
    <2> QED BY <2>1 DEF Content
  <1>9. list \in FirstOf(S)
    BY DEF ToMany
  <1> HIDE DEF S, seen
  <1>10. /\ K \in Nat /\ DOMAIN list = 1 .. K /\ Len(list) = K /\ \A n \in 1 .. K : list[n] \in S
         /\ \A m, n \in 1 .. K : list[m] = list[n] => m = n
         /\ \A n \in 1 .. K, t \in S : (\A m \in 1 .. K : list[m] # t) => list[n].value >= t.value
    BY <1>4, <1>9, FirstIsLargest
  <1>11. IsFiniteSet(seen) /\ Cardinality(seen) = N
    <2> DEFINE f == [t \in S |-> t.id]
    <2>1. f \in Bijection(S, seen)
      <3>1. f \in [S -> seen]
        BY <1>5
      <3>2. \A t, u \in S : f[t] = f[u] => t = u
        BY <1>7
      <3>3. \A i \in seen : \E t \in S : f[t] = i
        BY <1>6
      <3> HIDE DEF f
      <3> QED BY <3>1, <3>2, <3>3, Fun_IsBij
    <2>2. ExistsBijection(S, seen)
      BY <2>1 DEF ExistsBijection
    <2> HIDE DEF f
    <2> QED BY <1>4, <2>2, FS_Bijection
  <1> HIDE DEF N, K
  <1>12. Cardinality(shown) = K
    <2> DEFINE I == 1 .. K
               f == [n \in I |-> list[n].id]
    <2>1. f \in Bijection(I, shown)
      <3>1. f \in [I -> shown]
        BY <1>10
      <3>2. \A m, n \in I : f[m] = f[n] => m = n
        BY <1>7, <1>10
      <3>3. \A i \in shown : \E n \in I : f[n] = i
        BY <1>10
      <3> HIDE DEF f, shown, I
      <3> QED BY <3>1, <3>2, <3>3, Fun_IsBij
    <2>2. IsFiniteSet(I) /\ Cardinality(I) = K
      <3>1. K \in Int /\ 1 \in Int /\ (1 > K => K = 0) /\ K - 1 + 1 = K
        BY <1>10
      <3>2. \A b, c \in Int : IsFiniteSet(b .. c) /\ Cardinality(b .. c) = IF b > c THEN 0 ELSE c - b + 1
        BY FS_Interval
      <3> QED BY <3>1, <3>2
    <2>3. ExistsBijection(I, shown)
      BY <2>1 DEF ExistsBijection
    <2> HIDE DEF I, f, shown
    <2> QED BY <2>2, <2>3, FS_Bijection
  <1>13. shown \subseteq seen
    BY <1>5, <1>10
  <1>14. ASSUME NEW i \in shown, NEW j \in seen \ shown
         PROVE  documents[<<"target", s, i>>].value >= documents[<<"target", s, j>>].value
    <2>1. PICK n \in 1 .. K : list[n].id = i
      BY <1>10
    <2>2. PICK t \in S : t.id = j
      BY <1>6
    <2>3. \A m \in 1 .. K : list[m] # t
      BY <1>10, <2>2
    <2>4. list[n] \in S /\ list[n].value >= t.value
      BY <1>10, <2>3
    <2> QED BY <1>8, <2>1, <2>2, <2>4
  <1> HIDE DEF shown
  <1>15. Len(list) = Cardinality(shown) /\ Len(list) = IF Cardinality(seen) > Limit THEN Limit ELSE Cardinality(seen)
    BY <1>10, <1>11, <1>12 DEF K
  <1> QED BY <1>13, <1>14, <1>15 DEF seen, shown

\* A relation shows what is approved of the documents that its reader may see and nothing else, whatever
\* is proposed, decided, deleted or restricted on either side (relationExpr of sql/build.ts, datasetViewDDL
\* of apply/ddl.ts), and a list in force was recorded or its caller was not told that it is (acl/manage.ts).
THEOREM ComposedCorrectAlways == ComposedSpec => []ComposedCorrect
  <1>1. ComposedInv => ComposedCorrect
    BY HostsAreOnce, RelationsHold, ListsAreFirst DEF ComposedInv, ComposedCorrect
  <1> QED BY ComposedInvInit, ComposedInvNext, <1>1, PTL DEF ComposedSpec
=============================================================================
