----------------------------- MODULE ChangeFeed -----------------------------
(***************************************************************************)
(* The change feed: app.change_log, the transactions that append to it and *)
(* a client that polls it with a cursor (packages/broker/src,              *)
(* verbs/history.ts: writeChangeLog, changes; import/run.ts: appendToFeed).*)
(*                                                                         *)
(* A transaction gets its id (xid) at its first write and draws a feed     *)
(* number (seq) at each entry, so the two orders need not agree, and       *)
(* neither is the order of the commits.                                    *)
(***************************************************************************)
EXTENDS Naturals, FiniteSets

CONSTANTS
  Mutators,     \* connections that run mutate or decideProposals
  Importers,    \* processes that run importCollection
  Collections,
  Readable,     \* the collections the polling client holds a read grant on
  Limit,        \* the most entries one poll looks at
  MaxBatch,     \* the most revisions one transaction writes
  MaxXid,       \* BOUND: the transactions of a run ...
  MaxSeq,       \* BOUND: ... and its feed entries
  Wrap          \* xmin is a 32-bit number: 2^32, and small in one run

ASSUME FeedAssumption ==
  /\ Mutators \cap Importers = {}
  /\ Readable \subseteq Collections
  /\ Limit \in Nat \ {0} /\ MaxBatch \in Nat /\ Wrap \in Nat \ {0}
  /\ MaxXid \in Nat /\ MaxSeq \in Nat

Writers == Mutators \cup Importers

Revision == [by : Writers, xid : 1 .. MaxXid, n : 1 .. MaxBatch, coll : Collections]
Entry == [seq : 1 .. MaxSeq, xid : 1 .. MaxXid, rev : Revision]

VARIABLES
  nextXid, nextSeq,   \* the counters of Postgres
  tx,        \* tx[w]: the transaction of w
  revised,   \* the committed revisions
  log,       \* the committed entries
  since,     \* the cursor of the client
  got        \* the entries the client has been given

vars == <<nextXid, nextSeq, tx, revised, log, since, got>>

\* wrote: the revisions of the transaction; fed: its entries.  An importer's
\* transaction of entries (pc "feed") comes after the one of the revisions.
Closed == [pc |-> "idle", xid |-> 0, wrote |-> {}, fed |-> {}]

Init ==
  /\ nextXid = 1 /\ nextSeq = 1
  /\ tx = [w \in Writers |-> Closed]
  /\ revised = {} /\ log = {}
  /\ since = 0 /\ got = {}

Owed(w) == tx[w].wrote \ {e.rev : e \in tx[w].fed}

---------------------------------------------------------------------------
(* The writers *)

\* The first statement that writes gives the transaction its id.
Stamped(w) == IF tx[w].xid = 0 THEN nextXid ELSE tx[w].xid
Stamp(w) == nextXid' = IF tx[w].xid = 0 THEN nextXid + 1 ELSE nextXid

\* insertRevision, or the insert of a file.  A mutator has fed what it wrote before.
WriteRevision(w, c) ==
  /\ tx[w].pc \in {"idle", "open"}
  /\ w \in Mutators => Owed(w) = {}
  /\ Cardinality(tx[w].wrote) < MaxBatch
  /\ Stamped(w) <= MaxXid
  /\ Stamp(w)
  /\ LET rev == [by |-> w, xid |-> Stamped(w), n |-> Cardinality(tx[w].wrote) + 1, coll |-> c]
     IN tx' = [tx EXCEPT ![w].pc = "open", ![w].xid = Stamped(w), ![w].wrote = @ \cup {rev}]
  /\ UNCHANGED <<nextSeq, revised, log, since, got>>

\* writeChangeLog: bigserial draws the number when the statement runs.
WriteChangeLog(w) ==
  /\ tx[w].pc = (IF w \in Importers THEN "feed" ELSE "open")
  /\ Stamped(w) <= MaxXid /\ nextSeq <= MaxSeq
  /\ Stamp(w)
  /\ nextSeq' = nextSeq + 1
  /\ \E rev \in Owed(w) :
       tx' = [tx EXCEPT ![w].xid = Stamped(w),
                        ![w].fed = @ \cup {[seq |-> nextSeq, xid |-> Stamped(w), rev |-> rev]}]
  /\ UNCHANGED <<revised, log, since, got>>

\* Mutant: a transaction that commits although it has not fed every revision.
Uncounted(w) == tx[w].fed # {}

\* Every revision of a transaction has its entry, in the same transaction.
AllFed(w) == Owed(w) = {}

Commit(w) ==
  /\ w \in Mutators /\ tx[w].pc = "open" /\ AllFed(w)
  /\ revised' = revised \cup tx[w].wrote
  /\ log' = log \cup tx[w].fed
  /\ tx' = [tx EXCEPT ![w] = Closed]
  /\ UNCHANGED <<nextXid, nextSeq, since, got>>

\* importCollection commits its revisions first ...
CommitImport(w) ==
  /\ w \in Importers /\ tx[w].pc = "open"
  /\ revised' = revised \cup tx[w].wrote
  /\ tx' = [tx EXCEPT ![w].pc = "feed", ![w].xid = 0]
  /\ UNCHANGED <<nextXid, nextSeq, log, since, got>>

\* ... and appendToFeed writes all the entries in a transaction of its own.
CommitFeed(w) ==
  /\ w \in Importers /\ tx[w].pc = "feed" /\ AllFed(w)
  /\ log' = log \cup tx[w].fed
  /\ tx' = [tx EXCEPT ![w] = Closed]
  /\ UNCHANGED <<nextXid, nextSeq, revised, since, got>>

\* The transaction fails or its process dies.  Numbers drawn are not given back;
\* a failure of appendToFeed is logged and swallowed.
Abort(w) ==
  /\ tx[w].pc # "idle"
  /\ tx' = [tx EXCEPT ![w] = Closed]
  /\ UNCHANGED <<nextXid, nextSeq, revised, log, since, got>>

---------------------------------------------------------------------------
(* The client *)

Running == {w \in Writers : tx[w].xid # 0}

\* pg_snapshot_xmin is the oldest transaction still running, or else the next one.
BelowXmin(x) == x < nextXid /\ \A w \in Running : x < tx[w].xid

\* Mutant: whatever has committed.
AnyCommitted(e) == TRUE

\* Mutant: one transaction too many is held back.
OffByOne(e) == BelowXmin(e.xid + 1)

\* xmin::text::bigint < pg_snapshot_xmin(...)::text::bigint: xmin has 32 bits and
\* starts again from 0, the snapshot's has 64.
Released(e) == BelowXmin(e.xid % Wrap)

Visible == {e \in log : e.seq > since /\ Released(e)}

\* order by seq limit: the first entries the client has not passed.
Page == {e \in Visible : Cardinality({x \in Visible : x.seq < e.seq}) < Limit}

\* The grants filter what the limit has left.
Entries == {e \in Page : e.rev.coll \in Readable}

\* The client goes on from the last entry it was given, or from where it was.
Cursors(E) ==
  IF E = {} THEN {since} ELSE {e.seq : e \in {l \in E : \A x \in E : x.seq <= l.seq}}

\* changes.
Changes ==
  /\ Page # {}
  /\ got' = got \cup Entries
  /\ since' \in Cursors(Entries)
  /\ UNCHANGED <<nextXid, nextSeq, tx, revised, log>>

---------------------------------------------------------------------------

Finish(w) == Commit(w) \/ CommitImport(w) \/ CommitFeed(w) \/ Abort(w)

\* Every writer is done and nothing more can be begun.
Done == nextXid > MaxXid /\ (\A w \in Writers : tx[w].pc = "idle") /\ UNCHANGED vars

Next ==
  \/ \E w \in Writers : (\E c \in Collections : WriteRevision(w, c)) \/ WriteChangeLog(w) \/ Finish(w)
  \/ Changes
  \/ Done

Spec == Init /\ [][Next]_vars

\* Transactions end (statement_timeout, idle_in_transaction_session_timeout) and
\* the client keeps polling.
FairSpec == Spec /\ WF_vars(Changes) /\ \A w \in Writers : WF_vars(Finish(w))
---------------------------------------------------------------------------
(* Properties *)

Transaction ==
  [pc : {"idle", "open", "feed"}, xid : 0 .. MaxXid, wrote : SUBSET Revision, fed : SUBSET Entry]

\* The counters, the transactions and the log; the cursor stays behind the numbers
\* that have been drawn.
TypeOK ==
  /\ nextXid \in 1 .. MaxXid + 1 /\ nextSeq \in 1 .. MaxSeq + 1
  /\ tx \in [Writers -> Transaction]
  /\ revised \subseteq Revision
  /\ log \subseteq Entry /\ got \subseteq log
  /\ since \in 0 .. nextSeq - 1

\* What the watermark does guarantee: an entry the client has passed without being
\* given it belongs to a transaction younger than one it has been given.
MissedAreYounger ==
  \A e \in log :
    e.seq <= since /\ e.rev.coll \in Readable /\ e \notin got =>
      \E g \in got : g.seq > e.seq /\ g.xid < e.xid

\* architecture.md: "Written in the same transaction as the revision" - what mutate
\* or a decision commits is in the feed from that moment; only an import drifts.
InFeed == \A r \in revised : r.by \in Mutators => \E e \in log : e.rev = r

\* An entry names a revision that is committed, an import's too.
NoPhantom == \A e \in log : e.rev \in revised

\* changes: "Once a row passes this test, no lower seq can appear later".
NoLowerLater == \A e \in log : e.seq <= since /\ e.rev.coll \in Readable => e \in got

\* A full page of entries the client may not read: it comes back empty, without a
\* cursor to go on from.
Blind == Cardinality(Page) = Limit /\ Entries = {}

\* events.md: "a correct, cursor-based tail" - a client that keeps polling gets past
\* every entry it may read, unless a page blinds it.
Drains ==
  \A n \in 1 .. MaxSeq :
    (\E e \in log : e.seq = n /\ e.rev.coll \in Readable) ~> since >= n \/ Blind

\* The feed is what was committed: an entry for every revision of a mutator, and none besides.
FeedIsExact == TypeOK /\ InFeed /\ NoPhantom
=============================================================================
