------------------------------- MODULE History -------------------------------
(***************************************************************************)
(* What a document's revisions and proposals are read as (packages/broker, *)
(* verbs/history.ts and the listings of verbs/propose.ts): listRevisions,  *)
(* getRevision, diffRevisions, listProposals and getProposal, statement by *)
(* statement, beside the writes, the grants and the access list that       *)
(* change meanwhile.  A write is one step here; Revisions has its          *)
(* statements and their races.  The model is of one document.              *)
(***************************************************************************)
EXTENDS Naturals, Sequences, FiniteSets, Ordering, Absent

CONSTANTS
  Readers,
  DataColumns,       \* dataColsOf: the fields with a column
  CellValues,      \* the values of a column
  Created,         \* BOUND: the contents a document is created with
  MaskedColumns, \* read: mask
  Hides,         \* what a value of one is shown as
  Scope,         \* the column that document filters are on
  Grants,        \* [fields, unmasked, verbs, filter], filter None or a value of Scope
  MaxRevs, MaxTurns   \* BOUND: revisions; changes of a grant or of the access list

ASSUME HistoryAssumption == MaxRevs \in Nat /\ Created \subseteq [DataColumns -> CellValues]

VARIABLES
  versions,    \* the rows of the document, in the order they were inserted; a row's index is its _rev
  acl,     \* its access list, None without one
  grant,   \* reader -> the active grant, None without one
  reading, \* what each reader's call is doing, and what it answered
  heldStates,    \* history: the revisions the document has held, in that order
  fate,    \* history: proposal -> "pending", "approved" or "rejected"
  turns

histVars == <<versions, acl, grant, reading, heldStates, fate, turns>>

NoCall == [step |-> "idle", verb |-> "list", from |-> 1, to |-> 1, grant |-> None, row |-> None,
         reached |-> FALSE, out |-> None]

HistInit ==
  /\ versions = <<>> /\ acl = None /\ heldStates = <<>> /\ fate = <<>> /\ turns = 0
  /\ grant \in [Readers -> Grants]
  /\ reading = [r \in Readers |-> NoCall]

Currents == {i \in DOMAIN versions : versions[i].current}
Held == CHOOSE i \in Currents : TRUE

\* admits: the grant's filter and the document's access list.
Admits(row, list, r, g) == (g.filter = None \/ row.data[Scope] = g.filter) /\ (list = None \/ r \in list)

\* Whether the document as it stands is one this reader may see.
InReach(r, g, rows, list) ==
  g # None /\ \E i \in DOMAIN rows : rows[i].current /\ Admits(rows[i], list, r, g)
\* history: a call remembers whether its document was in reach at some moment of it.
Watched(calls, rows, list) ==
  [r \in Readers |-> [calls[r] EXCEPT !.reached = @ \/ InReach(r, calls[r].grant, rows, list)]]

---------------------------------------------------------------------------
(* Writes *)

RoomForOne == Len(versions) < MaxRevs
VersionRow(op, status, fields, base, data, seq) ==
  [op |-> op, status |-> status, fields |-> fields, base |-> base, data |-> data, seq |-> seq,
   current |-> status = "approved"]
DemotedAll(rows) == [i \in DOMAIN rows |-> [rows[i] EXCEPT !.current = FALSE]]
PatchedWith(data, patch) == [f \in DataColumns |-> IF f \in DOMAIN patch THEN patch[f] ELSE data[f]]
OneFieldPatches == UNION {[{g} -> CellValues] : g \in DataColumns}

\* The number of a revision comes from the one it replaces.
NextSeq == versions[Held].seq + 1

Quiet == reading' = Watched(reading, versions', acl) /\ UNCHANGED <<acl, grant, turns>>

Create == \E d \in Created, status \in {"approved", "pending"} :
  /\ RoomForOne /\ Currents = {}
  /\ status = "pending" => \A i \in DOMAIN versions : versions[i].status # "pending"
  /\ versions' = Append(versions, VersionRow("create", status, DataColumns, 0, d, 1))
  /\ heldStates' = IF status = "approved" THEN Append(heldStates, Len(versions')) ELSE heldStates
  /\ fate' = IF status = "pending" THEN Append(fate, [rev |-> Len(versions'), is |-> "pending"]) ELSE fate
  /\ Quiet

\* mutateDataset: demote, then append the successor.
Revise == \E p \in OneFieldPatches \cup {<<>>} :
  /\ RoomForOne /\ Currents # {}
  /\ versions' = Append(DemotedAll(versions), VersionRow(IF p = <<>> THEN "delete" ELSE "update", "approved", DOMAIN p,
                                       versions[Held].seq, PatchedWith(versions[Held].data, p), NextSeq))
  /\ heldStates' = Append(heldStates, Len(versions')) /\ UNCHANGED fate /\ Quiet

\* proposeDataset: nothing is demoted, the document keeps its revision.
Propose == \E p \in OneFieldPatches \cup {<<>>} :
  /\ RoomForOne /\ Currents # {}
  /\ versions' = Append(versions, VersionRow(IF p = <<>> THEN "delete" ELSE "update", "pending", DOMAIN p,
                              versions[Held].seq, PatchedWith(versions[Held].data, p), versions[Held].seq + 1))
  /\ fate' = Append(fate, [rev |-> Len(versions'), is |-> "pending"]) /\ UNCHANGED heldStates /\ Quiet

Decided(i, is) == [k \in DOMAIN fate |-> IF fate[k].rev = i THEN [fate[k] EXCEPT !.is = is] ELSE fate[k]]

\* The consumed proposal is superseded by the revision that merged it.
Consumed == "superseded"

\* applyApproval: nothing it touches has moved since, the merge is appended, the proposal retired.
Approve(i) ==
  LET p == versions[i]
      base == IF p.op = "create" THEN p.data ELSE versions[Held].data
      rows == [(IF p.op = "create" THEN versions ELSE DemotedAll(versions)) EXCEPT ![i].status = Consumed]
  IN /\ RoomForOne /\ p.status = "pending"
     /\ IF p.op = "create" THEN Currents = {}
        ELSE /\ Currents # {}
             /\ \A j \in DOMAIN versions : versions[j].status = "approved" /\ versions[j].seq > p.base =>
                  versions[j].fields \cap p.fields = {}
     /\ versions' = Append(rows, VersionRow(p.op, "approved", p.fields, p.base,
                                 [f \in DataColumns |-> IF f \in p.fields THEN p.data[f] ELSE base[f]],
                                 IF p.op = "create" THEN 1 ELSE NextSeq))
     /\ heldStates' = Append(heldStates, Len(versions')) /\ fate' = Decided(i, "approved") /\ Quiet

Reject(i) ==
  /\ versions[i].status = "pending"
  /\ versions' = [versions EXCEPT ![i].status = "rejected"]
  /\ fate' = Decided(i, "rejected") /\ UNCHANGED heldStates /\ Quiet

Turn == turns < MaxTurns /\ turns' = turns + 1 /\ UNCHANGED <<versions, heldStates, fate>>
SetList == \E l \in (SUBSET Readers \ {{}}) \cup {None} :
  l # acl /\ acl' = l /\ reading' = Watched(reading, versions, l) /\ UNCHANGED grant /\ Turn
SetGrant == \E r \in Readers, g \in Grants \cup {None} :
  g # grant[r] /\ grant' = [grant EXCEPT ![r] = g] /\ UNCHANGED <<reading, acl>> /\ Turn

---------------------------------------------------------------------------
(* What a reader is shown of a row *)

Readable(g) == g.fields \cap DataColumns
MaskedFor(g) == MaskedColumns \ g.unmasked

\* maskExpr in the statement, for a masked field that the grant does not carry raw.
Projected(row, g) == [f \in Readable(g) |-> IF f \in MaskedFor(g) THEN Hides[row.data[f]] ELSE row.data[f]]

\* What is compared is what would be shown.
Moved(from, to, g) == {f \in Readable(g) : Projected(from, g)[f] # Projected(to, g)[f]}

Names(fields, g) == fields \cap g.fields

\* Rows that record what was proposed, not a state the document was in.
ShownRevisions == {i \in DOMAIN versions : versions[i].status # "superseded"}
BySeq(S) == SortedBy(S, [i \in S |->
  {j \in S : versions[j].seq < versions[i].seq \/ (versions[j].seq = versions[i].seq /\ j < i)}])

\* An approved proposal is stored as superseded.
StoredStatus(status) == IF status = "approved" THEN "superseded" ELSE status
Listing(status) == {i \in DOMAIN versions : versions[i].status = StoredStatus(status)}

---------------------------------------------------------------------------
(* A reader's call *)

Moves(r, call) ==
  reading' = Watched([reading EXCEPT ![r] = call], versions, acl) /\ UNCHANGED <<versions, acl, grant, heldStates, fate, turns>>
Call(r) == reading[r]
AnswersCall(r, out) == Moves(r, [Call(r) EXCEPT !.step = "answered", !.out = out])
RefusesCall(r) == Moves(r, NoCall)

\* resolveHistoryGrant: the grant of this moment, with the read verb, is what the call runs under.
OpenHistory(r, verb, from, to) ==
  /\ Call(r).step = "idle" /\ grant[r] # None /\ "read" \in grant[r].verbs
  /\ verb # "list" => Readable(grant[r]) # {}
  /\ Moves(r, [NoCall EXCEPT !.step = "opened", !.verb = verb, !.from = from, !.to = to, !.grant = grant[r]])

\* Mutant: the filter is put to the revision that is asked for.
AsOfTheRevision(r) == Call(r).from \in DOMAIN versions /\ Admits(versions[Call(r).from], acl, r, Call(r).grant)
\* admitsDocument: the filter and the list are put to the current revision, whatever is asked for.
AdmitsDocument(r) == Currents # {} /\ Admits(versions[Held], acl, r, Call(r).grant)

CheckDocument(r) ==
  /\ Call(r).step = "opened"
  /\ IF AdmitsDocument(r) THEN Moves(r, [Call(r) EXCEPT !.step = "admitted"]) ELSE RefusesCall(r)

\* The statement after it, which sees the rows of its own moment.
Entry(i, g) == [rev |-> i, seq |-> versions[i].seq, status |-> versions[i].status, fields |-> Names(versions[i].fields, g)]
ListRevisions(r) ==
  /\ Call(r).step = "admitted" /\ Call(r).verb = "list"
  /\ AnswersCall(r, [k \in DOMAIN BySeq(ShownRevisions) |-> Entry(BySeq(ShownRevisions)[k], Call(r).grant)])

GetRevision(r) ==
  /\ Call(r).step = "admitted" /\ Call(r).verb = "get"
  /\ IF Call(r).from \in ShownRevisions THEN AnswersCall(r, Projected(versions[Call(r).from], Call(r).grant)) ELSE RefusesCall(r)

\* Both revisions in one statement.
DiffRevisions(r) ==
  LET from == Call(r).from  to == Call(r).to IN
  /\ Call(r).step = "admitted" /\ Call(r).verb = "diff"
  /\ IF {from, to} \subseteq ShownRevisions THEN AnswersCall(r, Moved(versions[from], versions[to], Call(r).grant)) ELSE RefusesCall(r)

\* listProposals: the grants, then one statement with each row and its access list.
OpenProposals(r, status) ==
  /\ Call(r).step = "idle" /\ grant[r] # None /\ "approve" \in grant[r].verbs
  /\ Moves(r, [NoCall EXCEPT !.step = "listing", !.verb = status, !.grant = grant[r]])
ListProposals(r) ==
  /\ Call(r).step = "listing"
  /\ AnswersCall(r, {i \in Listing(Call(r).verb) : Admits(versions[i], acl, r, Call(r).grant)})

\* getProposal: the pending row with its access list first, then the grant; masked fields are
\* left out and named.
LoadProposal(r, i) ==
  /\ Call(r).step = "idle" /\ versions[i].status = "pending"
  /\ Moves(r, [NoCall EXCEPT !.step = "loaded", !.verb = "proposal", !.from = i, !.row = [data |-> versions[i].data, list |-> acl]])

\* The value of a masked field is withheld and the field is named.
Reviewed(data, g) == [values |-> [f \in Readable(g) \ MaskedFor(g) |-> data[f]],
                      masked |-> Readable(g) \cap MaskedFor(g)]

GetProposal(r) ==
  LET c == Call(r)  g == grant[r] IN
  /\ c.step = "loaded"
  /\ IF g = None THEN RefusesCall(r)
     ELSE IF {"read", "approve"} \subseteq g.verbs /\ Admits(c.row, c.row.list, r, g)
     THEN Moves(r, [c EXCEPT !.step = "answered", !.grant = g, !.out = Reviewed(c.row.data, g)])
     ELSE RefusesCall(r)

Close(r) == Call(r).step = "answered" /\ RefusesCall(r)

AskedStatuses == {"pending", "approved", "rejected"}
HistNext ==
  \/ Create \/ Revise \/ Propose \/ SetList \/ SetGrant
  \/ \E i \in DOMAIN versions : Approve(i) \/ Reject(i)
  \/ \E r \in Readers :
       \/ OpenHistory(r, "list", 1, 1)
       \/ \E i \in DOMAIN versions : OpenHistory(r, "get", i, i) \/ LoadProposal(r, i)
       \/ \E i, j \in DOMAIN versions : i < j /\ OpenHistory(r, "diff", i, j)
       \/ \E s \in AskedStatuses : OpenProposals(r, s)
       \/ CheckDocument(r) \/ ListRevisions(r) \/ GetRevision(r) \/ DiffRevisions(r) \/ ListProposals(r) \/ GetProposal(r) \/ Close(r)

HistSpec == HistInit /\ [][HistNext]_histVars

---------------------------------------------------------------------------
(* Properties *)

HistTypeOK ==
  /\ Len(versions) <= MaxRevs /\ Cardinality(Currents) <= 1
  /\ \A i \in DOMAIN versions : versions[i].data \in [DataColumns -> CellValues] /\ versions[i].fields \subseteq DataColumns
  /\ acl # None => acl \subseteq Readers
  /\ \A r \in Readers : grant[r] \in Grants \cup {None}
  /\ \A n \in DOMAIN heldStates : heldStates[n] \in DOMAIN versions

Said(r) == Call(r).step = "answered"

\* "History is visible only for a document the grant's document filter and the document's ACL
\* admit RIGHT NOW - not as of the revision" (history.ts:149): what a history read answered
\* belongs to a document that was in the caller's reach at some moment of that call.
InReachMeanwhile == \A r \in Readers :
  Said(r) /\ Call(r).verb \in {"list", "get", "diff"} => Call(r).reached

\* A denied field is absent, by value and by name, and a masked one is never raw, in every
\* answer of the three history reads and of a proposal.
NothingBeyondTheGrant == \A r \in Readers : Said(r) =>
  LET c == Call(r)  g == c.grant IN
  CASE c.verb = "list" -> \A k \in DOMAIN c.out : c.out[k].fields \subseteq g.fields
    [] c.verb = "get" -> /\ DOMAIN c.out \subseteq g.fields
                         /\ \A f \in DOMAIN c.out \cap MaskedFor(g) : c.out[f] = Hides[versions[c.from].data[f]]
    [] c.verb = "diff" -> \A f \in c.out : f \in MaskedFor(g) => Hides[versions[c.from].data[f]] # Hides[versions[c.to].data[f]]
    [] c.verb = "proposal" -> /\ DOMAIN c.out.values \subseteq g.fields \ MaskedFor(g)
                              /\ c.out.masked \subseteq g.fields
    [] OTHER -> TRUE

\* "The history is one entry per approval with a contiguous sequence" (docs/architecture.md:427):
\* the approved entries of a listing are the states the document held, in order, numbered from 1.
OneEntryPerState == \A r \in Readers : Said(r) /\ Call(r).verb = "list" =>
  LET out == Call(r).out
      approved == {k \in DOMAIN out : out[k].status = "approved"}
  IN \A k \in approved : LET n == Cardinality({j \in approved : j <= k}) IN
       n \in DOMAIN heldStates /\ out[k].rev = heldStates[n] /\ out[k].seq = n

\* Each proposal is in the listing of its fate and in no other, once, and no revision that is
\* not a proposal is in any of them.
EachProposalFiled == \A s \in AskedStatuses :
  Listing(s) = {fate[k].rev : k \in {k \in DOMAIN fate : fate[k].is = s}}

\* A reviewer can tell a field that a proposal leaves alone from one he may not see: of the
\* fields it touches, those in his grant are answered or named as withheld.
WithheldIsNamed == \A r \in Readers : Said(r) /\ Call(r).verb = "proposal" =>
  LET c == Call(r) IN
  /\ versions[c.from].fields \cap c.grant.fields \subseteq DOMAIN c.out.values \cup c.out.masked
  /\ \A f \in DOMAIN c.out.values : c.out.values[f] = versions[c.from].data[f]

\* A diff names the fields that moved between its two revisions and no other, as far as the
\* grant goes: writes that commit meanwhile do not touch it.
DiffTellsWhatMoved == \A r \in Readers : Said(r) /\ Call(r).verb = "diff" =>
  LET c == Call(r)  moved == {f \in DataColumns : versions[c.from].data[f] # versions[c.to].data[f]} IN
  c.out \subseteq moved /\ (moved \cap c.grant.fields) \ MaskedFor(c.grant) \subseteq c.out

\* "Pending content is invisible to everyone - including its own author - until a human approves
\* it" (README.md:167).  NOT KEPT: a history read answers every row that is not superseded.
PendingIsInvisible == \A r \in Readers :
  Said(r) /\ Call(r).verb = "get" => versions[Call(r).from].status \notin {"pending", "rejected"}

\* The promises of the history reads, together: while documents, lists and grants change, a
\* listing, a revision, a diff and a proposal tell what happened, and no more than the grant admits.
HistoryCorrect ==
  /\ HistTypeOK /\ InReachMeanwhile /\ NothingBeyondTheGrant /\ OneEntryPerState
  /\ EachProposalFiled /\ WithheldIsNamed /\ DiffTellsWhatMoved
=============================================================================
