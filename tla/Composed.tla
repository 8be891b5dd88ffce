------------------------------ MODULE Composed ------------------------------
(***************************************************************************)
(* What one document shows of another collection: a relation, expanded at  *)
(* query time over the target's view (sql/build.ts), and a view_join, that *)
(* the host's view resolves against the target's table (apply/ddl.ts),     *)
(* while the documents on both sides are written, proposed, decided,       *)
(* deleted and restricted.                                                 *)
(*                                                                         *)
(* A document of either collection has a value and a reference to a        *)
(* document of the other.  The tables hold revisions; `documents` is what  *)
(* has been approved, which is what a reader is promised.                  *)
(***************************************************************************)
EXTENDS Naturals, Sequences, FiniteSets, Ordering, Absent

CONSTANTS
  Documents,    \* <<collection, workspace, id>>: the documents of both collections
  ContentsOf,   \* of a document: the contents it may have; a value is a number, to be ordered by
  Readers,      \* the principal sets of the callers
  Lists,        \* the access lists that are set
  Subfields,    \* the relation's `select`: "value" and "ref" -> [read, transform]
  Limit,        \* of the to-many relation
  Managers,     \* the callers of the access list's verbs
  WithAcl,      \* the collections that declare `acl: true`
  MaxWrites     \* BOUND

Ends == {"host", "target"}
Spaces == {k[2] : k \in Documents}
Ids == {k[3] : k \in Documents}
AclCalls == [key : Documents, principals : Lists, at : {"gated", "stored", "unrecorded"}]

ASSUME ComposedAssumption ==
  /\ Limit \in Nat \ {0} /\ MaxWrites \in Nat
  /\ Documents \subseteq Ends \X Spaces \X Ids
  /\ \A k \in Documents : ContentsOf[k] \subseteq [value : Nat, ref : Ids \cup {None}]
  /\ DOMAIN Subfields \subseteq {"value", "ref"}
  /\ None \notin Ids \cup AclCalls \cup [value : Nat, ref : Ids \cup {None}]

VARIABLES
  revisions,   \* host, target -> the rows of the table
  restricted,  \* <<collection, workspace, id>> -> the principals of its ACL; {} without one
  documents,   \* <<collection, workspace, id>> -> what is approved; None when there is none
  standing,    \* the managers whose role, or client policy, lets them manage a list
  asked,       \* what each manager's call to setDocumentAcl has come to
  trail,       \* the audit rows of those calls
  writes

aclVars == <<standing, asked, trail>>
composedVars == <<revisions, restricted, documents, aclVars, writes>>

---------------------------------------------------------------------------
(* Reading *)

\* datasetViewDDL: the current revision of the workspace's documents that are not deleted.
ViewRows(c, s) == {r \in revisions[c] : r.space = s /\ r.current /\ r.op # "delete"}

\* aclPredicate: no list, or one that shares a principal with the caller.
Admitted(c, r, reader) ==
  LET acl == restricted[<<c, r.space, r.id>>] IN acl = {} \/ acl \cap reader # {}

\* relationExpr: a sub-field is masked only when it is declared masked and has a transform.
Exposed(row) ==
  [f \in DOMAIN Subfields |->
     IF Subfields[f].read = "mask" /\ Subfields[f].transform # None THEN Subfields[f].transform ELSE row[f]]

\* relationExpr, the to-one form: one document of the target's view, or null.
ToOne(h, s, reader) ==
  LET found == {t \in ViewRows("target", s) : t.id = h.ref /\ Admitted("target", t, reader)}
  IN IF found = {} THEN None ELSE Exposed(CHOOSE t \in found : TRUE)

\* order by (here the value, the largest first), then the limit: what ties may come in any order.
FirstOf(S) ==
  {[n \in 1 .. (IF Cardinality(S) > Limit THEN Limit ELSE Cardinality(S)) |-> e[n]] :
     e \in {x \in Enumerations(S) : \A m, n \in 1 .. Cardinality(S) : m < n => x[m].value >= x[n].value}}

\* Mutant: the limit is applied before the target's ACL.
RankedThenFiltered(h, s, reader) ==
  {SelectSeq(list, LAMBDA t : Admitted("target", t, reader)) : list \in FirstOf({t \in ViewRows("target", s) : t.ref = h.id})}

\* relationExpr, the to-many form: the arrays that the subquery may give.
ToMany(h, s, reader) == FirstOf({t \in ViewRows("target", s) : t.ref = h.id /\ Admitted("target", t, reader)})

\* datasetViewDDL: `left join <table> on <table>.id = base.<on>`, every revision of every workspace.
JoinedTo(h) ==
  LET found == {t \in revisions["target"] : t.id = h.ref}
  IN IF found = {} THEN {None} ELSE {t.value : t \in found}

---------------------------------------------------------------------------
(* Writing *)

RowsOf(k) == {r \in revisions[k[1]] : r.space = k[2] /\ r.id = k[3]}

RevisionOf(k, content, status, op, current) ==
  [space |-> k[2], id |-> k[3], value |-> content.value, ref |-> content.ref, status |-> status,
   op |-> op, current |-> current, seq |-> Cardinality(RowsOf(k)) + 1]
Outdated(rows, k) ==
  {IF r.space = k[2] /\ r.id = k[3] THEN [r EXCEPT !.current = FALSE] ELSE r : r \in rows}
Appended(rows, k, row) == [revisions EXCEPT ![k[1]] = rows \cup {row}]

OneMoreWrite == /\ writes < MaxWrites /\ writes' = writes + 1

\* A create or an update: the new revision is the current one.
PutDocument(k, content) ==
  /\ OneMoreWrite
  /\ revisions' = Appended(Outdated(revisions[k[1]], k), k,
                           RevisionOf(k, content, "approved", IF documents[k] = None THEN "create" ELSE "update", TRUE))
  /\ documents' = [documents EXCEPT ![k] = content]
  /\ UNCHANGED <<restricted, aclVars>>

\* A deletion appends a tombstone, which is current.
DeleteDocument(k) ==
  /\ OneMoreWrite
  /\ documents[k] # None
  /\ revisions' = Appended(Outdated(revisions[k[1]], k), k, RevisionOf(k, documents[k], "approved", "delete", TRUE))
  /\ documents' = [documents EXCEPT ![k] = None]
  /\ UNCHANGED <<restricted, aclVars>>

\* A proposal waits in the table, and is not current.
ProposeChange(k, content) ==
  /\ OneMoreWrite
  /\ documents[k] # None /\ content # documents[k]
  /\ revisions' = Appended(revisions[k[1]], k, RevisionOf(k, content, "pending", "update", FALSE))
  /\ UNCHANGED <<restricted, documents, aclVars>>

\* An approval appends the merged revision and marks the proposal superseded.
ApproveChange(k, p) ==
  /\ OneMoreWrite
  /\ p \in RowsOf(k) /\ p.status = "pending" /\ documents[k] # None
  /\ LET content == [value |-> p.value, ref |-> p.ref]
         rows == (Outdated(revisions[k[1]], k) \ {p}) \cup {[p EXCEPT !.status = "superseded"]}
     IN /\ revisions' = Appended(rows, k, RevisionOf(k, content, "approved", "update", TRUE))
        /\ documents' = [documents EXCEPT ![k] = content]
  /\ UNCHANGED <<restricted, aclVars>>

RejectChange(k, p) ==
  /\ OneMoreWrite
  /\ p \in RowsOf(k) /\ p.status = "pending"
  /\ revisions' = [revisions EXCEPT ![k[1]] = (@ \ {p}) \cup {[p EXCEPT !.status = "rejected"]}]
  /\ UNCHANGED <<restricted, documents, aclVars>>

---------------------------------------------------------------------------
(* The verbs of a document's access list *)

Asking(k, principals, at) == [key |-> k, principals |-> principals, at |-> at]

\* gate: the collection has lists, and the caller may manage them, as it stands now.
Gate(m, k) == k[1] \in WithAcl /\ m \in standing

\* A call that the gate refuses changes nothing.
AskAcl(m, k, principals) ==
  /\ OneMoreWrite
  /\ asked[m] = None /\ Gate(m, k)
  /\ asked' = [asked EXCEPT ![m] = Asking(k, principals, "gated")]
  /\ UNCHANGED <<revisions, restricted, documents, standing, trail>>

\* An empty list deletes the row; any other replaces it.
StoreAcl(m) ==
  /\ asked[m] # None /\ asked[m].at = "gated"
  /\ restricted' = [restricted EXCEPT ![asked[m].key] = asked[m].principals]
  /\ asked' = [asked EXCEPT ![m].at = "stored"]
  /\ UNCHANGED <<revisions, documents, standing, trail, writes>>

RecordAcl(m) ==
  /\ asked[m] # None /\ asked[m].at = "stored"
  /\ trail' = trail \cup {[key |-> asked[m].key, principals |-> asked[m].principals]}
  /\ asked' = [asked EXCEPT ![m] = None]
  /\ UNCHANGED <<revisions, restricted, documents, standing, writes>>

\* The row cannot be written: the caller is refused, and the list stays as it was stored.
AuditOfAclFails(m) ==
  /\ asked[m] # None /\ asked[m].at = "stored"
  /\ asked' = [asked EXCEPT ![m].at = "unrecorded"]
  /\ UNCHANGED <<revisions, restricted, documents, standing, trail, writes>>

\* Another admin takes the role, or the policy's flag, away.
LoseStanding(m) ==
  /\ m \in standing /\ standing' = standing \ {m}
  /\ UNCHANGED <<revisions, restricted, documents, asked, trail, writes>>

ComposedInit ==
  /\ revisions = [c \in Ends |-> {}]
  /\ restricted = [k \in Documents |-> {}]
  /\ documents = [k \in Documents |-> None]
  /\ standing = Managers
  /\ asked = [m \in Managers |-> None]
  /\ trail = {}
  /\ writes = 0

ComposedNext ==
  \/ \E k \in Documents :
       \/ \E content \in ContentsOf[k] : PutDocument(k, content) \/ ProposeChange(k, content)
       \/ DeleteDocument(k)
       \/ \E p \in RowsOf(k) : ApproveChange(k, p) \/ RejectChange(k, p)
       \/ \E m \in Managers, principals \in Lists : AskAcl(m, k, principals)
  \/ \E m \in Managers : StoreAcl(m) \/ RecordAcl(m) \/ AuditOfAclFails(m) \/ LoseStanding(m)

ComposedSpec == ComposedInit /\ [][ComposedNext]_composedVars

---------------------------------------------------------------------------
(* What a reader is promised *)

ComposedTypeOK ==
  /\ revisions \in [Ends -> SUBSET [space : Spaces, id : Ids, value : Nat, ref : Ids \cup {None},
                                      status : {"approved", "pending", "rejected", "superseded"},
                                      op : {"create", "update", "delete"}, current : BOOLEAN, seq : 1..MaxWrites]]
  /\ restricted \in [Documents -> Lists \cup {{}}]
  /\ \A k \in Documents : documents[k] \in ContentsOf[k] \cup {None}
  /\ standing \subseteq Managers
  /\ \A m \in Managers : asked[m] # None => asked[m] \in AclCalls
  /\ trail \subseteq [key : Documents, principals : Lists]

Approved(k) == IF k \in Documents THEN documents[k] ELSE None
Seen(k, reader) == Approved(k) # None /\ (restricted[k] = {} \/ restricted[k] \cap reader # {})

(* relationExpr's "whole safety argument": whatever revisions the target has,
   proposed, refused or replaced, and in whichever workspace, a to-one relation
   is the approved document the host refers to, or null when there is none or
   its own ACL does not admit the reader. *)
RelationIsTheDocument ==
  \A s \in Spaces, reader \in Readers : \A h \in ViewRows("host", s) :
      LET k == <<"target", s, h.ref>> IN
      ToOne(h, s, reader) = IF h.ref = None THEN None
                            ELSE IF Seen(k, reader) THEN Exposed(documents[k]) ELSE None

(* "A document the caller cannot see is absent from the array without shortening
   anything else": a to-many relation is cut only after the target's ACL, so it
   holds the first of what the reader may see, and as many as the limit allows. *)
ListIsTheFirst ==
  \A s \in Spaces, reader \in Readers : \A h \in ViewRows("host", s) : \A list \in ToMany(h, s, reader) :
    LET seen == {i \in Ids : Seen(<<"target", s, i>>, reader) /\ documents[<<"target", s, i>>].ref = h.id}
        shown == {list[n].id : n \in DOMAIN list}
    IN /\ shown \subseteq seen
       /\ Len(list) = Cardinality(shown)
       /\ Len(list) = IF Cardinality(seen) > Limit THEN Limit ELSE Cardinality(seen)
       /\ \A i \in shown, j \in seen \ shown :
            documents[<<"target", s, i>>].value >= documents[<<"target", s, j>>].value

(* A host document comes back once, with the approved content, however many
   revisions it and its targets have; this is the view without a view_join. *)
HostOnce ==
  \A s \in Spaces, i \in Ids :
    {[value |-> h.value, ref |-> h.ref] : h \in {r \in ViewRows("host", s) : r.id = i}}
      = {Approved(<<"host", s, i>>)} \ {None}

(* setDocumentAcl: whoever overlaps and whatever fails, a list that is in force
   is in the audit trail, or its caller was not told that it is. *)
ListsAreRecorded ==
  \A k \in Documents :
    restricted[k] # {} =>
      \/ [key |-> k, principals |-> restricted[k]] \in trail
      \/ \E m \in Managers : IF asked[m] = None THEN FALSE
                             ELSE /\ asked[m].key = k /\ asked[m].principals = restricted[k]
                                  /\ asked[m].at \in {"stored", "unrecorded"}

(* datasetViewDDL's comment: "Pending revisions never appear — unapproved agent
   output cannot leak into an ordinary query".  What a view_join shows is the
   approved value of the document it refers to, or null.  NOT KEPT: the join
   reads the target's table, so it shows every revision. *)
JoinedIsApproved ==
  \A s \in Spaces : \A h \in ViewRows("host", s) :
    \A v \in JoinedTo(h) :
      v = IF h.ref = None THEN None
          ELSE IF Approved(<<"target", s, h.ref>>) = None THEN None ELSE documents[<<"target", s, h.ref>>].value

\* The promises about what is read through a relation, together, and about the lists behind it.
ComposedCorrect ==
  /\ ComposedTypeOK /\ RelationIsTheDocument /\ ListIsTheFirst /\ HostOnce /\ ListsAreRecorded
=============================================================================
