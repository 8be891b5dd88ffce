----------------------------- MODULE MCRevisions -----------------------------
(***************************************************************************)
(* Small instances of Revisions: one document of two columns, a direct     *)
(* writer who may also approve, a proposer, and an approver whose grant    *)
(* filters on the second column.                                           *)
(***************************************************************************)
EXTENDS RevisionsProofs, TLC

CONSTANTS writer, proposer, approver, title, state, val

\* BOUND: the submitted value maps: a column at a time, and none.
SetTitle == title :> val
SetState == state :> val
ClearTitle == title :> Null
TwoPatches == {NoValues, SetTitle, SetState}
Columns == {SetTitle, SetState, ClearTitle}
OnePatch == {NoValues, SetTitle}

\* Everyone reads both columns.
MCAllowed == [u \in Users |-> Fields]

\* The filter of the approver and of nobody else: one column may be set, not both.
MCReach ==
  [u \in Users |-> IF u = approver THEN {x \in Document : x[title] = Null \/ x[state] = Null}
                   ELSE Document]

\* Who calls what in each run.
WriterDecides ==
  [u \in Users |-> {"update"} \cup IF u = proposer THEN {} ELSE {"create", "revert", "decide"}]
AllDecide ==
  [u \in Users |-> {"update", "delete", "decide"} \cup IF u = proposer THEN {"create"} ELSE {}]
ProposeOrDecide == [u \in Users |-> IF u = proposer THEN {"create", "update"} ELSE {"decide"}]

Symmetric == Permutations(Sessions)
=============================================================================
