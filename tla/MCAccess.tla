------------------------------ MODULE MCAccess ------------------------------
(***************************************************************************)
(* A small instance of Access: an admin, and a manager who belongs to a    *)
(* group that holds a grant.                                               *)
(***************************************************************************)
EXTENDS Access, TLC

CONSTANTS ann, mo, g

\* ann runs the workspace; mo belongs to it, and to the group.
AdminAndManager == ann :> "admin" @@ mo :> "manager"
InGroup == {<<mo, g, "manual">>}

\* What has been asked for by mo, for mo or for the group, and what ann made of it.
Row(p, F, status, until) ==
  [user |-> mo, principal |-> p, env |-> "live", asked |-> F, fields |-> F, status |-> status,
   expires |-> until, decider |-> IF status = "pending" THEN None ELSE ann]

\* The group reads everything, and mo has asked for less; or it does until 1, and has asked
\* for less again.
SomeGrants ==
  {<<Row(g, Fields, "approved", x[1]), Row(x[2], {CHOOSE f \in Fields : TRUE}, "pending", None)>> :
     x \in {<<None, mo>>, <<1, g>>}}

\* Decisions are alike.
Alike == Permutations(Deciders)
=============================================================================
