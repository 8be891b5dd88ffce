----------------------------- MODULE MCMembers -----------------------------
(***************************************************************************)
(* A small instance of Members: two admins, one of whom the identity       *)
(* provider and an admin have put in a group, and somebody who has yet to  *)
(* sign up.                                                                *)
(***************************************************************************)
EXTENDS Members, TLC

CONSTANTS ann, mo, joiner, g

TwoAdminsOneNew == ann :> "admin" @@ mo :> "admin" @@ joiner :> None
Both == {<<mo, g, "sso">>, <<mo, g, "manual">>}

\* Requests are alike.
Alike == Permutations(Requests)
=============================================================================
