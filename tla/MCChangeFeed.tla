---------------------------- MODULE MCChangeFeed ----------------------------
(***************************************************************************)
(* Small instances of ChangeFeed.  The configurations give the constants;  *)
(* the writers of one kind are interchangeable.                            *)
(***************************************************************************)
EXTENDS ChangeFeed, TLC

Symmetric == Permutations(Mutators) \cup Permutations(Importers)
=============================================================================
