---------------------------- MODULE MCFileIndex ----------------------------
(***************************************************************************)
(* Small instances of FileIndex.                                           *)
(***************************************************************************)
EXTENDS FileIndex, TLC

CONSTANTS short, long, u1

\* The first two versions have one text, the third has another; one cannot be stored.
Extracted == [v \in Versions |-> IF v < 3 THEN short ELSE long]
Pieces == [t \in Texts |-> IF t = short THEN 1 ELSE 2]

Two == u1 :> ((1 :> 3) @@ (2 :> 1))
=============================================================================
