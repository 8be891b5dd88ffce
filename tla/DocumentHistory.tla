--------------------------- MODULE DocumentHistory ---------------------------
(***************************************************************************)
(* What the revision store promises of a document: a history of complete   *)
(* states that only grows.  Each state says which fields it sets and       *)
(* carries every other field forward from the state before it.             *)
(***************************************************************************)
EXTENDS Naturals, Sequences, SequencesExt

CONSTANTS
  Docs, Fields, Null,
  MaxBatch      \* the most states one transaction adds

VARIABLE hist   \* hist[d]: the states of document d, oldest first

Init == hist = [d \in Docs |-> <<>>]

\* Entry n of h continues the history: its fields on top of the entry before.
Continues(h, n) ==
  /\ (h[n].op = "create") <=> (n = 1)
  /\ \A f \in DOMAIN h[n].data \ h[n].fields :
       h[n].data[f] = IF n = 1 THEN Null ELSE h[n - 1].data[f]

\* One transaction commits: some histories grow, none is rewritten.
Grows(old, new) ==
  /\ Len(new) <= Len(old) + MaxBatch
  /\ IsPrefix(old, new)
  /\ \A n \in Len(old) + 1 .. Len(new) : Continues(new, n)

Next ==
  /\ DOMAIN hist' = Docs
  /\ \A d \in Docs : Grows(hist[d], hist'[d])

Spec == Init /\ [][Next]_hist
=============================================================================
