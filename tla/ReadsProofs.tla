------------------------------ MODULE ReadsProofs ------------------------------
(***************************************************************************)
(* Theorems about the reads: for any rows, any readers and any number of   *)
(* turns, what the history of a document and its proposals answer; and for *)
(* any documents, grants and intents, what a query, a batch, a search, a   *)
(* read by key and an explanation answer while others write.               *)
(***************************************************************************)
EXTENDS History, Query, FiniteSetTheorems, FunctionTheorems, SequenceTheorems, TLAPS

\* An order that tells any two members of a set apart, as the members before each.
Orders(S, before) ==
  /\ before \in [S -> SUBSET S]
  /\ \A x \in S : x \notin before[x]
  /\ \A x, y \in S : x # y => x \in before[y] \/ y \in before[x]
  /\ \A x, y \in S : x \in before[y] => before[x] \subseteq before[y]

\* Ordering puts every member of the set at one place, those before it at the places before.
LEMMA SortedByProperties ==
  ASSUME NEW S, IsFiniteSet(S), NEW before, Orders(S, before)
  PROVE  /\ Cardinality(S) \in Nat
         /\ SortedBy(S, before) \in [1 .. Cardinality(S) -> S]
         /\ \A x \in S : \E n \in 1 .. Cardinality(S) : SortedBy(S, before)[n] = x
         /\ \A m, n \in 1 .. Cardinality(S) : m < n => SortedBy(S, before)[m] \in before[SortedBy(S, before)[n]]
  <1> DEFINE N == Cardinality(S)
             s == SortedBy(S, before)
             place == [x \in S |-> Cardinality(before[x]) + 1]
  <1>1. N \in Nat /\ IsFiniteSet(1 .. N) /\ Cardinality(1 .. N) = N
    BY FS_CardinalityType, FS_Interval
  <1>2. \A x \in S : IsFiniteSet(before[x]) /\ Cardinality(before[x]) \in Nat /\ Cardinality(before[x]) < N
    <2> TAKE x \in S
    <2>1. before[x] \subseteq S /\ x \notin before[x]
      BY DEF Orders
    <2>2. IsFiniteSet(before[x]) /\ Cardinality(before[x]) <= N /\ (N = Cardinality(before[x]) => S = before[x])
      BY <2>1, FS_Subset
    <2>3. Cardinality(before[x]) \in Nat
      BY <2>2, FS_CardinalityType
    <2> QED BY <1>1, <2>1, <2>2, <2>3
  <1>3. \A x, y \in S : x \in before[y] => place[x] < place[y]
    <2> TAKE x, y \in S
    <2> HAVE x \in before[y]
    <2>1. before[x] \subseteq before[y] /\ x \notin before[x]
      BY DEF Orders
    <2>2. Cardinality(before[x]) <= Cardinality(before[y])
          /\ (Cardinality(before[y]) = Cardinality(before[x]) => before[y] = before[x])
      BY <1>2, <2>1, FS_Subset
    <2> QED BY <1>2, <2>1, <2>2
  <1>4. place \in [S -> 1 .. N]
    BY <1>1, <1>2
  <1> HIDE DEF place
  <1>5. place \in Injection(S, 1 .. N)
    <2>1. ASSUME NEW x \in S, NEW y \in S, place[x] = place[y]
          PROVE  x = y
      <3>1. place[x] \in Nat /\ place[y] \in Nat
        BY <1>1, <1>4
      <3>2. ~(place[x] < place[y]) /\ ~(place[y] < place[x])
        BY <2>1, <3>1
      <3> QED BY <1>3, <3>2 DEF Orders
    <2> QED BY <1>4, <2>1, Fun_IsInj
  <1>6. place \in Surjection(S, 1 .. N)
    BY <1>1, <1>5, FS_Injection
  <1>7. \A n \in 1 .. N : s[n] \in S /\ place[s[n]] = n
    <2> TAKE n \in 1 .. N
    <2>1. \E x \in S : place[x] = n
      BY <1>6 DEF Surjection
    <2>2. \E x \in S : Cardinality(before[x]) = n - 1
      BY <1>1, <1>2, <2>1 DEF place
    <2>3. s[n] \in S /\ Cardinality(before[s[n]]) = n - 1
      BY <2>2 DEF SortedBy
    <2> QED BY <1>1, <1>2, <2>3 DEF place
  <1>8. s \in [1 .. N -> S]
    BY <1>7 DEF SortedBy
  <1>9. \A x \in S : place[x] \in 1 .. N /\ s[place[x]] = x
    <2> TAKE x \in S
    <2>1. place[x] \in 1 .. N
      BY <1>4
    <2>2. s[place[x]] \in S /\ place[s[place[x]]] = place[x]
      BY <1>7, <2>1
    <2> QED BY <1>5, <2>1, <2>2, Fun_InjectionProperties
  <1>10. ASSUME NEW m \in 1 .. N, NEW n \in 1 .. N, m < n
         PROVE  s[m] \in before[s[n]]
    <2>1. s[m] \in S /\ s[n] \in S /\ place[s[m]] = m /\ place[s[n]] = n
      BY <1>7
    <2>2. s[m] # s[n] /\ ~(place[s[n]] < place[s[m]])
      BY <1>1, <1>10, <2>1
    <2> QED BY <1>3, <2>1, <2>2 DEF Orders
  <1> HIDE DEF s
  <1> QED BY <1>1, <1>8, <1>9, <1>10 DEF s

---------------------------------------------------------------------------
(* History: the inductive invariant *)

Row == [op : {"create", "update", "delete"}, status : {"pending", "approved", "rejected", "superseded"},
        fields : SUBSET DataColumns, base : Nat, data : [DataColumns -> CellValues], seq : Nat, current : BOOLEAN]

\* The approved rows are the states that the document has held, numbered as it held them, and the
\* last of them is the current one.
StatesKept(rows, states) ==
  /\ \A n \in DOMAIN states :
       /\ states[n] \in DOMAIN rows /\ rows[states[n]].status = "approved"
       /\ rows[states[n]].seq = n /\ (rows[states[n]].current <=> n = Len(states))
  /\ \A i \in DOMAIN rows :
       /\ rows[i].status = "approved" => rows[i].seq \in DOMAIN states /\ states[rows[i].seq] = i
       /\ rows[i].current => rows[i].status = "approved"

\* What became of a proposal is in its status.
FatesKept(rows, fates) ==
  /\ \A k \in DOMAIN fates :
       /\ fates[k].is \in AskedStatuses /\ fates[k].rev \in DOMAIN rows
       /\ rows[fates[k].rev].status = StoredStatus(fates[k].is)
  /\ \A i \in DOMAIN rows : rows[i].status # "approved" => \E k \in DOMAIN fates : fates[k].rev = i

TableOK ==
  /\ versions \in Seq(Row) /\ Len(versions) <= MaxRevs
  /\ heldStates \in Seq(Nat) /\ fate \in Seq([rev : Nat, is : AskedStatuses])
  /\ StatesKept(versions, heldStates) /\ FatesKept(versions, fate)

\* The approved entries of a listing are the first states, in order.
OneEntry(out, states) ==
  LET approved == {k \in DOMAIN out : out[k].status = "approved"}
  IN \A k \in approved : LET n == Cardinality({j \in approved : j <= k}) IN
       n \in DOMAIN states /\ out[k].rev = states[n] /\ out[k].seq = n

\* What each verb answers, of the rows that it names.
AnswerFits(c, rows, states) ==
  /\ c.verb = "list" => OneEntry(c.out, states) /\ \A k \in DOMAIN c.out : c.out[k].fields \subseteq c.grant.fields
  /\ c.verb \in {"get", "diff", "proposal"} => c.from \in DOMAIN rows
  /\ c.verb = "get" => c.out = Projected(rows[c.from], c.grant)
  /\ c.verb = "diff" => c.to \in DOMAIN rows /\ c.out = Moved(rows[c.from], rows[c.to], c.grant)
  /\ c.verb = "proposal" => c.out = Reviewed(rows[c.from].data, c.grant)

HistoryVerbs == {"list", "get", "diff"}

\* A call that is past the check had its document in reach, and what it holds is of its document.
ReadFits(c, rows, states) ==
  /\ c.step \in {"idle", "opened", "admitted", "listing", "loaded", "answered"}
  /\ c.step \in {"opened", "admitted"} => c.grant # None /\ c.verb \in HistoryVerbs
  /\ c.step \in {"admitted", "answered"} /\ c.verb \in HistoryVerbs => c.reached
  /\ c.step = "listing" => c.verb \in AskedStatuses
  /\ c.step = "loaded" => c.verb = "proposal" /\ c.from \in DOMAIN rows /\ c.row.data = rows[c.from].data
  /\ c.step = "answered" => AnswerFits(c, rows, states)

CallWith(step, verb, from, to, g, row, out) ==
  [step : {step}, verb : {verb}, from : {from}, to : {to}, grant : {g}, row : {row}, reached : BOOLEAN, out : {out}]
IsCall(c) == c \in CallWith(c.step, c.verb, c.from, c.to, c.grant, c.row, c.out)

HistInv ==
  /\ TableOK
  /\ acl # None => acl \subseteq Readers
  /\ grant \in [Readers -> Grants \cup {None}]
  /\ DOMAIN reading = Readers /\ reading = [r \in Readers |-> reading[r]]
  /\ \A r \in Readers : IsCall(reading[r]) /\ ReadFits(reading[r], versions, heldStates)

---------------------------------------------------------------------------
(* History: what a call holds stays so *)

\* Rows are added, and of those there are only the status and the mark of the current one change.
Grown(rows, states, rows2, states2) ==
  /\ DOMAIN rows \subseteq DOMAIN rows2
  /\ \A i \in DOMAIN rows : rows2[i].data = rows[i].data
  /\ DOMAIN states \subseteq DOMAIN states2
  /\ \A n \in DOMAIN states : states2[n] = states[n]

\* The same call, perhaps one whose document has come into reach.
SameRead(c, d) ==
  /\ d.step = c.step /\ d.verb = c.verb /\ d.from = c.from /\ d.to = c.to /\ d.grant = c.grant
  /\ d.row = c.row /\ d.out = c.out /\ (c.reached => d.reached)

LEMMA ReadStillFits ==
  ASSUME NEW c, NEW d, NEW rows, NEW states, NEW rows2, NEW states2,
         ReadFits(c, rows, states), SameRead(c, d), Grown(rows, states, rows2, states2)
  PROVE  ReadFits(d, rows2, states2)
  <1>1. c.step = "answered" => AnswerFits(d, rows2, states2)
    <2> SUFFICES ASSUME AnswerFits(c, rows, states)
                 PROVE  AnswerFits(d, rows2, states2)
      BY DEF ReadFits
    <2>1. OneEntry(c.out, states) => OneEntry(c.out, states2)
      BY DEF Grown, OneEntry
    <2>2. \A i \in DOMAIN rows : /\ Projected(rows2[i], c.grant) = Projected(rows[i], c.grant)
                                 /\ Reviewed(rows2[i].data, c.grant) = Reviewed(rows[i].data, c.grant)
      BY DEF Grown, Projected, Reviewed
    <2>3. \A i, j \in DOMAIN rows : Moved(rows2[i], rows2[j], c.grant) = Moved(rows[i], rows[j], c.grant)
      BY <2>2 DEF Moved
    <2> QED BY <2>1, <2>2, <2>3 DEF AnswerFits, SameRead, Grown
  <1> QED BY <1>1 DEF ReadFits, SameRead, Grown

LEMMA WatchedIsSame ==
  ASSUME NEW calls, NEW rows, NEW list, \A r \in Readers : IsCall(calls[r])
  PROVE  /\ DOMAIN Watched(calls, rows, list) = Readers
         /\ Watched(calls, rows, list) = [r \in Readers |-> Watched(calls, rows, list)[r]]
         /\ \A r \in Readers :
              /\ IsCall(Watched(calls, rows, list)[r]) /\ SameRead(calls[r], Watched(calls, rows, list)[r])
              /\ InReach(r, calls[r].grant, rows, list) => Watched(calls, rows, list)[r].reached
  <1> DEFINE w == Watched(calls, rows, list)
  <1>1. DOMAIN w = Readers /\ w = [r \in Readers |-> w[r]]
    BY DEF Watched
  <1>2. ASSUME NEW r \in Readers
        PROVE  IsCall(w[r]) /\ SameRead(calls[r], w[r]) /\ (InReach(r, calls[r].grant, rows, list) => w[r].reached)
    <2>1. InReach(r, calls[r].grant, rows, list) \in BOOLEAN
      BY DEF InReach
    <2> DEFINE b == calls[r]
               reached == b.reached \/ InReach(r, b.grant, rows, list)
    <2>2. w[r] = [b EXCEPT !.reached = reached]
      BY DEF Watched
    <2>3. b \in CallWith(b.step, b.verb, b.from, b.to, b.grant, b.row, b.out) /\ reached \in BOOLEAN
      BY <2>1 DEF IsCall, CallWith
    <2>4. b.reached => reached
      OBVIOUS
    <2> HIDE DEF w, b, reached
    <2>5. w[r] \in CallWith(b.step, b.verb, b.from, b.to, b.grant, b.row, b.out) /\ w[r].reached = reached
      BY <2>2, <2>3 DEF CallWith
    <2>6. IsCall(w[r]) /\ SameRead(b, w[r])
      BY <2>4, <2>5 DEF IsCall, CallWith, SameRead
    <2> QED BY <2>5, <2>6 DEF b, reached
  <1> QED BY <1>1, <1>2

\* A write: what it leaves of the table is as it should be, and it only adds to it.
LEMMA WriteKeepsReads ==
  ASSUME HistInv, TableOK', Grown(versions, heldStates, versions', heldStates'), Quiet
  PROVE  HistInv'
  <1>1. ASSUME NEW r \in Readers
        PROVE  IsCall(reading'[r]) /\ ReadFits(reading'[r], versions', heldStates')
    BY <1>1, WatchedIsSame, ReadStillFits DEF HistInv, Quiet
  <1>2. DOMAIN reading' = Readers /\ reading' = [r \in Readers |-> reading'[r]]
    BY WatchedIsSame DEF HistInv, Quiet
  <1> QED BY <1>1, <1>2 DEF HistInv, Quiet

\* A step of a call: nothing but the call changes.
LEMMA CallKeepsReads ==
  ASSUME HistInv, NEW r \in Readers, NEW c, IsCall(c), Moves(r, c),
         \A d : SameRead(c, d) /\ (InReach(r, c.grant, versions, acl) => d.reached)
                  => ReadFits(d, versions, heldStates)
  PROVE  HistInv'
  <1> DEFINE calls == [reading EXCEPT ![r] = c]
  <1>1. \A q \in Readers : IsCall(calls[q])
    BY DEF HistInv
  <1>2. calls[r] = c /\ \A q \in Readers \ {r} : calls[q] = reading[q]
    BY DEF HistInv
  <1>3. reading' = Watched(calls, versions, acl)
    BY DEF Moves
  <1> HIDE DEF calls
  <1>4. Grown(versions, heldStates, versions, heldStates)
    BY DEF Grown
  <1>5. ASSUME NEW q \in Readers
        PROVE  IsCall(reading'[q]) /\ ReadFits(reading'[q], versions, heldStates)
    <2>1. IsCall(reading'[q]) /\ SameRead(calls[q], reading'[q])
          /\ (InReach(q, calls[q].grant, versions, acl) => reading'[q].reached)
      BY <1>1, <1>3, WatchedIsSame
    <2>2. CASE q = r
      BY <1>2, <2>1, <2>2
    <2>3. CASE q # r
      BY <1>2, <1>4, <2>1, <2>3, ReadStillFits DEF HistInv
    <2> QED BY <2>1, <2>2, <2>3
  <1>6. DOMAIN reading' = Readers /\ reading' = [q \in Readers |-> reading'[q]]
    BY <1>1, <1>3, WatchedIsSame
  <1> QED BY <1>5, <1>6 DEF HistInv, TableOK, Moves

LEMMA SameReadItself ==
  ASSUME NEW c, NEW d, NEW rows, NEW states, ReadFits(c, rows, states), SameRead(c, d)
  PROVE  ReadFits(d, rows, states)
  BY ReadStillFits DEF Grown

---------------------------------------------------------------------------
(* History: the writes *)

LEMMA HeldIsLast ==
  ASSUME TableOK
  PROVE  /\ Currents = {} => heldStates = <<>>
         /\ Currents # {} => /\ Held \in DOMAIN versions /\ versions[Held].seq = Len(heldStates)
                             /\ Len(heldStates) \in DOMAIN heldStates /\ Held = heldStates[Len(heldStates)]
         /\ \A i \in Currents : i = heldStates[Len(heldStates)]
  <1>1. \A i \in Currents : versions[i].seq \in DOMAIN heldStates /\ heldStates[versions[i].seq] = i
                            /\ versions[i].seq = Len(heldStates) /\ i \in DOMAIN versions
    BY DEF TableOK, StatesKept, Currents
  <1>2. Currents # {} => Held \in Currents
    BY DEF Held
  <1>3. ASSUME heldStates # <<>>
        PROVE  Currents # {}
    <2>1. Len(heldStates) \in DOMAIN heldStates
      BY <1>3 DEF TableOK
    <2>2. heldStates[Len(heldStates)] \in Currents
      BY <2>1 DEF TableOK, StatesKept, Currents
    <2> QED BY <2>2
  <1> QED BY <1>1, <1>2, <1>3

\* A state that is held: the rows there were keep what they say, perhaps one is retired, none of
\* them is current, and the new one is.
LEMMA StateAppended ==
  ASSUME TableOK, NEW rows \in Seq(Row), Len(rows) = Len(versions), NEW row \in Row, RoomForOne,
         \A j \in DOMAIN versions :
           /\ ~rows[j].current /\ rows[j].seq = versions[j].seq /\ rows[j].data = versions[j].data
           /\ rows[j].status = "approved" <=> versions[j].status = "approved",
         row.status = "approved", row.current, row.seq = Len(heldStates) + 1,
         versions' = Append(rows, row), heldStates' = Append(heldStates, Len(versions'))
  PROVE  /\ versions' \in Seq(Row) /\ Len(versions') <= MaxRevs /\ heldStates' \in Seq(Nat)
         /\ StatesKept(versions', heldStates')
         /\ Grown(versions, heldStates, versions', heldStates')
         /\ \A j \in DOMAIN versions : versions'[j] = rows[j]
         /\ DOMAIN versions' = DOMAIN versions \cup {Len(versions')} /\ versions'[Len(versions')].status = "approved"
  <1> DEFINE v == versions'
             h == heldStates'
             L == Len(versions)
             H == Len(heldStates)
  <1>1. L \in Nat /\ H \in Nat /\ DOMAIN versions = 1 .. L /\ DOMAIN rows = 1 .. L /\ DOMAIN heldStates = 1 .. H
        /\ heldStates \in Seq(Nat)
    BY DEF TableOK
  <1>2. v \in Seq(Row) /\ Len(v) = L + 1 /\ DOMAIN v = 1 .. L + 1 /\ v[L + 1] = row /\ \A j \in 1 .. L : v[j] = rows[j]
    BY <1>1
  <1>3. h = Append(heldStates, L + 1)
    BY <1>2
  <1>4. h \in Seq(Nat) /\ Len(h) = H + 1 /\ DOMAIN h = 1 .. H + 1 /\ h[H + 1] = L + 1
        /\ \A n \in 1 .. H : h[n] = heldStates[n]
    BY <1>1, <1>3
  <1>5. Len(v) <= MaxRevs
    BY <1>1, <1>2, HistoryAssumption DEF RoomForOne
  <1> HIDE DEF v, h
  <1>6. ASSUME NEW n \in DOMAIN h
        PROVE  h[n] \in DOMAIN v /\ v[h[n]].status = "approved" /\ v[h[n]].seq = n /\ (v[h[n]].current <=> n = Len(h))
    <2>1. CASE n = H + 1
      BY <1>1, <1>2, <1>4, <2>1
    <2>2. CASE n # H + 1
      <3>1. n \in 1 .. H /\ h[n] = heldStates[n]
        BY <1>1, <1>4, <2>2
      <3>2. heldStates[n] \in 1 .. L /\ versions[heldStates[n]].status = "approved" /\ versions[heldStates[n]].seq = n
        BY <1>1, <3>1 DEF TableOK, StatesKept
      <3> QED BY <1>1, <1>2, <1>4, <2>2, <3>1, <3>2
    <2> QED BY <2>1, <2>2
  <1>7. ASSUME NEW i \in DOMAIN v
        PROVE  /\ v[i].status = "approved" => v[i].seq \in DOMAIN h /\ h[v[i].seq] = i
               /\ v[i].current => v[i].status = "approved"
    <2>1. CASE i = L + 1
      BY <1>1, <1>2, <1>4, <2>1
    <2>2. CASE i # L + 1
      <3>1. i \in 1 .. L /\ v[i] = rows[i]
        BY <1>1, <1>2, <2>2
      <3>2. versions[i].status = "approved" => versions[i].seq \in 1 .. H /\ heldStates[versions[i].seq] = i
        BY <1>1, <3>1 DEF TableOK, StatesKept
      <3> QED BY <1>1, <1>4, <3>1, <3>2
    <2> QED BY <2>1, <2>2
  <1>8. StatesKept(v, h)
    BY <1>6, <1>7 DEF StatesKept
  <1>9. Grown(versions, heldStates, v, h)
    BY <1>1, <1>2, <1>4 DEF Grown
  <1> QED BY <1>1, <1>2, <1>4, <1>5, <1>8, <1>9 DEF v, h

\* A proposal is a row that is no state and not current.
LEMMA ProposalAppended ==
  ASSUME TableOK, NEW row \in Row, RoomForOne, row.status = "pending", ~row.current,
         versions' = Append(versions, row), UNCHANGED heldStates,
         fate' = Append(fate, [rev |-> Len(versions'), is |-> "pending"])
  PROVE  TableOK' /\ Grown(versions, heldStates, versions', heldStates')
  <1> DEFINE v == versions'
             f == fate'
             L == Len(versions)
             K == Len(fate)
  <1>1. L \in Nat /\ K \in Nat /\ DOMAIN versions = 1 .. L /\ DOMAIN fate = 1 .. K
    BY DEF TableOK
  <1>2. v \in Seq(Row) /\ Len(v) = L + 1 /\ DOMAIN v = 1 .. L + 1 /\ v[L + 1] = row /\ \A j \in 1 .. L : v[j] = versions[j]
    BY <1>1 DEF TableOK
  <1>3. f = Append(fate, [rev |-> L + 1, is |-> "pending"])
    BY <1>2
  <1>4. [rev |-> L + 1, is |-> "pending"] \in [rev : Nat, is : AskedStatuses]
    BY <1>1 DEF AskedStatuses
  <1>5. f \in Seq([rev : Nat, is : AskedStatuses]) /\ DOMAIN f = 1 .. K + 1 /\ f[K + 1] = [rev |-> L + 1, is |-> "pending"]
        /\ \A k \in 1 .. K : f[k] = fate[k]
    BY <1>1, <1>3, <1>4 DEF TableOK
  <1>6. Len(v) <= MaxRevs
    BY <1>1, <1>2, HistoryAssumption DEF RoomForOne
  <1> HIDE DEF v, f
  <1>7. StatesKept(v, heldStates)
    <2>1. \A n \in DOMAIN heldStates :
            /\ heldStates[n] \in 1 .. L /\ versions[heldStates[n]].status = "approved"
            /\ versions[heldStates[n]].seq = n /\ (versions[heldStates[n]].current <=> n = Len(heldStates))
      BY <1>1 DEF TableOK, StatesKept
    <2>2. \A i \in 1 .. L :
            /\ versions[i].status = "approved" => versions[i].seq \in DOMAIN heldStates /\ heldStates[versions[i].seq] = i
            /\ versions[i].current => versions[i].status = "approved"
      BY <1>1 DEF TableOK, StatesKept
    <2>3. \A i \in DOMAIN v : i \in 1 .. L \/ (i = L + 1 /\ v[i].status # "approved" /\ ~v[i].current)
      BY <1>1, <1>2
    <2> QED BY <1>1, <1>2, <2>1, <2>2, <2>3 DEF StatesKept
  <1>8. FatesKept(v, f)
    <2>1. \A k \in DOMAIN f : f[k].is \in AskedStatuses /\ f[k].rev \in DOMAIN v /\ v[f[k].rev].status = StoredStatus(f[k].is)
      <3> TAKE k \in DOMAIN f
      <3>1. CASE k = K + 1
        BY <1>1, <1>2, <1>5, <3>1 DEF StoredStatus, AskedStatuses
      <3>2. CASE k \in 1 .. K
        <4>1. fate[k].is \in AskedStatuses /\ fate[k].rev \in 1 .. L /\ versions[fate[k].rev].status = StoredStatus(fate[k].is)
          BY <1>1, <3>2 DEF TableOK, FatesKept
        <4> QED BY <1>1, <1>2, <1>5, <3>2, <4>1
      <3> QED BY <1>1, <1>5, <3>1, <3>2
    <2>2. ASSUME NEW i \in DOMAIN v, v[i].status # "approved"
          PROVE  \E k \in DOMAIN f : f[k].rev = i
      <3>1. CASE i = L + 1
        <4>1. K + 1 \in DOMAIN f /\ f[K + 1].rev = i
          BY <1>1, <1>5, <3>1
        <4> QED BY <4>1
      <3>2. CASE i \in 1 .. L
        <4>1. PICK k \in 1 .. K : fate[k].rev = i
          BY <1>1, <1>2, <2>2, <3>2 DEF TableOK, FatesKept
        <4>2. k \in DOMAIN f /\ f[k].rev = i
          BY <1>1, <1>5, <4>1
        <4> QED BY <4>2
      <3> QED BY <1>1, <1>2, <3>1, <3>2
    <2> QED BY <2>1, <2>2 DEF FatesKept
  <1>9. Grown(versions, heldStates, v, heldStates)
    BY <1>1, <1>2 DEF Grown
  <1> QED BY <1>2, <1>5, <1>6, <1>7, <1>8, <1>9 DEF v, f, TableOK

\* A state is added, and the proposals are as they were.
LEMMA FatesStay ==
  ASSUME TableOK, NEW rows, NEW new,
         DOMAIN rows = DOMAIN versions \cup {new}, new \notin DOMAIN versions, rows[new].status = "approved",
         \A j \in DOMAIN versions : rows[j].status = versions[j].status
  PROVE  FatesKept(rows, fate)
  BY DEF TableOK, FatesKept

\* A proposal is decided: its row and its fate change together.
LEMMA FateDecided ==
  ASSUME TableOK, NEW rows, NEW i \in DOMAIN versions, NEW is \in AskedStatuses,
         DOMAIN versions \subseteq DOMAIN rows, versions[i].status # "approved",
         \A j \in DOMAIN rows \ DOMAIN versions : rows[j].status = "approved",
         rows[i].status = StoredStatus(is),
         \A j \in DOMAIN versions \ {i} : rows[j].status = versions[j].status
  PROVE  FatesKept(rows, Decided(i, is)) /\ Decided(i, is) \in Seq([rev : Nat, is : AskedStatuses])
  <1> DEFINE f == Decided(i, is)
  <1>1. DOMAIN f = DOMAIN fate /\ \A k \in DOMAIN fate : f[k] = IF fate[k].rev = i THEN [fate[k] EXCEPT !.is = is] ELSE fate[k]
    BY DEF Decided
  <1>2. \A k \in DOMAIN fate : fate[k] \in [rev : Nat, is : AskedStatuses]
    <2>1. fate \in Seq([rev : Nat, is : AskedStatuses]) /\ DOMAIN fate = 1 .. Len(fate)
      BY DEF TableOK
    <2> HIDE DEF f
    <2> QED BY <2>1, ElementOfSeq
  <1> HIDE DEF f
  <1>3. \A k \in DOMAIN fate : /\ f[k] \in [rev : Nat, is : AskedStatuses] /\ f[k].rev = fate[k].rev
                               /\ f[k].is = IF fate[k].rev = i THEN is ELSE fate[k].is
    BY <1>1, <1>2
  <1>4. f \in Seq([rev : Nat, is : AskedStatuses])
    <2>1. Len(fate) \in Nat /\ DOMAIN fate = 1 .. Len(fate)
      BY DEF TableOK
    <2>2. f \in [1 .. Len(fate) -> [rev : Nat, is : AskedStatuses]]
      BY <1>1, <1>3, <2>1 DEF f, Decided
    <2> QED BY <2>1, <2>2, SeqDef
  <1>5. FatesKept(rows, f)
    <2>1. \A k \in DOMAIN f : f[k].is \in AskedStatuses /\ f[k].rev \in DOMAIN rows /\ rows[f[k].rev].status = StoredStatus(f[k].is)
      <3> TAKE k \in DOMAIN f
      <3>1. fate[k].is \in AskedStatuses /\ fate[k].rev \in DOMAIN versions
            /\ versions[fate[k].rev].status = StoredStatus(fate[k].is)
        BY <1>1 DEF TableOK, FatesKept
      <3>2. CASE fate[k].rev = i
        BY <1>1, <1>3, <3>1, <3>2
      <3>3. CASE fate[k].rev # i
        BY <1>1, <1>3, <3>1, <3>3
      <3> QED BY <3>2, <3>3
    <2>2. \A j \in DOMAIN rows : rows[j].status # "approved" => \E k \in DOMAIN f : f[k].rev = j
      <3> TAKE j \in DOMAIN rows
      <3> HAVE rows[j].status # "approved"
      <3>1. j \in DOMAIN versions /\ versions[j].status # "approved"
        OBVIOUS
      <3>2. PICK k \in DOMAIN fate : fate[k].rev = j
        BY <3>1 DEF TableOK, FatesKept
      <3>3. k \in DOMAIN f /\ f[k].rev = j
        BY <1>1, <1>3, <3>2
      <3> QED BY <3>3
    <2> QED BY <2>1, <2>2 DEF FatesKept
  <1> QED BY <1>4, <1>5 DEF f

LEMMA NewRow ==
  ASSUME NEW op \in {"create", "update", "delete"}, NEW status \in {"pending", "approved"},
         NEW fields \in SUBSET DataColumns, NEW base \in Nat, NEW data \in [DataColumns -> CellValues], NEW seq \in Nat
  PROVE  LET row == VersionRow(op, status, fields, base, data, seq) IN
         row \in Row /\ row.status = status /\ row.seq = seq /\ (row.current <=> status = "approved") /\ row.data = data
  BY DEF VersionRow, Row

LEMMA RowsAreRows ==
  ASSUME TableOK
  PROVE  \A i \in DOMAIN versions : versions[i] \in Row
  <1>1. versions \in Seq(Row) /\ DOMAIN versions = 1 .. Len(versions)
    BY DEF TableOK
  <1> QED BY <1>1, ElementOfSeq

\* The rows as a write leaves them, before it adds its own.
LEMMA DemotedRows ==
  ASSUME TableOK
  PROVE  /\ DemotedAll(versions) \in Seq(Row) /\ Len(DemotedAll(versions)) = Len(versions)
         /\ DOMAIN DemotedAll(versions) = DOMAIN versions
         /\ \A j \in DOMAIN versions :
              /\ DemotedAll(versions)[j] \in Row /\ ~DemotedAll(versions)[j].current
              /\ DemotedAll(versions)[j].seq = versions[j].seq /\ DemotedAll(versions)[j].data = versions[j].data
              /\ DemotedAll(versions)[j].status = versions[j].status
  <1> DEFINE d == DemotedAll(versions)
  <1>1. Len(versions) \in Nat /\ DOMAIN versions = 1 .. Len(versions)
    BY DEF TableOK
  <1>2. DOMAIN d = DOMAIN versions /\ \A j \in DOMAIN versions : d[j] = [versions[j] EXCEPT !.current = FALSE]
    BY DEF DemotedAll
  <1>3. d = [j \in 1 .. Len(versions) |-> d[j]]
    BY <1>1 DEF DemotedAll
  <1> HIDE DEF d
  <1>4. \A j \in DOMAIN versions : d[j] \in Row /\ ~d[j].current /\ d[j].seq = versions[j].seq
                                   /\ d[j].data = versions[j].data /\ d[j].status = versions[j].status
    <2>1. \A row \in Row : LET c == [row EXCEPT !.current = FALSE] IN
            c \in Row /\ ~c.current /\ c.seq = row.seq /\ c.data = row.data /\ c.status = row.status
      BY DEF Row
    <2> QED BY <1>2, <2>1, RowsAreRows
  <1>5. d \in [1 .. Len(versions) -> Row]
    BY <1>1, <1>3, <1>4
  <1>6. d \in Seq(Row) /\ Len(d) = Len(versions)
    BY <1>1, <1>5, SeqDef
  <1> QED BY <1>2, <1>4, <1>6 DEF d

\* The patch of a write, on what the document holds.
LEMMA PatchedData ==
  ASSUME TableOK, Currents # {}, NEW p \in OneFieldPatches \cup {<<>>}
  PROVE  /\ PatchedWith(versions[Held].data, p) \in [DataColumns -> CellValues]
         /\ DOMAIN p \in SUBSET DataColumns /\ versions[Held].seq \in Nat
  <1>1. versions[Held] \in Row
    BY HeldIsLast, RowsAreRows
  <1>2. DOMAIN p \subseteq DataColumns /\ \A f \in DOMAIN p : p[f] \in CellValues
    <2>1. CASE p = <<>>
      BY <2>1
    <2>2. CASE p \in OneFieldPatches
      <3>1. PICK g \in DataColumns : p \in [{g} -> CellValues]
        BY <2>2 DEF OneFieldPatches
      <3> QED BY <3>1
    <2> QED BY <2>1, <2>2
  <1>3. versions[Held].data \in [DataColumns -> CellValues] /\ versions[Held].seq \in Nat
    BY <1>1 DEF Row
  <1> QED BY <1>2, <1>3 DEF PatchedWith

LEMMA CreateKeeps ==
  ASSUME HistInv, Create
  PROVE  HistInv'
  <1>1. PICK d \in Created, status \in {"approved", "pending"} :
          /\ RoomForOne /\ Currents = {} /\ Quiet
          /\ versions' = Append(versions, VersionRow("create", status, DataColumns, 0, d, 1))
          /\ heldStates' = IF status = "approved" THEN Append(heldStates, Len(versions')) ELSE heldStates
          /\ fate' = IF status = "pending" THEN Append(fate, [rev |-> Len(versions'), is |-> "pending"]) ELSE fate
    BY DEF Create
  <1> DEFINE row == VersionRow("create", status, DataColumns, 0, d, 1)
  <1>2. row \in Row /\ row.status = status /\ row.seq = 1 /\ (row.current <=> status = "approved")
    <2>1. d \in [DataColumns -> CellValues]
      BY HistoryAssumption
    <2> QED BY <2>1, NewRow
  <1>3. versions' = Append(versions, row)
    BY <1>1
  <1> HIDE DEF row
  <1>4. TableOK /\ versions \in Seq(Row)
    BY DEF HistInv, TableOK
  <1>5. CASE status = "pending"
    BY <1>1, <1>2, <1>3, <1>4, <1>5, ProposalAppended, WriteKeepsReads
  <1>6. CASE status = "approved"
    <2>1. Len(heldStates) = 0
      BY <1>1, <1>4, HeldIsLast
    <2>2. \A j \in DOMAIN versions : ~versions[j].current
      BY <1>1, <1>4, RowsAreRows DEF Currents, Row
    <2>3. /\ versions' \in Seq(Row) /\ Len(versions') <= MaxRevs /\ heldStates' \in Seq(Nat)
          /\ StatesKept(versions', heldStates') /\ Grown(versions, heldStates, versions', heldStates')
          /\ \A j \in DOMAIN versions : versions'[j] = versions[j]
          /\ DOMAIN versions' = DOMAIN versions \cup {Len(versions')} /\ versions'[Len(versions')].status = "approved"
      <3>1. heldStates' = Append(heldStates, Len(versions'))
        BY <1>1, <1>6
      <3> QED BY <1>1, <1>2, <1>3, <1>4, <1>6, <2>1, <2>2, <3>1, StateAppended
    <2>4. Len(versions') \notin DOMAIN versions
      BY <1>3, <1>4
    <2>5. fate' = fate
      BY <1>1, <1>6
    <2>6. FatesKept(versions', fate)
      BY <1>4, <2>3, <2>4, FatesStay
    <2>7. TableOK'
      BY <1>4, <2>3, <2>5, <2>6 DEF TableOK
    <2> QED BY <1>1, <2>3, <2>7, WriteKeepsReads
  <1> QED BY <1>5, <1>6

LEMMA ReviseKeeps ==
  ASSUME HistInv, Revise
  PROVE  HistInv'
  <1>1. PICK p \in OneFieldPatches \cup {<<>>} :
          /\ RoomForOne /\ Currents # {} /\ Quiet /\ UNCHANGED fate
          /\ versions' = Append(DemotedAll(versions), VersionRow(IF p = <<>> THEN "delete" ELSE "update", "approved", DOMAIN p,
                                                      versions[Held].seq, PatchedWith(versions[Held].data, p), NextSeq))
          /\ heldStates' = Append(heldStates, Len(versions'))
    BY DEF Revise
  <1> DEFINE row == VersionRow(IF p = <<>> THEN "delete" ELSE "update", "approved", DOMAIN p,
                               versions[Held].seq, PatchedWith(versions[Held].data, p), NextSeq)
             rows == DemotedAll(versions)
  <1>2. TableOK
    BY DEF HistInv
  <1>3. NextSeq = Len(heldStates) + 1 /\ NextSeq \in Nat
    BY <1>1, <1>2, HeldIsLast, PatchedData DEF NextSeq
  <1>4. row \in Row /\ row.status = "approved" /\ row.seq = NextSeq /\ row.current
    BY <1>1, <1>2, <1>3, PatchedData, NewRow
  <1>5. versions' = Append(rows, row)
    BY <1>1
  <1>6. /\ rows \in Seq(Row) /\ Len(rows) = Len(versions) /\ DOMAIN rows = DOMAIN versions
        /\ \A j \in DOMAIN versions : /\ ~rows[j].current /\ rows[j].seq = versions[j].seq
                                      /\ rows[j].data = versions[j].data /\ rows[j].status = versions[j].status
    BY <1>2, DemotedRows
  <1> HIDE DEF row, rows
  <1>7. /\ versions' \in Seq(Row) /\ Len(versions') <= MaxRevs /\ heldStates' \in Seq(Nat)
        /\ StatesKept(versions', heldStates') /\ Grown(versions, heldStates, versions', heldStates')
        /\ \A j \in DOMAIN versions : versions'[j] = rows[j]
        /\ DOMAIN versions' = DOMAIN versions \cup {Len(versions')} /\ versions'[Len(versions')].status = "approved"
    BY <1>1, <1>2, <1>3, <1>4, <1>5, <1>6, StateAppended
  <1>8. Len(versions') \notin DOMAIN versions
    BY <1>5, <1>6, <1>4, <1>2 DEF TableOK
  <1>9. FatesKept(versions', fate)
    BY <1>2, <1>6, <1>7, <1>8, FatesStay
  <1>10. TableOK'
    BY <1>1, <1>2, <1>7, <1>9 DEF TableOK
  <1> QED BY <1>1, <1>7, <1>10, WriteKeepsReads

LEMMA ProposeKeeps ==
  ASSUME HistInv, Propose
  PROVE  HistInv'
  <1>1. PICK p \in OneFieldPatches \cup {<<>>} :
          /\ RoomForOne /\ Currents # {} /\ Quiet /\ UNCHANGED heldStates
          /\ versions' = Append(versions, VersionRow(IF p = <<>> THEN "delete" ELSE "update", "pending", DOMAIN p,
                                  versions[Held].seq, PatchedWith(versions[Held].data, p), versions[Held].seq + 1))
          /\ fate' = Append(fate, [rev |-> Len(versions'), is |-> "pending"])
    BY DEF Propose
  <1> DEFINE row == VersionRow(IF p = <<>> THEN "delete" ELSE "update", "pending", DOMAIN p,
                               versions[Held].seq, PatchedWith(versions[Held].data, p), versions[Held].seq + 1)
  <1>2. TableOK
    BY DEF HistInv
  <1>3. row \in Row /\ row.status = "pending" /\ ~row.current
    <2>1. /\ PatchedWith(versions[Held].data, p) \in [DataColumns -> CellValues]
          /\ DOMAIN p \in SUBSET DataColumns /\ versions[Held].seq \in Nat
      BY <1>1, <1>2, PatchedData
    <2>2. versions[Held].seq + 1 \in Nat /\ (IF p = <<>> THEN "delete" ELSE "update") \in {"create", "update", "delete"}
      BY <2>1
    <2> QED BY <2>1, <2>2, NewRow
  <1>4. versions' = Append(versions, row)
    BY <1>1
  <1> HIDE DEF row
  <1> QED BY <1>1, <1>2, <1>3, <1>4, ProposalAppended, WriteKeepsReads

\* What is retired or turned down keeps all but its status.
LEMMA StatusChanged ==
  ASSUME TableOK, NEW i \in DOMAIN versions, NEW to \in {"rejected", "superseded"}, NEW rows \in Seq(Row), Len(rows) = Len(versions)
  PROVE  LET changed == [rows EXCEPT ![i].status = to] IN
         /\ changed \in Seq(Row) /\ Len(changed) = Len(versions) /\ DOMAIN changed = DOMAIN versions
         /\ \A j \in DOMAIN versions :
              /\ changed[j].status = IF j = i THEN to ELSE rows[j].status
              /\ changed[j].seq = rows[j].seq /\ changed[j].data = rows[j].data /\ changed[j].current = rows[j].current
  <1> DEFINE c == [rows EXCEPT ![i].status = to]
  <1>1. Len(versions) \in Nat /\ DOMAIN versions = 1 .. Len(versions) /\ DOMAIN rows = 1 .. Len(versions)
    BY DEF TableOK
  <1>2. \A j \in 1 .. Len(versions) : rows[j] \in Row
    BY <1>1, ElementOfSeq
  <1>3. DOMAIN c = 1 .. Len(versions) /\ c = [j \in 1 .. Len(versions) |-> c[j]]
        /\ \A j \in 1 .. Len(versions) : c[j] = IF j = i THEN [rows[i] EXCEPT !.status = to] ELSE rows[j]
    BY <1>1
  <1>4. \A row \in Row : LET d == [row EXCEPT !.status = to] IN
          d \in Row /\ d.status = to /\ d.seq = row.seq /\ d.data = row.data /\ d.current = row.current
    BY DEF Row
  <1> HIDE DEF c
  <1>5. \A j \in 1 .. Len(versions) :
          /\ c[j] \in Row /\ c[j].status = IF j = i THEN to ELSE rows[j].status
          /\ c[j].seq = rows[j].seq /\ c[j].data = rows[j].data /\ c[j].current = rows[j].current
    <2> TAKE j \in 1 .. Len(versions)
    <2>1. CASE j = i
      BY <1>1, <1>2, <1>3, <1>4, <2>1
    <2>2. CASE j # i
      BY <1>2, <1>3, <2>2
    <2> QED BY <2>1, <2>2
  <1>6. c \in [1 .. Len(versions) -> Row]
    BY <1>3, <1>5
  <1>7. c \in Seq(Row) /\ Len(c) = Len(versions)
    BY <1>1, <1>6, SeqDef
  <1> QED BY <1>1, <1>3, <1>5, <1>7 DEF c

LEMMA ApproveKeeps ==
  ASSUME HistInv, NEW i \in DOMAIN versions, Approve(i)
  PROVE  HistInv'
  <1> DEFINE p == versions[i]
             base == IF p.op = "create" THEN p.data ELSE versions[Held].data
             before == IF p.op = "create" THEN versions ELSE DemotedAll(versions)
             rows == [before EXCEPT ![i].status = Consumed]
             merged == [f \in DataColumns |-> IF f \in p.fields THEN p.data[f] ELSE base[f]]
             seq == IF p.op = "create" THEN 1 ELSE NextSeq
             row == VersionRow(p.op, "approved", p.fields, p.base, merged, seq)
  <1>1. /\ RoomForOne /\ p.status = "pending"
        /\ p.op = "create" => Currents = {}
        /\ p.op # "create" => Currents # {}
        /\ versions' = Append(rows, row) /\ heldStates' = Append(heldStates, Len(versions'))
        /\ fate' = Decided(i, "approved") /\ Quiet
    BY DEF Approve
  <1>2. TableOK /\ p \in Row
    BY RowsAreRows DEF HistInv
  <1>3. seq = Len(heldStates) + 1 /\ seq \in Nat
    <2>1. Len(heldStates) \in Nat
      BY <1>2 DEF TableOK
    <2>2. CASE p.op = "create"
      BY <1>1, <1>2, <2>1, <2>2, HeldIsLast
    <2>3. CASE p.op # "create"
      BY <1>1, <1>2, <2>1, <2>3, HeldIsLast DEF NextSeq
    <2> QED BY <2>2, <2>3
  <1>4. base \in [DataColumns -> CellValues]
    BY <1>1, <1>2, HeldIsLast, RowsAreRows DEF Row
  <1>5. p.op \in {"create", "update", "delete"} /\ p.fields \in SUBSET DataColumns /\ p.base \in Nat
        /\ p.data \in [DataColumns -> CellValues]
    BY <1>2 DEF Row
  <1> HIDE DEF seq, base, p
  <1>6. merged \in [DataColumns -> CellValues]
    BY <1>4, <1>5
  <1> HIDE DEF merged
  <1>7. row \in Row /\ row.status = "approved" /\ row.seq = Len(heldStates) + 1 /\ row.current
    <2>1. row \in Row /\ row.status = "approved" /\ row.seq = seq /\ (row.current <=> "approved" = "approved")
      BY <1>3, <1>5, <1>6, NewRow
    <2> QED BY <1>3, <2>1
  <1> HIDE DEF row
  <1>8. /\ before \in Seq(Row) /\ Len(before) = Len(versions)
        /\ \A j \in DOMAIN versions : /\ before[j].seq = versions[j].seq /\ before[j].data = versions[j].data
                                      /\ before[j].status = versions[j].status /\ ~before[j].current
    <2>1. CASE p.op = "create"
      <3>1. \A j \in DOMAIN versions : ~versions[j].current
        BY <1>1, <1>2, <2>1, RowsAreRows DEF Currents, Row
      <3> QED BY <1>2, <2>1, <3>1 DEF TableOK
    <2>2. CASE p.op # "create"
      BY <1>2, <2>2, DemotedRows
    <2> QED BY <2>1, <2>2
  <1> HIDE DEF before
  <1>9. /\ rows \in Seq(Row) /\ Len(rows) = Len(versions) /\ DOMAIN rows = DOMAIN versions
        /\ \A j \in DOMAIN versions :
             /\ rows[j].status = IF j = i THEN "superseded" ELSE versions[j].status
             /\ rows[j].seq = versions[j].seq /\ rows[j].data = versions[j].data /\ ~rows[j].current
    BY <1>2, <1>8, StatusChanged DEF Consumed
  <1> HIDE DEF rows
  <1>10. versions[i].status = "pending"
    BY <1>1 DEF p
  <1>11. /\ versions' \in Seq(Row) /\ Len(versions') <= MaxRevs /\ heldStates' \in Seq(Nat)
         /\ StatesKept(versions', heldStates') /\ Grown(versions, heldStates, versions', heldStates')
         /\ \A j \in DOMAIN versions : versions'[j] = rows[j]
         /\ DOMAIN versions' = DOMAIN versions \cup {Len(versions')} /\ versions'[Len(versions')].status = "approved"
    <2>1. \A j \in DOMAIN versions : rows[j].status = "approved" <=> versions[j].status = "approved"
      BY <1>9, <1>10
    <2> QED BY <1>1, <1>2, <1>7, <1>9, <2>1, StateAppended
  <1>12. FatesKept(versions', fate') /\ fate' \in Seq([rev : Nat, is : AskedStatuses])
    <2>1. "approved" \in AskedStatuses /\ StoredStatus("approved") = "superseded"
      BY DEF AskedStatuses, StoredStatus
    <2> QED BY <1>1, <1>2, <1>9, <1>10, <1>11, <2>1, FateDecided
  <1>13. TableOK'
    BY <1>11, <1>12 DEF TableOK
  <1> QED BY <1>1, <1>11, <1>13, WriteKeepsReads

LEMMA RejectKeeps ==
  ASSUME HistInv, NEW i \in DOMAIN versions, Reject(i)
  PROVE  HistInv'
  <1>1. TableOK /\ versions \in Seq(Row)
    BY DEF HistInv, TableOK
  <1>2. versions[i].status = "pending" /\ versions' = [versions EXCEPT ![i].status = "rejected"]
        /\ fate' = Decided(i, "rejected") /\ heldStates' = heldStates /\ Quiet
    BY DEF Reject
  <1>3. /\ versions' \in Seq(Row) /\ Len(versions') = Len(versions) /\ DOMAIN versions' = DOMAIN versions
        /\ \A j \in DOMAIN versions :
             /\ versions'[j].status = IF j = i THEN "rejected" ELSE versions[j].status
             /\ versions'[j].seq = versions[j].seq /\ versions'[j].data = versions[j].data
             /\ versions'[j].current = versions[j].current
    BY <1>1, <1>2, StatusChanged
  <1>4. StatesKept(versions', heldStates')
    <2>1. \A j \in DOMAIN versions : versions'[j].status = "approved" <=> versions[j].status = "approved"
      BY <1>2, <1>3
    <2>2. \A n \in DOMAIN heldStates :
            /\ heldStates[n] \in DOMAIN versions /\ versions[heldStates[n]].status = "approved"
            /\ versions[heldStates[n]].seq = n /\ (versions[heldStates[n]].current <=> n = Len(heldStates))
      BY <1>1 DEF StatesKept, TableOK
    <2>3. \A j \in DOMAIN versions :
            /\ versions[j].status = "approved" => versions[j].seq \in DOMAIN heldStates /\ heldStates[versions[j].seq] = j
            /\ versions[j].current => versions[j].status = "approved"
      BY <1>1 DEF StatesKept, TableOK
    <2>4. \A n \in DOMAIN heldStates :
            /\ heldStates[n] \in DOMAIN versions' /\ versions'[heldStates[n]].status = "approved"
            /\ versions'[heldStates[n]].seq = n /\ (versions'[heldStates[n]].current <=> n = Len(heldStates))
      BY <1>3, <2>1, <2>2
    <2>5. \A j \in DOMAIN versions' :
            /\ versions'[j].status = "approved" => versions'[j].seq \in DOMAIN heldStates /\ heldStates[versions'[j].seq] = j
            /\ versions'[j].current => versions'[j].status = "approved"
      BY <1>3, <2>1, <2>3
    <2> QED BY <1>2, <2>4, <2>5 DEF StatesKept
  <1>5. FatesKept(versions', fate') /\ fate' \in Seq([rev : Nat, is : AskedStatuses])
    <2>1. "rejected" \in AskedStatuses /\ StoredStatus("rejected") = "rejected"
      BY DEF AskedStatuses, StoredStatus
    <2> QED BY <1>1, <1>2, <1>3, <2>1, FateDecided
  <1>6. Grown(versions, heldStates, versions', heldStates')
    BY <1>2, <1>3 DEF Grown
  <1>7. TableOK'
    BY <1>1, <1>2, <1>3, <1>4, <1>5 DEF TableOK
  <1> QED BY <1>2, <1>6, <1>7, WriteKeepsReads

LEMMA SetListKeeps ==
  ASSUME HistInv, SetList
  PROVE  HistInv'
  <1>1. PICK l \in (SUBSET Readers \ {{}}) \cup {None} :
          acl' = l /\ reading' = Watched(reading, versions, l) /\ UNCHANGED <<grant, versions, heldStates, fate>>
    BY DEF SetList, Turn
  <1>2. ASSUME NEW r \in Readers
        PROVE  IsCall(reading'[r]) /\ ReadFits(reading'[r], versions, heldStates)
    BY <1>1, WatchedIsSame, SameReadItself DEF HistInv
  <1>3. DOMAIN reading' = Readers /\ reading' = [r \in Readers |-> reading'[r]]
    BY <1>1, WatchedIsSame DEF HistInv
  <1> QED BY <1>1, <1>2, <1>3 DEF HistInv, TableOK

LEMMA SetGrantKeeps ==
  ASSUME HistInv, SetGrant
  PROVE  HistInv'
  BY DEF HistInv, TableOK, SetGrant, Turn

---------------------------------------------------------------------------
(* History: the reads *)

\* The listing has each approved state at one place, in order.
LEMMA ListingIsOneEntry ==
  ASSUME TableOK, NEW g
  PROVE  LET listed == BySeq(ShownRevisions)
             out == [k \in DOMAIN listed |-> Entry(listed[k], g)]
         IN OneEntry(out, heldStates) /\ \A k \in DOMAIN out : out[k].fields \subseteq g.fields
  <1> DEFINE S == ShownRevisions
             before == [i \in S |-> {j \in S : versions[j].seq < versions[i].seq \/ (versions[j].seq = versions[i].seq /\ j < i)}]
             listed == BySeq(S)
             out == [k \in DOMAIN listed |-> Entry(listed[k], g)]
             N == Cardinality(S)
             H == Len(heldStates)
             approved == {k \in DOMAIN out : out[k].status = "approved"}
  <1>1. DOMAIN versions = 1 .. Len(versions) /\ Len(versions) \in Nat /\ S \subseteq 1 .. Len(versions)
        /\ H \in Nat /\ DOMAIN heldStates = 1 .. H
    BY DEF TableOK, ShownRevisions
  <1>2. IsFiniteSet(S)
    <2>1. IsFiniteSet(1 .. Len(versions))
      BY <1>1, FS_Interval
    <2> QED BY <1>1, <2>1, FS_Subset
  <1>3. \A i \in S : versions[i].seq \in Nat /\ i \in Nat
    BY <1>1, RowsAreRows DEF Row
  <1>4. Orders(S, before)
    BY <1>3 DEF Orders
  <1>5. /\ N \in Nat /\ listed \in [1 .. N -> S]
        /\ \A i \in S : \E n \in 1 .. N : listed[n] = i
        /\ \A m, n \in 1 .. N : m < n => listed[m] \in before[listed[n]]
    <2>1. listed = SortedBy(S, before)
      BY DEF BySeq
    <2> HIDE DEF listed, before, S
    <2> QED BY <1>2, <1>4, <2>1, SortedByProperties
  <1> HIDE DEF listed
  <1>6. \A m, n \in 1 .. N : m < n => versions[listed[m]].seq <= versions[listed[n]].seq
    <2> TAKE m, n \in 1 .. N
    <2> HAVE m < n
    <2>1. listed[m] \in S /\ listed[n] \in S /\ listed[m] \in before[listed[n]]
      BY <1>5
    <2> QED BY <1>3, <2>1
  <1>7. /\ DOMAIN out = 1 .. N
        /\ \A k \in 1 .. N : /\ out[k].rev = listed[k] /\ out[k].seq = versions[listed[k]].seq
                             /\ out[k].status = versions[listed[k]].status /\ out[k].fields \subseteq g.fields
    BY <1>5 DEF Entry, Names
  <1> HIDE DEF out, before
  <1>8. \A k \in approved : k \in 1 .. N /\ out[k].seq \in 1 .. H /\ heldStates[out[k].seq] = out[k].rev
    <2> TAKE k \in approved
    <2>1. k \in 1 .. N /\ listed[k] \in 1 .. Len(versions) /\ versions[listed[k]].status = "approved"
      BY <1>1, <1>5, <1>7
    <2>2. versions[listed[k]].seq \in DOMAIN heldStates /\ heldStates[versions[listed[k]].seq] = listed[k]
      BY <1>1, <2>1 DEF TableOK, StatesKept
    <2> QED BY <1>1, <1>7, <2>1, <2>2
  <1>9. \A n \in 1 .. H : \E k \in approved : out[k].seq = n
    <2> TAKE n \in 1 .. H
    <2>1. heldStates[n] \in DOMAIN versions /\ versions[heldStates[n]].status = "approved" /\ versions[heldStates[n]].seq = n
      BY <1>1 DEF TableOK, StatesKept
    <2>2. heldStates[n] \in S
      BY <2>1 DEF ShownRevisions
    <2>3. PICK k \in 1 .. N : listed[k] = heldStates[n]
      BY <1>5, <2>2
    <2>4. k \in approved /\ out[k].seq = n
      BY <1>7, <2>1, <2>3
    <2> QED BY <2>4
  <1>10. \A j, k \in approved : j <= k <=> out[j].seq <= out[k].seq
    <2> TAKE j, k \in approved
    <2>1. j \in 1 .. N /\ k \in 1 .. N /\ out[j].seq \in Nat /\ out[k].seq \in Nat
      BY <1>8
    <2>2. j < k => out[j].seq <= out[k].seq
      BY <1>6, <1>7, <2>1
    <2>3. k < j => out[k].seq <= out[j].seq
      BY <1>6, <1>7, <2>1
    <2>4. out[j].seq = out[k].seq => j = k
      <3>1. out[j].seq = out[k].seq => listed[j] = listed[k]
        BY <1>7, <1>8, <2>1
      <3>2. listed[j] = listed[k] => ~(j < k) /\ ~(k < j)
        BY <1>4, <1>5, <2>1 DEF Orders
      <3> QED BY <2>1, <3>1, <3>2
    <2> QED BY <2>1, <2>2, <2>3, <2>4
  <1>11. ASSUME NEW k \in approved
         PROVE  Cardinality({j \in approved : j <= k}) = out[k].seq
    <2> DEFINE T == {j \in approved : j <= k}
               n == out[k].seq
               f == [m \in 1 .. n |-> CHOOSE j \in approved : out[j].seq = m]
    <2>1. n \in 1 .. H
      BY <1>8
    <2>2. \A m \in 1 .. n : f[m] \in approved /\ out[f[m]].seq = m
      BY <1>1, <1>9, <2>1
    <2>3. \A m \in 1 .. n : f[m] \in T
      <3> TAKE m \in 1 .. n
      <3>1. f[m] \in approved /\ out[f[m]].seq <= out[k].seq
        <4>1. f[m] \in approved /\ out[f[m]].seq = m
          BY <2>2
        <4>2. m <= out[k].seq
          OBVIOUS
        <4> HIDE DEF f
        <4> QED BY <4>1, <4>2
      <3> QED BY <1>10, <3>1
    <2>4. f \in [1 .. n -> T]
      BY <2>3
    <2> HIDE DEF f
    <2>5. \A a, b \in 1 .. n : f[a] = f[b] => a = b
      BY <2>2
    <2>6. \A j \in T : \E m \in 1 .. n : f[m] = j
      <3> TAKE j \in T
      <3>1. out[j].seq \in 1 .. n
        BY <1>1, <1>8, <1>10, <2>1
      <3>2. f[out[j].seq] \in approved /\ out[f[out[j].seq]].seq = out[j].seq
        BY <2>2, <3>1
      <3>3. j \in approved /\ f[out[j].seq] <= j /\ j <= f[out[j].seq]
        BY <1>1, <1>8, <1>10, <3>1, <3>2, <2>1
      <3>4. f[out[j].seq] = j
        BY <1>8, <3>2, <3>3
      <3> QED BY <3>1, <3>4
    <2>7. f \in Bijection(1 .. n, T)
      BY <2>4, <2>5, <2>6, Fun_IsBij
    <2>8. IsFiniteSet(1 .. n) /\ Cardinality(1 .. n) = n
      <3>1. n \in Int /\ 1 \in Int /\ (1 > n => n = 0) /\ n - 1 + 1 = n
        BY <1>1, <2>1
      <3>2. \A a, b \in Int : IsFiniteSet(a .. b) /\ Cardinality(a .. b) = IF a > b THEN 0 ELSE b - a + 1
        BY FS_Interval
      <3> HIDE DEF n
      <3> QED BY <3>1, <3>2
    <2>9. ExistsBijection(1 .. n, T)
      BY <2>7 DEF ExistsBijection
    <2>10. Cardinality(T) = n
      BY <2>8, <2>9, FS_Bijection
    <2> QED BY <2>10
  <1>12. OneEntry(out, heldStates)
    BY <1>1, <1>8, <1>11 DEF OneEntry
  <1> QED BY <1>7, <1>12 DEF out, listed

LEMMA OpenHistoryKeeps ==
  ASSUME HistInv, NEW r \in Readers, NEW verb \in HistoryVerbs, NEW from, NEW to, OpenHistory(r, verb, from, to)
  PROVE  HistInv'
  <1> DEFINE c == [NoCall EXCEPT !.step = "opened", !.verb = verb, !.from = from, !.to = to, !.grant = grant[r]]
  <1>1. grant[r] # None /\ Moves(r, c)
    BY DEF OpenHistory
  <1>2. IsCall(c) /\ c.step = "opened" /\ c.verb = verb /\ c.grant # None
    <2>1. c \in CallWith("opened", verb, from, to, grant[r], None, None)
      BY DEF NoCall, CallWith
    <2> HIDE DEF c
    <2> QED BY <1>1, <2>1 DEF IsCall, CallWith
  <1>3. ReadFits(c, versions, heldStates)
    BY <1>2 DEF ReadFits
  <1> HIDE DEF c
  <1> QED BY <1>1, <1>2, <1>3, SameReadItself, CallKeepsReads

LEMMA RefuseKeeps ==
  ASSUME HistInv, NEW r \in Readers, RefusesCall(r)
  PROVE  HistInv'
  <1>1. IsCall(NoCall) /\ ReadFits(NoCall, versions, heldStates)
    BY DEF IsCall, CallWith, NoCall, ReadFits
  <1> QED BY <1>1, SameReadItself, CallKeepsReads DEF RefusesCall

LEMMA CheckKeeps ==
  ASSUME HistInv, NEW r \in Readers, CheckDocument(r)
  PROVE  HistInv'
  <1>1. CASE ~AdmitsDocument(r)
    BY <1>1, RefuseKeeps DEF CheckDocument
  <1>2. CASE AdmitsDocument(r)
    <2> DEFINE c == [Call(r) EXCEPT !.step = "admitted"]
    <2>1. Call(r).step = "opened" /\ Moves(r, c)
      BY <1>2 DEF CheckDocument
    <2>2. IsCall(Call(r)) /\ ReadFits(Call(r), versions, heldStates)
      BY DEF HistInv, Call
    <2>3. /\ IsCall(c) /\ c.step = "admitted" /\ c.verb = Call(r).verb /\ c.from = Call(r).from
          /\ c.to = Call(r).to /\ c.grant = Call(r).grant
      BY <2>2 DEF IsCall, CallWith
    <2>4. c.grant # None /\ c.verb \in HistoryVerbs
      BY <2>1, <2>2, <2>3 DEF ReadFits
    <2>5. InReach(r, c.grant, versions, acl)
      <3>1. Currents # {} /\ Admits(versions[Held], acl, r, c.grant)
        BY <1>2, <2>3 DEF AdmitsDocument
      <3>2. Held \in DOMAIN versions /\ versions[Held].current
        BY <3>1 DEF Held, Currents
      <3> QED BY <2>4, <3>1, <3>2 DEF InReach
    <2> HIDE DEF c
    <2>6. \A d : SameRead(c, d) /\ (InReach(r, c.grant, versions, acl) => d.reached) => ReadFits(d, versions, heldStates)
      BY <2>3, <2>4, <2>5 DEF SameRead, ReadFits
    <2> QED BY <2>1, <2>3, <2>6, CallKeepsReads
  <1> QED BY <1>1, <1>2

\* An answer of a call that was admitted, or that looked at proposals.
LEMMA AnswerKeeps ==
  ASSUME HistInv, NEW r \in Readers, NEW out, AnswersCall(r, out), Call(r).step \in {"admitted", "listing"},
         AnswerFits([Call(r) EXCEPT !.step = "answered", !.out = out], versions, heldStates)
  PROVE  HistInv'
  <1> DEFINE c == [Call(r) EXCEPT !.step = "answered", !.out = out]
  <1>1. IsCall(Call(r)) /\ ReadFits(Call(r), versions, heldStates)
    BY DEF HistInv, Call
  <1>2. IsCall(c) /\ c.step = "answered" /\ c.verb = Call(r).verb /\ c.reached = Call(r).reached
    <2> DEFINE b == Call(r)
    <2>1. b \in CallWith(b.step, b.verb, b.from, b.to, b.grant, b.row, b.out)
      BY <1>1 DEF IsCall
    <2> HIDE DEF b
    <2>2. LET a == [b EXCEPT !.step = "answered", !.out = out] IN
          a \in CallWith("answered", b.verb, b.from, b.to, b.grant, b.row, out) /\ a.reached = b.reached
      BY <2>1 DEF CallWith
    <2>3. c = [b EXCEPT !.step = "answered", !.out = out]
      BY DEF b
    <2> HIDE DEF c
    <2>4. IsCall(c) /\ c.step = "answered" /\ c.verb = b.verb /\ c.reached = b.reached
      BY <2>2, <2>3 DEF IsCall, CallWith
    <2> QED BY <2>4 DEF b
  <1>3. AnswerFits(c, versions, heldStates) /\ Moves(r, c)
    BY DEF AnswersCall
  <1> HIDE DEF c
  <1>4. ReadFits(c, versions, heldStates)
    BY <1>1, <1>2, <1>3 DEF ReadFits, HistoryVerbs, AskedStatuses
  <1> QED BY <1>2, <1>3, <1>4, SameReadItself, CallKeepsReads

\* What a call is when it has its answer.
LEMMA AnsweredCall ==
  ASSUME HistInv, NEW r \in Readers, NEW out
  PROVE  LET c == [Call(r) EXCEPT !.step = "answered", !.out = out] IN
         c.verb = Call(r).verb /\ c.from = Call(r).from /\ c.to = Call(r).to /\ c.grant = Call(r).grant /\ c.out = out
  <1>1. IsCall(Call(r))
    BY DEF HistInv, Call
  <1> QED BY <1>1 DEF IsCall, CallWith

LEMMA ListRevisionsKeeps ==
  ASSUME HistInv, NEW r \in Readers, ListRevisions(r)
  PROVE  HistInv'
  <1> DEFINE listed == BySeq(ShownRevisions)
             out == [k \in DOMAIN listed |-> Entry(listed[k], Call(r).grant)]
             c == [Call(r) EXCEPT !.step = "answered", !.out = out]
  <1>1. Call(r).step = "admitted" /\ Call(r).verb = "list" /\ AnswersCall(r, out)
    BY DEF ListRevisions
  <1>2. OneEntry(out, heldStates) /\ \A k \in DOMAIN out : out[k].fields \subseteq Call(r).grant.fields
    BY ListingIsOneEntry DEF HistInv
  <1> HIDE DEF out
  <1>3. c.verb = "list" /\ c.grant = Call(r).grant /\ c.out = out
    BY <1>1, AnsweredCall
  <1>4. AnswerFits(c, versions, heldStates)
    <2> HIDE DEF c
    <2> QED BY <1>2, <1>3 DEF AnswerFits
  <1> QED BY <1>1, <1>4, AnswerKeeps

LEMMA GetRevisionKeeps ==
  ASSUME HistInv, NEW r \in Readers, GetRevision(r)
  PROVE  HistInv'
  <1> DEFINE out == Projected(versions[Call(r).from], Call(r).grant)
             c == [Call(r) EXCEPT !.step = "answered", !.out = out]
  <1>1. Call(r).step = "admitted" /\ Call(r).verb = "get"
    BY DEF GetRevision
  <1>2. CASE Call(r).from \notin ShownRevisions
    BY <1>2, RefuseKeeps DEF GetRevision
  <1>3. CASE Call(r).from \in ShownRevisions
    <2>1. AnswersCall(r, out) /\ Call(r).from \in DOMAIN versions
      BY <1>3 DEF GetRevision, ShownRevisions
    <2>2. c.verb = "get" /\ c.from = Call(r).from /\ c.grant = Call(r).grant /\ c.out = out
      <3> HIDE DEF out
      <3> QED BY <1>1, AnsweredCall
    <2>3. AnswerFits(c, versions, heldStates)
      <3> HIDE DEF c
      <3> QED BY <2>1, <2>2 DEF AnswerFits
    <2> QED BY <1>1, <2>1, <2>3, AnswerKeeps
  <1> QED BY <1>2, <1>3

LEMMA DiffRevisionsKeeps ==
  ASSUME HistInv, NEW r \in Readers, DiffRevisions(r)
  PROVE  HistInv'
  <1> DEFINE out == Moved(versions[Call(r).from], versions[Call(r).to], Call(r).grant)
             c == [Call(r) EXCEPT !.step = "answered", !.out = out]
  <1>1. Call(r).step = "admitted" /\ Call(r).verb = "diff"
    BY DEF DiffRevisions
  <1>2. CASE ~({Call(r).from, Call(r).to} \subseteq ShownRevisions)
    BY <1>2, RefuseKeeps DEF DiffRevisions
  <1>3. CASE {Call(r).from, Call(r).to} \subseteq ShownRevisions
    <2>1. AnswersCall(r, out) /\ Call(r).from \in DOMAIN versions /\ Call(r).to \in DOMAIN versions
      BY <1>3 DEF DiffRevisions, ShownRevisions
    <2>2. c.verb = "diff" /\ c.from = Call(r).from /\ c.to = Call(r).to /\ c.grant = Call(r).grant /\ c.out = out
      <3> HIDE DEF out
      <3> QED BY <1>1, AnsweredCall
    <2>3. AnswerFits(c, versions, heldStates)
      <3> HIDE DEF c
      <3> QED BY <2>1, <2>2 DEF AnswerFits
    <2> QED BY <1>1, <2>1, <2>3, AnswerKeeps
  <1> QED BY <1>2, <1>3

LEMMA OpenProposalsKeeps ==
  ASSUME HistInv, NEW r \in Readers, NEW status \in AskedStatuses, OpenProposals(r, status)
  PROVE  HistInv'
  <1> DEFINE c == [NoCall EXCEPT !.step = "listing", !.verb = status, !.grant = grant[r]]
  <1>1. Moves(r, c)
    BY DEF OpenProposals
  <1>2. IsCall(c) /\ c.step = "listing" /\ c.verb = status
    <2>1. c \in CallWith("listing", status, 1, 1, grant[r], None, None)
      BY DEF NoCall, CallWith
    <2> HIDE DEF c
    <2> QED BY <2>1 DEF IsCall, CallWith
  <1>3. ReadFits(c, versions, heldStates)
    BY <1>2 DEF ReadFits
  <1> HIDE DEF c
  <1> QED BY <1>1, <1>2, <1>3, SameReadItself, CallKeepsReads

LEMMA ListProposalsKeeps ==
  ASSUME HistInv, NEW r \in Readers, ListProposals(r)
  PROVE  HistInv'
  <1> DEFINE out == {i \in Listing(Call(r).verb) : Admits(versions[i], acl, r, Call(r).grant)}
             c == [Call(r) EXCEPT !.step = "answered", !.out = out]
  <1>1. Call(r).step = "listing" /\ AnswersCall(r, out)
    BY DEF ListProposals
  <1>2. Call(r).verb \in AskedStatuses
    BY <1>1 DEF HistInv, ReadFits, Call
  <1> HIDE DEF out
  <1>3. c.verb = Call(r).verb
    BY AnsweredCall
  <1>4. AnswerFits(c, versions, heldStates)
    <2> HIDE DEF c
    <2> QED BY <1>2, <1>3 DEF AnswerFits, AskedStatuses
  <1> QED BY <1>1, <1>4, AnswerKeeps

LEMMA LoadProposalKeeps ==
  ASSUME HistInv, NEW r \in Readers, NEW i \in DOMAIN versions, LoadProposal(r, i)
  PROVE  HistInv'
  <1> DEFINE loaded == [data |-> versions[i].data, list |-> acl]
             c == [NoCall EXCEPT !.step = "loaded", !.verb = "proposal", !.from = i, !.row = loaded]
  <1>1. Moves(r, c)
    BY DEF LoadProposal
  <1>2. loaded.data = versions[i].data
    OBVIOUS
  <1> HIDE DEF loaded
  <1>3. IsCall(c) /\ c.step = "loaded" /\ c.verb = "proposal" /\ c.from = i /\ c.row = loaded
    <2>1. c \in CallWith("loaded", "proposal", i, 1, None, loaded, None)
      BY DEF NoCall, CallWith
    <2> HIDE DEF c
    <2> QED BY <2>1 DEF IsCall, CallWith
  <1>4. ReadFits(c, versions, heldStates)
    BY <1>2, <1>3 DEF ReadFits
  <1> HIDE DEF c
  <1> QED BY <1>1, <1>3, <1>4, SameReadItself, CallKeepsReads

LEMMA GetProposalKeeps ==
  ASSUME HistInv, NEW r \in Readers, GetProposal(r)
  PROVE  HistInv'
  <1> DEFINE b == Call(r)
             g == grant[r]
             out == Reviewed(b.row.data, g)
             c == [b EXCEPT !.step = "answered", !.grant = g, !.out = out]
  <1>1. b.step = "loaded" /\ (Moves(r, c) \/ RefusesCall(r))
    BY DEF GetProposal
  <1>2. IsCall(b) /\ ReadFits(b, versions, heldStates)
    BY DEF HistInv, Call
  <1>3. b.verb = "proposal" /\ b.from \in DOMAIN versions /\ b.row.data = versions[b.from].data
    BY <1>1, <1>2 DEF ReadFits
  <1>4. out = Reviewed(versions[b.from].data, g)
    BY <1>3
  <1> HIDE DEF b, g, out
  <1>5. IsCall(c) /\ c.step = "answered" /\ c.verb = b.verb /\ c.from = b.from /\ c.grant = g /\ c.out = out
    <2>1. c \in CallWith("answered", b.verb, b.from, b.to, g, b.row, out)
      BY <1>2 DEF IsCall, CallWith
    <2> HIDE DEF c
    <2> QED BY <2>1 DEF IsCall, CallWith
  <1> HIDE DEF c
  <1>6. ReadFits(c, versions, heldStates)
    BY <1>3, <1>4, <1>5 DEF ReadFits, AnswerFits, HistoryVerbs
  <1>7. CASE Moves(r, c)
    BY <1>5, <1>6, <1>7, SameReadItself, CallKeepsReads
  <1> QED BY <1>1, <1>7, RefuseKeeps

---------------------------------------------------------------------------
(* History: the theorem *)

LEMMA HistInitInv == HistInit => HistInv
  <1> SUFFICES ASSUME HistInit PROVE HistInv
    OBVIOUS
  <1>1. versions = <<>> /\ heldStates = <<>> /\ fate = <<>> /\ acl = None /\ reading = [r \in Readers |-> NoCall]
        /\ grant \in [Readers -> Grants]
    BY DEF HistInit
  <1>2. TableOK
    BY <1>1, HistoryAssumption DEF TableOK, StatesKept, FatesKept
  <1>3. IsCall(NoCall) /\ ReadFits(NoCall, versions, heldStates)
    BY DEF IsCall, CallWith, NoCall, ReadFits
  <1> HIDE DEF NoCall
  <1> QED BY <1>1, <1>2, <1>3 DEF HistInv

LEMMA HistStep == HistInv /\ [HistNext]_histVars => HistInv'
  <1> SUFFICES ASSUME HistInv, [HistNext]_histVars PROVE HistInv'
    OBVIOUS
  <1>1. CASE Create
    BY <1>1, CreateKeeps
  <1>2. CASE Revise
    BY <1>2, ReviseKeeps
  <1>3. CASE Propose
    BY <1>3, ProposeKeeps
  <1>4. CASE SetList
    BY <1>4, SetListKeeps
  <1>5. CASE SetGrant
    BY <1>5, SetGrantKeeps
  <1>6. ASSUME NEW i \in DOMAIN versions, Approve(i) \/ Reject(i)
        PROVE  HistInv'
    BY <1>6, ApproveKeeps, RejectKeeps
  <1>7. ASSUME NEW r \in Readers,
               \/ OpenHistory(r, "list", 1, 1)
               \/ \E i \in DOMAIN versions : OpenHistory(r, "get", i, i) \/ LoadProposal(r, i)
               \/ \E i, j \in DOMAIN versions : i < j /\ OpenHistory(r, "diff", i, j)
               \/ \E s \in AskedStatuses : OpenProposals(r, s)
        PROVE  HistInv'
    <2>1. {"list", "get", "diff"} = HistoryVerbs
      BY DEF HistoryVerbs
    <2> QED BY <1>7, <2>1, OpenHistoryKeeps, LoadProposalKeeps, OpenProposalsKeeps
  <1>8. ASSUME NEW r \in Readers,
               CheckDocument(r) \/ ListRevisions(r) \/ GetRevision(r) \/ DiffRevisions(r) \/ ListProposals(r)
                 \/ GetProposal(r) \/ Close(r)
        PROVE  HistInv'
    BY <1>8, CheckKeeps, ListRevisionsKeeps, GetRevisionKeeps, DiffRevisionsKeeps, ListProposalsKeeps,
       GetProposalKeeps, RefuseKeeps DEF Close
  <1>9. CASE UNCHANGED histVars
    BY <1>9 DEF histVars, HistInv, TableOK
  <1> QED BY <1>1, <1>2, <1>3, <1>4, <1>5, <1>6, <1>7, <1>8, <1>9 DEF HistNext

LEMMA HistInvParts == HistInv => HistoryCorrect
  <1> SUFFICES ASSUME HistInv PROVE HistoryCorrect
    OBVIOUS
  <1>1. TableOK
    BY DEF HistInv
  <1>2. HistTypeOK
    <2>1. \A i \in DOMAIN versions : versions[i].data \in [DataColumns -> CellValues] /\ versions[i].fields \subseteq DataColumns
      BY <1>1, RowsAreRows DEF Row
    <2>2. Cardinality(Currents) <= 1
      <3>1. Currents \subseteq {heldStates[Len(heldStates)]}
        BY <1>1, HeldIsLast
      <3>2. IsFiniteSet({heldStates[Len(heldStates)]}) /\ Cardinality({heldStates[Len(heldStates)]}) = 1
        BY FS_Singleton
      <3> QED BY <3>1, <3>2, FS_Subset
    <2>3. \A n \in DOMAIN heldStates : heldStates[n] \in DOMAIN versions
      BY <1>1 DEF TableOK, StatesKept
    <2> QED BY <1>1, <2>1, <2>2, <2>3 DEF HistTypeOK, HistInv, TableOK
  <1>3. \A r \in Readers : Said(r) => AnswerFits(Call(r), versions, heldStates)
    BY DEF HistInv, ReadFits, Said, Call
  <1>4. InReachMeanwhile
    BY DEF HistInv, ReadFits, Said, Call, InReachMeanwhile, HistoryVerbs
  <1>5. NothingBeyondTheGrant
    <2>1. \A row, g : DOMAIN Projected(row, g) \subseteq g.fields
                      /\ \A f \in DOMAIN Projected(row, g) \cap MaskedFor(g) : Projected(row, g)[f] = Hides[row.data[f]]
      BY DEF Projected, Readable
    <2>2. \A row, to, g : \A f \in Moved(row, to, g) : f \in MaskedFor(g) => Hides[row.data[f]] # Hides[to.data[f]]
      BY DEF Moved, Projected
    <2>3. \A data, g : DOMAIN Reviewed(data, g).values \subseteq g.fields \ MaskedFor(g) /\ Reviewed(data, g).masked \subseteq g.fields
      BY DEF Reviewed, Readable
    <2> SUFFICES ASSUME NEW r \in Readers, Said(r)
                 PROVE  LET c == Call(r)  g == c.grant IN
                        /\ c.verb = "list" => \A k \in DOMAIN c.out : c.out[k].fields \subseteq g.fields
                        /\ c.verb = "get" =>
                             /\ DOMAIN c.out \subseteq g.fields
                             /\ \A f \in DOMAIN c.out \cap MaskedFor(g) : c.out[f] = Hides[versions[c.from].data[f]]
                        /\ c.verb = "diff" =>
                             \A f \in c.out : f \in MaskedFor(g) => Hides[versions[c.from].data[f]] # Hides[versions[c.to].data[f]]
                        /\ c.verb = "proposal" =>
                             DOMAIN c.out.values \subseteq g.fields \ MaskedFor(g) /\ c.out.masked \subseteq g.fields
      BY DEF NothingBeyondTheGrant
    <2> QED BY <1>3, <2>1, <2>2, <2>3 DEF AnswerFits
  <1>6. OneEntryPerState
    BY <1>3 DEF OneEntryPerState, AnswerFits, OneEntry
  <1>7. EachProposalFiled
    <2> SUFFICES ASSUME NEW s \in AskedStatuses
                 PROVE  Listing(s) = {fate[k].rev : k \in {k \in DOMAIN fate : fate[k].is = s}}
      BY DEF EachProposalFiled
    <2>1. \A a, b \in AskedStatuses : (StoredStatus(a) = StoredStatus(b) <=> a = b) /\ StoredStatus(a) # "approved"
      BY DEF AskedStatuses, StoredStatus
    <2>2. \A k \in DOMAIN fate : fate[k].is \in AskedStatuses /\ fate[k].rev \in DOMAIN versions
                                 /\ versions[fate[k].rev].status = StoredStatus(fate[k].is)
      BY <1>1 DEF TableOK, FatesKept
    <2>3. \A i \in DOMAIN versions : versions[i].status # "approved" => \E k \in DOMAIN fate : fate[k].rev = i
      BY <1>1 DEF TableOK, FatesKept
    <2>4. \A i \in Listing(s) : \E k \in DOMAIN fate : fate[k].is = s /\ fate[k].rev = i
      BY <2>1, <2>2, <2>3 DEF Listing
    <2>5. \A k \in DOMAIN fate : fate[k].is = s => fate[k].rev \in Listing(s)
      BY <2>2 DEF Listing
    <2> QED BY <2>4, <2>5
  <1>8. WithheldIsNamed
    <2> SUFFICES ASSUME NEW r \in Readers, Said(r), Call(r).verb = "proposal"
                 PROVE  LET c == Call(r) IN
                        /\ versions[c.from].fields \cap c.grant.fields \subseteq DOMAIN c.out.values \cup c.out.masked
                        /\ \A f \in DOMAIN c.out.values : c.out.values[f] = versions[c.from].data[f]
      BY DEF WithheldIsNamed
    <2>1. Call(r).from \in DOMAIN versions /\ Call(r).out = Reviewed(versions[Call(r).from].data, Call(r).grant)
      BY <1>3 DEF AnswerFits
    <2>2. versions[Call(r).from].fields \subseteq DataColumns
      BY <1>1, <2>1, RowsAreRows DEF Row
    <2> QED BY <2>1, <2>2 DEF Reviewed, Readable
  <1>9. DiffTellsWhatMoved
    <2> SUFFICES ASSUME NEW r \in Readers, Said(r), Call(r).verb = "diff"
                 PROVE  LET c == Call(r)  moved == {f \in DataColumns : versions[c.from].data[f] # versions[c.to].data[f]} IN
                        c.out \subseteq moved /\ (moved \cap c.grant.fields) \ MaskedFor(c.grant) \subseteq c.out
      BY DEF DiffTellsWhatMoved
    <2>1. Call(r).out = Moved(versions[Call(r).from], versions[Call(r).to], Call(r).grant)
      BY <1>3 DEF AnswerFits
    <2> QED BY <2>1 DEF Moved, Projected, Readable
  <1> QED BY <1>2, <1>4, <1>5, <1>6, <1>7, <1>8, <1>9 DEF HistoryCorrect

\* What the history reads answer, for any readers, columns, grants and number of revisions: what was
\* in reach during the call, no more than the grant shows, one entry for each state the document
\* held, each proposal where its fate is, and the fields that moved (history.ts, propose.ts).
THEOREM HistoryCorrectAlways == HistSpec => []HistoryCorrect
  <1> QED BY HistInitInv, HistStep, HistInvParts, PTL DEF HistSpec
---------------------------------------------------------------------------
(* Queries: sequences and pages *)

\* A sequence, of whatever it is of.
IsSequence(s) == s \in Seq({s[n] : n \in DOMAIN s})

LEMMA SequenceShape ==
  ASSUME NEW s, IsSequence(s)
  PROVE  Len(s) \in Nat /\ DOMAIN s = 1 .. Len(s)
  BY LenProperties DEF IsSequence

LEMMA MembersOfSequence ==
  ASSUME NEW X, NEW s \in Seq(X)
  PROVE  IsSequence(s)
  <1>1. Len(s) \in Nat /\ s \in [1 .. Len(s) -> X] /\ DOMAIN s = 1 .. Len(s)
    BY LenProperties
  <1>2. s \in [1 .. Len(s) -> {s[n] : n \in DOMAIN s}]
    BY <1>1
  <1> QED BY <1>1, <1>2, SeqDef DEF IsSequence

LEMMA AppendShape ==
  ASSUME NEW s, IsSequence(s), NEW e
  PROVE  /\ IsSequence(Append(s, e)) /\ Len(Append(s, e)) = Len(s) + 1
         /\ \A n \in 1 .. Len(s) : Append(s, e)[n] = s[n]
         /\ Append(s, e)[Len(s) + 1] = e
  <1> DEFINE X == {s[n] : n \in DOMAIN s} \cup {e}
  <1>1. s \in [1 .. Len(s) -> X] /\ Len(s) \in Nat
    BY SequenceShape, LenProperties DEF IsSequence
  <1>2. s \in Seq(X) /\ e \in X
    BY <1>1, SeqDef
  <1> HIDE DEF X
  <1>3. /\ Append(s, e) \in Seq(X) /\ Len(Append(s, e)) = Len(s) + 1
        /\ \A n \in 1 .. Len(s) : Append(s, e)[n] = s[n]
        /\ Append(s, e)[Len(s) + 1] = e
    BY <1>2, AppendProperties
  <1> QED BY <1>3, MembersOfSequence

\* Each member at one place.
Once(s) == \A m, n \in DOMAIN s : s[m] = s[n] => m = n

\* limit and offset: the members from the one after offset on, as many as there are.
LEMMA PageShape ==
  ASSUME NEW X, NEW o \in Seq(X), NEW offset \in Nat, NEW limit \in Nat,
         NEW s, s = Page(o, offset, limit)
  PROVE  /\ s \in Seq(X) /\ Len(s) \in Nat /\ DOMAIN s = 1 .. Len(s)
         /\ Len(s) = IF offset >= Len(o) THEN 0 ELSE IF offset + limit < Len(o) THEN limit ELSE Len(o) - offset
         /\ \A n \in DOMAIN s : n + offset \in DOMAIN o /\ s[n] = o[n + offset]
  <1> DEFINE N == Len(o)
             last == IF offset + limit < N THEN offset + limit ELSE N
  <1>1. N \in Nat /\ DOMAIN o = 1 .. N /\ \A n \in 1 .. N : o[n] \in X
    BY LenProperties, ElementOfSeq
  <1>2. s = SubSeq(o, offset + 1, last)
    BY DEF Page
  <1> HIDE DEF N
  <1>3. last \in Int /\ offset + 1 \in Int /\ \A n \in offset + 1 .. last : o[n] \in X
    BY <1>1
  <1>4. /\ s \in Seq(X) /\ Len(s) = IF offset + 1 <= last THEN last - (offset + 1) + 1 ELSE 0
        /\ \A n \in 1 .. last - (offset + 1) + 1 : s[n] = o[offset + 1 + n - 1]
    <2> HIDE DEF last
    <2> QED BY <1>2, <1>3, SubSeqProperties
  <1>5. /\ Len(s) \in Nat /\ DOMAIN s = 1 .. Len(s)
        /\ Len(s) = IF offset >= N THEN 0 ELSE IF offset + limit < N THEN limit ELSE N - offset
    BY <1>1, <1>4, LenProperties
  <1>6. ASSUME NEW n \in DOMAIN s
        PROVE  n + offset \in DOMAIN o /\ s[n] = o[n + offset]
    <2>1. n \in 1 .. last - (offset + 1) + 1 /\ n + offset \in 1 .. N /\ offset + 1 + n - 1 = n + offset
      BY <1>1, <1>4, <1>5
    <2> HIDE DEF last
    <2> QED BY <1>1, <1>4, <2>1
  <1> QED BY <1>4, <1>5, <1>6 DEF N

LEMMA PageIsOf ==
  ASSUME NEW X, NEW o \in Seq(X), NEW offset \in Nat, NEW limit \in Nat
  PROVE  Page(o, offset, limit) \in Seq(X)
  BY PageShape

LEMMA PageIsOnce ==
  ASSUME NEW X, NEW o \in Seq(X), NEW offset \in Nat, NEW limit \in Nat, Once(o)
  PROVE  Once(Page(o, offset, limit))
  <1> DEFINE s == Page(o, offset, limit)
  <1>1. Len(s) \in Nat /\ DOMAIN s = 1 .. Len(s)
        /\ \A n \in DOMAIN s : n + offset \in DOMAIN o /\ s[n] = o[n + offset]
    BY PageShape
  <1> HIDE DEF s
  <1>2. ASSUME NEW m \in DOMAIN s, NEW n \in DOMAIN s, s[m] = s[n]
        PROVE  m = n
    <2>1. m + offset = n + offset
      BY <1>1, <1>2 DEF Once
    <2> QED BY <1>1, <2>1
  <1> QED BY <1>2 DEF Once, s

\* The first page of an order.
LEMMA FirstPage ==
  ASSUME NEW X, NEW o \in Seq(X), NEW limit \in Nat, NEW s, s = Page(o, 0, limit)
  PROVE  /\ Len(s) \in Nat /\ DOMAIN s = 1 .. Len(s) /\ Len(o) \in Nat /\ DOMAIN o = 1 .. Len(o)
         /\ Len(s) = IF limit < Len(o) THEN limit ELSE Len(o)
         /\ \A n \in DOMAIN s : n \in DOMAIN o /\ s[n] = o[n]
  <1>1. Len(o) \in Nat /\ DOMAIN o = 1 .. Len(o)
    BY LenProperties
  <1>2. /\ Len(s) \in Nat /\ DOMAIN s = 1 .. Len(s)
        /\ Len(s) = IF 0 >= Len(o) THEN 0 ELSE IF 0 + limit < Len(o) THEN limit ELSE Len(o) - 0
        /\ \A n \in DOMAIN s : n + 0 \in DOMAIN o /\ s[n] = o[n + 0]
    BY PageShape
  <1>3. \A n \in DOMAIN s : n + 0 = n
    BY <1>2
  <1> QED BY <1>1, <1>2, <1>3

\* The orders that a statement may return its documents in, and the pages of them.
OrdersOf(D, i, after, g) == {p \in Enumerations(Matching(D, i, after, g)) : InOrderOf(D, i, g, p)}
PagesOf(D, i, after, g) == {Page(o, i.offset, i.limit) : o \in OrdersOf(D, i, after, g)}
AnswerOf(D, i, g, s) ==
  [keys |-> s, rows |-> [n \in DOMAIN s |-> Project(D, i, g, s[n])], next |-> NextCursor(D, i, g, s)]

LEMMA AnswersArePages ==
  ASSUME NEW D, NEW i, NEW after, NEW g, i.agg = None
  PROVE  Answers(D, i, after, g) = {AnswerOf(D, i, g, s) : s \in PagesOf(D, i, after, g)}
  BY DEF Answers, AnswerOf, PagesOf, OrdersOf

LEMMA MatchingIsFinite ==
  ASSUME NEW D, NEW i, NEW after, NEW g
  PROVE  LET S == Matching(D, i, after, g) IN
         S \subseteq DocKeys /\ IsFiniteSet(S) /\ Cardinality(S) \in Nat /\ Cardinality(S) <= Cardinality(DocKeys)
  <1>1. Matching(D, i, after, g) \subseteq DocKeys
    BY DEF Matching
  <1> QED BY <1>1, QueryAssumption, FS_Subset, FS_CardinalityType

\* The keys of a page are documents that match, each once.
LEMMA PagesHoldMatches ==
  ASSUME NEW D, NEW i, NEW after, NEW g, i.offset \in Nat, i.limit \in Nat,
         NEW s \in PagesOf(D, i, after, g)
  PROVE  s \in Seq(Matching(D, i, after, g)) /\ IsSequence(s) /\ Once(s)
  <1> DEFINE S == Matching(D, i, after, g)
             N == Cardinality(S)
  <1>1. PICK o \in OrdersOf(D, i, after, g) : s = Page(o, i.offset, i.limit)
    BY DEF PagesOf
  <1>2. o \in [1 .. N -> S] /\ \A m, n \in 1 .. N : o[m] = o[n] => m = n
    BY <1>1 DEF OrdersOf, Enumerations
  <1>3. N \in Nat
    BY MatchingIsFinite
  <1> HIDE DEF S, N
  <1>4. o \in Seq(S) /\ Once(o)
    BY <1>2, <1>3, SeqDef DEF Once
  <1>5. s \in Seq(S)
    BY <1>1, <1>4, PageIsOf
  <1>6. Once(s)
    BY <1>1, <1>4, PageIsOnce
  <1> QED BY <1>5, <1>6, MembersOfSequence DEF S
---------------------------------------------------------------------------
(* Queries: what does not change an answer *)

\* The fields that a statement computes over or orders by.
LookedAt(i) == Computed(i) \cup {Pk}

\* Two states of a collection in which the same documents match, with the same values where the
\* statement looks and in what it shows, give the same answers.
LEMMA AnswersAgree ==
  ASSUME NEW D, NEW E, NEW i, NEW after, NEW g, i.offset \in Nat, i.limit \in Nat,
         Matching(D, i, after, g) = Matching(E, i, after, g),
         \A d \in Matching(D, i, after, g) : /\ \A f \in LookedAt(i) : D[d].data[f] = E[d].data[f]
                                             /\ Project(D, i, g, d) = Project(E, i, g, d)
  PROVE  Answers(D, i, after, g) = Answers(E, i, after, g)
  <1> DEFINE S == Matching(D, i, after, g)
             N == Cardinality(S)
  <1>1. /\ SortField(i) \in LookedAt(i) /\ (i.by # None => i.by \in LookedAt(i))
        /\ (i.agg # None => i.agg \in LookedAt(i)) /\ (i.group # None => i.group \in LookedAt(i))
    BY DEF LookedAt, Computed, SortField
  <1>2. CASE i.agg # None
    <2>1. Aggregated(D, i, S) = Aggregated(E, i, S)
      <3> DEFINE GroupD(d) == IF i.group = None THEN 0 ELSE D[d].data[i.group]
                 GroupE(d) == IF i.group = None THEN 0 ELSE E[d].data[i.group]
      <3>1. \A d \in S : GroupD(d) = GroupE(d) /\ D[d].data[i.agg] = E[d].data[i.agg]
        BY <1>1, <1>2
      <3>2. {GroupD(d) : d \in S} = {GroupE(d) : d \in S}
        BY <3>1
      <3> DEFINE ValuesD(v) == {D[d].data[i.agg] : d \in {e \in S : GroupD(e) = v}}
                 ValuesE(v) == {E[d].data[i.agg] : d \in {e \in S : GroupE(e) = v}}
                 TopD(v) == CHOOSE x \in ValuesD(v) : \A e \in S : GroupD(e) = v => D[e].data[i.agg] <= x
                 TopE(v) == CHOOSE x \in ValuesE(v) : \A e \in S : GroupE(e) = v => E[e].data[i.agg] <= x
      <3>3. ASSUME NEW v PROVE TopD(v) = TopE(v)
        <4>1. ValuesD(v) = ValuesE(v)
          BY <3>1
        <4>2. \A x : (\A e \in S : GroupD(e) = v => D[e].data[i.agg] <= x)
                     <=> (\A e \in S : GroupE(e) = v => E[e].data[i.agg] <= x)
          BY <3>1
        <4> HIDE DEF ValuesD, ValuesE, GroupD, GroupE
        <4> QED BY <4>1, <4>2
      <3>4. Aggregated(D, i, S) = {<<v, TopD(v)>> : v \in {GroupD(d) : d \in S}}
        BY DEF Aggregated
      <3>5. Aggregated(E, i, S) = {<<v, TopE(v)>> : v \in {GroupE(d) : d \in S}}
        BY DEF Aggregated
      <3> HIDE DEF TopD, TopE, GroupD, GroupE
      <3> QED BY <3>2, <3>3, <3>4, <3>5
    <2> HIDE DEF S
    <2> QED BY <1>2, <2>1 DEF Answers, S
  <1>3. CASE i.agg = None
    <2>1. \A p \in Enumerations(S) : InOrderOf(D, i, g, p) <=> InOrderOf(E, i, g, p)
      <3> TAKE p \in Enumerations(S)
      <3>1. DOMAIN p = 1 .. N /\ \A n \in 1 .. N : p[n] \in S
        BY DEF Enumerations
      <3>2. \A n \in DOMAIN p : D[p[n]].data[SortField(i)] = E[p[n]].data[SortField(i)]
                                /\ (i.by # None => D[p[n]].data[i.by] = E[p[n]].data[i.by])
        BY <1>1, <3>1
      <3> HIDE DEF S, N
      <3> QED BY <3>2 DEF InOrderOf, RanksBefore
    <2>2. OrdersOf(D, i, after, g) = OrdersOf(E, i, after, g)
      BY <2>1 DEF OrdersOf
    <2>3. PagesOf(D, i, after, g) = PagesOf(E, i, after, g)
      BY <2>2 DEF PagesOf
    <2>4. ASSUME NEW s \in PagesOf(D, i, after, g)
          PROVE  AnswerOf(D, i, g, s) = AnswerOf(E, i, g, s)
      <3>1. s \in Seq(S) /\ IsSequence(s)
        BY PagesHoldMatches
      <3>2. Len(s) \in Nat /\ DOMAIN s = 1 .. Len(s) /\ \A n \in DOMAIN s : s[n] \in S
        BY <3>1, SequenceShape, ElementOfSeq
      <3>3. [n \in DOMAIN s |-> Project(D, i, g, s[n])] = [n \in DOMAIN s |-> Project(E, i, g, s[n])]
        BY <3>2
      <3>4. NextCursor(D, i, g, s) = NextCursor(E, i, g, s)
        <4>1. s # <<>> => s[Len(s)] \in S
          BY <3>1, <3>2, EmptySeq
        <4>2. s # <<>> => D[s[Len(s)]].data[SortField(i)] = E[s[Len(s)]].data[SortField(i)]
          BY <1>1, <4>1
        <4> HIDE DEF S
        <4> QED BY <4>2 DEF NextCursor
      <3> QED BY <3>3, <3>4 DEF AnswerOf
    <2> QED BY <1>3, <2>3, <2>4, AnswersArePages
  <1> QED BY <1>2, <1>3

\* An answer that has keys has them as a page has.
LEMMA AnswerKeys ==
  ASSUME NEW D, NEW i, NEW after, NEW g, i.offset \in Nat, i.limit \in Nat, NEW a \in Answers(D, i, after, g)
  PROVE  IsSequence(a.keys) /\ Once(a.keys)
  <1>1. CASE i.agg # None
    <2>1. a.keys = <<>>
      BY <1>1 DEF Answers
    <2>2. <<>> \in Seq({}) /\ DOMAIN <<>> = {}
      BY EmptySeq
    <2> QED BY <2>1, <2>2, MembersOfSequence DEF Once
  <1>2. CASE i.agg = None
    <2>1. PICK s \in PagesOf(D, i, after, g) : a = AnswerOf(D, i, g, s)
      BY <1>2, AnswersArePages
    <2>2. a.keys = s
      BY <2>1 DEF AnswerOf
    <2> QED BY <2>2, PagesHoldMatches
  <1> QED BY <1>1, <1>2

\* Documents listed for others do not change an answer.
LEMMA ListedForOthersAlways == ASSUME NEW D, NEW i, NEW after, NEW g, i.offset \in Nat, i.limit \in Nat
  PROVE  LET Mine == [d \in DocKeys |-> IF D[d] # None /\ D[d].readers # {} /\ D[d].readers \cap Me = {} THEN None ELSE D[d]]
         IN Answers(Mine, i, after, g) = Answers(D, i, after, g)
  <1> DEFINE Mine == [d \in DocKeys |-> IF D[d] # None /\ D[d].readers # {} /\ D[d].readers \cap Me = {} THEN None ELSE D[d]]
  <1>1. \A d \in DocKeys : D[d] # None /\ Reaches(D[d], g) => Mine[d] = D[d]
    BY DEF Reaches
  <1>2. \A d \in DocKeys : Mine[d] # None => Mine[d] = D[d]
    OBVIOUS
  <1> HIDE DEF Mine
  <1>3. Matching(Mine, i, after, g) = Matching(D, i, after, g)
    BY <1>1, <1>2 DEF Matching, Beyond
  <1>4. \A d \in Matching(Mine, i, after, g) : Mine[d] = D[d]
    BY <1>2 DEF Matching
  <1>5. \A d \in Matching(Mine, i, after, g) : Project(Mine, i, g, d) = Project(D, i, g, d)
    BY <1>4 DEF Project
  <1> QED BY <1>3, <1>4, <1>5, AnswersAgree DEF Mine

\* What stands in a field that the grant hides does not change an answer that the guard lets through.
LEMMA HiddenChangesNothing ==
  ASSUME NEW D, NEW i, NEW after, NEW g, i.offset \in Nat, i.limit \in Nat, Guard(i, after, g) = "ok",
         NEW d \in DocKeys, NEW f \in Cols, NEW v, D = [e \in DocKeys |-> D[e]],
         DocumentRow(D[d]), v \in Nat, HiddenFrom(g, f, D[d].data[f], v)
  PROVE  Answers(Disguised(D, d, f, v), i, after, g) = Answers(D, i, after, g)
  <1> DEFINE E == Disguised(D, d, f, v)
             x == D[d]
  <1>1. /\ g # None /\ Referenced(i) \subseteq g.fields /\ Computed(i) \cap Masked(g) = {}
        /\ after # None => after.f = SortField(i)
    BY DEF Guard, SameOrder
  <1>2. f # Pk /\ (\A y \in g.filters : y.field # f) /\ f # None
        /\ (f \notin g.fields \/ (f \in Masked(g) /\ Mask(x.data[f]) = Mask(v)))
    BY QueryAssumption DEF HiddenFrom
  <1>3. f \notin Computed(i) /\ f \notin LookedAt(i) /\ SortField(i) # f
    BY <1>1, <1>2 DEF Referenced, LookedAt, SortField, Computed
  <1>4. \A y \in i.filters : y.field # f
    BY <1>2, <1>3 DEF Computed
  <1>5. /\ \A e \in DocKeys \ {d} : E[e] = D[e]
        /\ E[d] = [x EXCEPT !.data[f] = v]
    BY DEF Disguised
  <1>6. x \in DocumentsFor(x.readers) /\ None \notin DocumentsFor(x.readers)
    BY DEF DocumentRow
  <1> HIDE DEF x, E
  <1>7. /\ E[d] \in DocumentsFor(x.readers) /\ E[d].readers = x.readers /\ E[d].data[f] = v
        /\ \A h \in Cols \ {f} : E[d].data[h] = x.data[h]
    BY <1>5, <1>6 DEF DocumentsFor
  <1>8. E[d] # None /\ x # None
    BY <1>6, <1>7
  <1>9. \A h : h # f => E[d].data[h] = x.data[h]
    <2>1. E[d].data = [x.data EXCEPT ![f] = v]
      BY <1>5, <1>6 DEF DocumentsFor
    <2> QED BY <2>1
  <1>10. \A e \in DocKeys : /\ E[e] = None <=> D[e] = None
                            /\ E[e].readers = D[e].readers
                            /\ \A h : h # f => E[e].data[h] = D[e].data[h]
    BY <1>5, <1>7, <1>8, <1>9 DEF x
  <1>11. \A e \in DocKeys : Reaches(E[e], g) <=> Reaches(D[e], g)
    BY <1>2, <1>10 DEF Reaches
  <1>12. \A e \in DocKeys : (\A y \in i.filters : Compares(y, E[e].data[y.field]))
                            <=> (\A y \in i.filters : Compares(y, D[e].data[y.field]))
    BY <1>4, <1>10
  <1>13. \A e \in DocKeys : after = None \/ (Beyond(E, i, after, e) <=> Beyond(D, i, after, e))
    BY <1>1, <1>3, <1>10 DEF Beyond
  <1>14. Matching(E, i, after, g) = Matching(D, i, after, g)
    BY <1>10, <1>11, <1>12, <1>13 DEF Matching
  <1>15. ASSUME NEW e \in DocKeys
         PROVE  Project(E, i, g, e) = Project(D, i, g, e)
    <2>1. ASSUME NEW h \in Selected(i, g)
          PROVE  Shown(h, E[e].data[h], g) = Shown(h, D[e].data[h], g)
      <3>1. CASE h # f \/ e # d
        BY <1>5, <1>10, <3>1
      <3>2. CASE h = f /\ e = d
        <4>1. f \in g.fields
          BY <1>1, <2>1, <3>2 DEF Selected, Referenced
        <4> QED BY <1>2, <1>7, <3>2, <4>1 DEF Shown, x
      <3> QED BY <3>1, <3>2
    <2> QED BY <2>1 DEF Project
  <1>16. \A e \in Matching(E, i, after, g) : /\ \A h \in LookedAt(i) : E[e].data[h] = D[e].data[h]
                                             /\ Project(E, i, g, e) = Project(D, i, g, e)
    BY <1>3, <1>10, <1>15 DEF Matching
  <1> QED BY <1>14, <1>16, AnswersAgree DEF E

---------------------------------------------------------------------------
(* Queries: what the explanation says *)

\* The query that the three verbs speak of, of all documents and all fields of the grant.
LEMMA WholeQuery ==
  ASSUME NEW c \in Colls, NEW i, i = [NoIntent(c) EXCEPT !.limit = Cardinality(DocKeys)]
  PROVE  /\ i.fields = {} /\ i.filters = {} /\ i.agg = None /\ i.by = None /\ i.offset = 0
         /\ i.limit = Cardinality(DocKeys) /\ i.plain /\ Computed(i) = {} /\ Referenced(i) = {}
  BY DEF NoIntent, Computed, Referenced

LEMMA ExplanationHolds ==
  ASSUME NEW c \in Colls, held[c] \in GrantsFor[c]
  PROVE  LET g == held[c]  i == [NoIntent(c) EXCEPT !.limit = Cardinality(DocKeys)] IN
    /\ g = None => \A f \in Cols : Explained(f, g) = "none"
    /\ Listed(g) # None <=> Guard(i, None, g) # "no_grant"
    /\ Guard(i, None, g) = "ok" => \A a \in Answers(docs[c], i, None, g) :
         /\ Counted(docs[c], g) = Len(a.keys)
         /\ \A n \in DOMAIN a.keys :
              /\ DOMAIN a.rows[n] = DOMAIN Described(g) /\ Listed(g) = Cardinality(DOMAIN a.rows[n])
              /\ \A f \in Cols : LET v == docs[c][a.keys[n]].data[f] IN
                   CASE Explained(f, g) = "none" -> f \notin DOMAIN a.rows[n]
                     [] Explained(f, g) = "raw" -> a.rows[n][f] = v /\ ~Described(g)[f]
                     [] Explained(f, g) = "masked" -> a.rows[n][f] = Mask(v) /\ Described(g)[f]
  <1> DEFINE g == held[c]
             i == [NoIntent(c) EXCEPT !.limit = Cardinality(DocKeys)]
             D == docs[c]
             S == Matching(D, i, None, g)
  <1>1. /\ i.fields = {} /\ i.filters = {} /\ i.agg = None /\ i.by = None /\ i.offset = 0
        /\ i.limit = Cardinality(DocKeys) /\ i.plain /\ Computed(i) = {} /\ Referenced(i) = {}
    BY WholeQuery
  <1>2. Cardinality(DocKeys) \in Nat /\ (g # None => g.fields \subseteq Cols)
    BY QueryAssumption, FS_CardinalityType
  <1>3. Guard(i, None, g) = IF g = None \/ "read" \notin g.verbs THEN "no_grant" ELSE "ok"
    BY <1>1 DEF Guard
  <1>4. g # None => Cardinality(g.fields \cap Cols) # None
    <2>1. IsFiniteSet(g.fields \cap Cols)
      BY QueryAssumption, FS_Subset
    <2> QED BY <2>1, QueryAssumption, FS_CardinalityType
  <1>5. Listed(g) # None <=> Guard(i, None, g) # "no_grant"
    BY <1>3, <1>4 DEF Listed
  <1>6. ASSUME Guard(i, None, g) = "ok", NEW a \in Answers(D, i, None, g)
        PROVE  /\ Counted(D, g) = Len(a.keys)
               /\ \A n \in DOMAIN a.keys :
                    /\ DOMAIN a.rows[n] = DOMAIN Described(g) /\ Listed(g) = Cardinality(DOMAIN a.rows[n])
                    /\ \A f \in Cols : LET v == D[a.keys[n]].data[f] IN
                         CASE Explained(f, g) = "none" -> f \notin DOMAIN a.rows[n]
                           [] Explained(f, g) = "raw" -> a.rows[n][f] = v /\ ~Described(g)[f]
                           [] Explained(f, g) = "masked" -> a.rows[n][f] = Mask(v) /\ Described(g)[f]
    <2>1. g # None /\ "read" \in g.verbs /\ g.fields \subseteq Cols
      BY <1>2, <1>3, <1>6
    <2>2. PICK s \in PagesOf(D, i, None, g) : a = AnswerOf(D, i, g, s)
      <3> HIDE DEF i, g, D
      <3> QED BY <1>1, <1>6, AnswersArePages
    <2>3. a.keys = s /\ a.rows = [n \in DOMAIN s |-> Project(D, i, g, s[n])]
      BY <2>2 DEF AnswerOf
    <2>4. PICK o \in OrdersOf(D, i, None, g) : s = Page(o, 0, Cardinality(DocKeys))
      BY <1>1 DEF PagesOf
    <2>5. S \subseteq DocKeys /\ Cardinality(S) \in Nat /\ Cardinality(S) <= Cardinality(DocKeys)
      BY MatchingIsFinite
    <2>6. o \in [1 .. Cardinality(S) -> S]
      BY DEF OrdersOf, Enumerations
    <2>7. o \in Seq(S) /\ Len(o) = Cardinality(S)
      <3> HIDE DEF S
      <3>1. o \in Seq(S)
        BY <2>5, <2>6, SeqDef
      <3> QED BY <2>5, <2>6, <3>1, LenProperties
    <2>8. Len(s) = Cardinality(S)
      <3> HIDE DEF S
      <3> QED BY <1>2, <2>4, <2>5, <2>7, FirstPage
    <2>9. Counted(D, g) = Cardinality(S)
      <3>1. S = {d \in DocKeys : D[d] # None /\ Reaches(D[d], g)}
        BY <1>1 DEF Matching
      <3> QED BY <3>1 DEF Counted
    <2>10. Selected(i, g) = g.fields /\ g.fields \cap Cols = g.fields
      BY <1>1, <2>1 DEF Selected
    <2>11. ASSUME NEW n \in DOMAIN a.keys, NEW f \in Cols
           PROVE  LET v == D[a.keys[n]].data[f] IN
                  CASE Explained(f, g) = "none" -> f \notin DOMAIN a.rows[n]
                    [] Explained(f, g) = "raw" -> a.rows[n][f] = v /\ ~Described(g)[f]
                    [] Explained(f, g) = "masked" -> a.rows[n][f] = Mask(v) /\ Described(g)[f]
      <3> HIDE DEF i, g, D
      <3>1. a.rows[n] = [h \in g.fields |-> Shown(h, D[a.keys[n]].data[h], g)]
        BY <2>3, <2>10 DEF Project
      <3>2. CASE f \notin g.fields
        BY <2>1, <3>1, <3>2 DEF Explained
      <3>3. CASE f \in g.fields /\ f \in Masked(g)
        BY <2>1, <3>1, <3>3 DEF Explained, Described, Shown
      <3>4. CASE f \in g.fields /\ f \notin Masked(g)
        BY <2>1, <3>1, <3>4 DEF Explained, Described, Shown
      <3> QED BY <3>2, <3>3, <3>4
    <2>12. ASSUME NEW n \in DOMAIN a.keys
           PROVE  DOMAIN a.rows[n] = DOMAIN Described(g) /\ Listed(g) = Cardinality(DOMAIN a.rows[n])
      <3> HIDE DEF i, g, D
      <3>1. DOMAIN a.rows[n] = g.fields
        BY <2>3, <2>10 DEF Project
      <3> QED BY <2>1, <2>10, <3>1 DEF Described, Listed
    <2> HIDE DEF i, g, D, S
    <2> QED BY <2>3, <2>8, <2>9, <2>11, <2>12
  <1>7. g = None => \A f \in Cols : Explained(f, g) = "none"
    BY DEF Explained
  <1> QED BY <1>5, <1>6, <1>7

---------------------------------------------------------------------------
(* Queries: the merged page of a search *)

LEMMA FiniteImage ==
  ASSUME NEW f, IsFiniteSet(DOMAIN f), f = [x \in DOMAIN f |-> f[x]]
  PROVE  IsFiniteSet({f[x] : x \in DOMAIN f})
  <1> DEFINE T == {f[x] : x \in DOMAIN f}
  <1>1. f \in [DOMAIN f -> T] /\ \A y \in T : \E x \in DOMAIN f : f[x] = y
    OBVIOUS
  <1>2. f \in Surjection(DOMAIN f, T)
    BY <1>1, Fun_IsSurj
  <1> QED BY <1>2, FS_Surjection

LEMMA MergeIsFair ==
  ASSUME Len(req.out) \in Nat, DOMAIN req.out = 1 .. Len(req.out),
         \A n \in DOMAIN req.out : IsSequence(req.out[n].found.keys)
  PROVE  LET Of(n) == Cardinality({m \in DOMAIN MergedPage : MergedPage[m].slot = n}) IN
         \A m, n \in DOMAIN req.out : Of(m) < Len(req.out[m].found.keys) => Of(n) <= Of(m) + 1
  <1> DEFINE L == Len(req.out)
             Count == [n \in 1 .. L |-> Len(req.out[n].found.keys)]
             ofSlot == [n \in 1 .. L |-> {[slot |-> n, rank |-> m] : m \in DOMAIN req.out[n].found.keys}]
             hits == UNION {{[slot |-> n, rank |-> m] : m \in DOMAIN req.out[n].found.keys} : n \in DOMAIN req.out}
             before == [x \in hits |-> {y \in hits : Outranks(y, x)}]
             fused == SortedBy(hits, before)
             P == Page(fused, 0, SearchLimit)
  <1>1. \A n \in 1 .. L : Count[n] \in Nat /\ DOMAIN req.out[n].found.keys = 1 .. Count[n]
    BY SequenceShape
  <1>2. \A x : x \in hits <=> \E n \in 1 .. L : \E r \in 1 .. Count[n] : x = [slot |-> n, rank |-> r]
    <2>1. \A x : x \in hits <=> \E n \in DOMAIN req.out : \E r \in DOMAIN req.out[n].found.keys : x = [slot |-> n, rank |-> r]
      OBVIOUS
    <2> HIDE DEF hits, Count
    <2> QED BY <1>1, <2>1
  <1>3. IsFiniteSet(hits)
    <2>1. ASSUME NEW n \in 1 .. L
          PROVE  IsFiniteSet(ofSlot[n])
      <3> DEFINE f == [m \in 1 .. Count[n] |-> [slot |-> n, rank |-> m]]
      <3>1. IsFiniteSet(DOMAIN f)
        <4>1. Count[n] \in Int /\ 1 \in Int
          BY <1>1
        <4> HIDE DEF Count
        <4> QED BY <4>1, FS_Interval
      <3>2. f = [m \in DOMAIN f |-> f[m]]
        OBVIOUS
      <3>3. ofSlot[n] = {f[m] : m \in DOMAIN f}
        BY <1>1
      <3> HIDE DEF f, ofSlot, Count
      <3>4. IsFiniteSet({f[m] : m \in DOMAIN f})
        BY <3>1, <3>2, FiniteImage
      <3> QED BY <3>3, <3>4
    <2>2. IsFiniteSet(1 .. L)
      BY FS_Interval
    <2>3. DOMAIN ofSlot = 1 .. L /\ ofSlot = [n \in DOMAIN ofSlot |-> ofSlot[n]]
      OBVIOUS
    <2>4. hits \subseteq UNION {ofSlot[n] : n \in DOMAIN ofSlot}
      <3>1. ASSUME NEW n \in 1 .. L, NEW r \in 1 .. Count[n]
            PROVE  [slot |-> n, rank |-> r] \in ofSlot[n]
        BY <1>1
      <3> HIDE DEF ofSlot, hits, Count
      <3> QED BY <1>2, <2>3, <3>1
    <2> HIDE DEF ofSlot, L, hits
    <2>5. IsFiniteSet({ofSlot[n] : n \in DOMAIN ofSlot})
      BY <2>2, <2>3, FiniteImage
    <2>6. IsFiniteSet(UNION {ofSlot[n] : n \in DOMAIN ofSlot})
      BY <2>1, <2>3, <2>5, FS_UNION
    <2> QED BY <2>4, <2>6, FS_Subset
  <1> HIDE DEF hits, Count, ofSlot, L
  <1>4. L \in Nat /\ \A x \in hits : x.slot \in Nat /\ x.rank \in Nat /\ x.rank >= 1
    BY <1>1, <1>2 DEF L
  <1>5. \A x, y \in hits : x # y => Outranks(x, y) \/ Outranks(y, x)
    <2> TAKE x, y \in hits
    <2>1. x.slot = y.slot /\ x.rank = y.rank => x = y
      BY <1>2
    <2> QED BY <1>4, <2>1 DEF Outranks
  <1>6. /\ \A x \in hits : ~Outranks(x, x)
        /\ \A x, y, z \in hits : Outranks(x, y) /\ Outranks(y, z) => Outranks(x, z)
    BY <1>4 DEF Outranks
  <1>7. Orders(hits, before)
    BY <1>5, <1>6 DEF Orders
  <1> DEFINE N == Cardinality(hits)
  <1>8. /\ N \in Nat /\ fused \in [1 .. N -> hits]
        /\ \A x \in hits : \E n \in 1 .. N : fused[n] = x
        /\ \A m, n \in 1 .. N : m < n => Outranks(fused[m], fused[n])
    <2> HIDE DEF before
    <2>1. /\ N \in Nat /\ fused \in [1 .. N -> hits]
          /\ \A x \in hits : \E n \in 1 .. N : fused[n] = x
          /\ \A m, n \in 1 .. N : m < n => fused[m] \in before[fused[n]]
      BY <1>3, <1>7, SortedByProperties
    <2> HIDE DEF fused
    <2> QED BY <2>1 DEF before
  <1> HIDE DEF fused, N
  <1>9. fused \in Seq(hits) /\ Len(fused) = N
    <2>1. fused \in Seq(hits)
      BY <1>8, SeqDef
    <2> QED BY <1>8, <2>1, LenProperties
  <1> DEFINE K == Len(P)
  <1>10. /\ K \in Nat /\ DOMAIN P = 1 .. K /\ K <= N
         /\ \A k \in 1 .. K : k \in 1 .. N /\ P[k] = fused[k] /\ P[k] \in hits
    <2>1. SearchLimit \in Nat /\ DOMAIN fused = 1 .. N
      BY <1>8, QueryAssumption
    <2>2. /\ K \in Nat /\ DOMAIN P = 1 .. K
          /\ K = IF SearchLimit < N THEN SearchLimit ELSE N
          /\ \A k \in DOMAIN P : k \in DOMAIN fused /\ P[k] = fused[k]
      BY <1>9, <2>1, FirstPage
    <2> HIDE DEF P
    <2>3. K <= N
      BY <1>8, <2>1, <2>2
    <2>4. ASSUME NEW k \in 1 .. K
          PROVE  k \in 1 .. N /\ P[k] = fused[k] /\ P[k] \in hits
      <3>1. k \in DOMAIN P
        BY <2>2
      <3>2. k \in 1 .. N /\ P[k] = fused[k]
        BY <2>1, <2>2, <3>1
      <3> QED BY <1>8, <3>2
    <2> QED BY <2>2, <2>3, <2>4
  <1>11. MergedPage = P
    BY DEF MergedPage, P, fused, hits, before
  <1> HIDE DEF P, K
  <1>12. \A j, k \in 1 .. K : P[j] = P[k] => j = k
    <2> TAKE j, k \in 1 .. K
    <2>1. j \in 1 .. N /\ k \in 1 .. N /\ P[j] = fused[j] /\ P[k] = fused[k] /\ P[j] \in hits
      BY <1>10
    <2>2. (j < k => Outranks(P[j], P[k])) /\ (k < j => Outranks(P[k], P[j]))
      BY <1>8, <2>1
    <2> QED BY <1>6, <1>10, <2>1, <2>2
  \* What outranks a hit on the page is on the page.
  <1>13. ASSUME NEW k \in 1 .. K, NEW y \in hits, Outranks(y, P[k])
         PROVE  \E j \in 1 .. K : P[j] = y
    <2>1. PICK j \in 1 .. N : fused[j] = y
      BY <1>8
    <2>2. k \in 1 .. N /\ P[k] = fused[k] /\ P[k] \in hits
      BY <1>10
    <2>3. ~(k < j) /\ k # j
      BY <1>6, <1>8, <1>13, <2>1, <2>2
    <2>4. j \in 1 .. K
      BY <1>8, <1>10, <2>3
    <2> QED BY <1>10, <2>1, <2>4
  <1> DEFINE On(n, r) == \E k \in 1 .. K : P[k] = [slot |-> n, rank |-> r]
             Places(n) == {k \in 1 .. K : P[k].slot = n}
             Ranks(n) == {r \in 1 .. Count[n] : On(n, r)}
  <1>14. ASSUME NEW n \in 1 .. L
         PROVE  IsFiniteSet(Ranks(n)) /\ Cardinality(Ranks(n)) \in Nat /\ Cardinality(Places(n)) = Cardinality(Ranks(n))
    <2> DEFINE f == [k \in Places(n) |-> P[k].rank]
    <2>1. \A k \in Places(n) : P[k] = [slot |-> n, rank |-> P[k].rank] /\ P[k].rank \in 1 .. Count[n]
      BY <1>2, <1>10
    <2>2. f \in [Places(n) -> Ranks(n)]
      BY <2>1
    <2>3. \A j, k \in Places(n) : f[j] = f[k] => j = k
      BY <1>12, <2>1
    <2>4. \A r \in Ranks(n) : \E k \in Places(n) : f[k] = r
      OBVIOUS
    <2>5. IsFiniteSet(Places(n))
      <3>1. IsFiniteSet(1 .. K)
        BY <1>10, FS_Interval
      <3> QED BY <3>1, FS_Subset
    <2> HIDE DEF f, Places, Ranks
    <2>6. f \in Bijection(Places(n), Ranks(n))
      BY <2>2, <2>3, <2>4, Fun_IsBij
    <2>7. ExistsBijection(Places(n), Ranks(n))
      BY <2>6 DEF ExistsBijection
    <2> QED BY <2>5, <2>7, FS_Bijection, FS_CardinalityType
  <1>15. ASSUME NEW m \in 1 .. L, NEW n \in 1 .. L, Cardinality(Places(m)) < Count[m]
         PROVE  Cardinality(Places(n)) <= Cardinality(Places(m)) + 1
    <2> DEFINE c == Cardinality(Places(m))
    <2>1. c \in Nat /\ c = Cardinality(Ranks(m)) /\ c < Count[m] /\ Count[m] \in Nat
      BY <1>1, <1>14, <1>15 DEF L
    <2> HIDE DEF c, Places
    <2>2. IsFiniteSet(1 .. (c + 1)) /\ Cardinality(1 .. (c + 1)) = c + 1
      <3>1. c + 1 \in Int /\ 1 \in Int /\ ~(1 > c + 1) /\ (c + 1) - 1 + 1 = c + 1
        BY <2>1
      <3>2. \A a, b \in Int : IsFiniteSet(a .. b) /\ Cardinality(a .. b) = IF a > b THEN 0 ELSE b - a + 1
        BY FS_Interval
      <3> QED BY <3>1, <3>2
    <2>3. ~On(m, c + 1)
      <3>1. SUFFICES ASSUME On(m, c + 1) PROVE FALSE
        OBVIOUS
      <3>2. PICK k \in 1 .. K : P[k] = [slot |-> m, rank |-> c + 1]
        BY <3>1
      <3>3. ASSUME NEW r \in 1 .. (c + 1)
            PROVE  r \in Ranks(m)
        <4>1. r \in 1 .. Count[m]
          BY <2>1
        <4>2. CASE r = c + 1
          BY <3>1, <4>1, <4>2
        <4>3. CASE r < c + 1
          <5>1. [slot |-> m, rank |-> r] \in hits
            BY <1>2, <4>1
          <5>2. Outranks([slot |-> m, rank |-> r], P[k])
            BY <3>2, <4>3 DEF Outranks
          <5> QED BY <1>13, <4>1, <5>1, <5>2
        <4> QED BY <2>1, <4>2, <4>3
      <3>4. Cardinality(1 .. (c + 1)) <= Cardinality(Ranks(m))
        <4>1. 1 .. (c + 1) \subseteq Ranks(m) /\ IsFiniteSet(Ranks(m))
          BY <1>14, <3>3
        <4> HIDE DEF Ranks
        <4> QED BY <4>1, FS_Subset
      <3> QED BY <2>1, <2>2, <3>4
    <2>4. ASSUME NEW r \in Ranks(n)
          PROVE  r \in 1 .. (c + 1)
      <3>1. PICK k \in 1 .. K : P[k] = [slot |-> n, rank |-> r]
        OBVIOUS
      <3>2. r \in Nat /\ r >= 1
        BY <1>1 DEF L
      <3>3. [slot |-> m, rank |-> c + 1] \in hits
        BY <1>2, <2>1
      <3>4. c + 1 < r => Outranks([slot |-> m, rank |-> c + 1], P[k])
        BY <3>1 DEF Outranks
      <3>5. ~(c + 1 < r)
        BY <1>13, <2>3, <3>3, <3>4
      <3> QED BY <2>1, <3>2, <3>5
    <2>5. Cardinality(Ranks(n)) <= c + 1
      <3> DEFINE I == 1 .. (c + 1)
      <3>1. Ranks(n) \subseteq I /\ IsFiniteSet(I)
        BY <2>2, <2>4
      <3> HIDE DEF Ranks, I
      <3>2. Cardinality(Ranks(n)) <= Cardinality(I)
        BY <3>1, FS_Subset
      <3> QED BY <2>2, <3>2 DEF I
    <2> QED BY <1>14, <2>5 DEF c
  <1>16. \A n \in 1 .. L : Count[n] = Len(req.out[n].found.keys)
    BY DEF Count
  <1>17. \A n : {m \in DOMAIN MergedPage : MergedPage[m].slot = n} = Places(n)
    BY <1>10, <1>11
  <1> HIDE DEF Places
  <1> QED BY <1>15, <1>16, <1>17 DEF L

---------------------------------------------------------------------------
(* Queries: a page of a walk *)

\* The walk has an order: every document has a value in it, and a cursor keeps all of it.
Sortable(i) == SortField(i) \in Cols /\ SortField(i) \notin NullableCols /\ SortField(i) \notin Stamps

CursorOf(i) == [f : {SortField(i)}, d : {i.dir}, v : Nat \ {0}, k : DocKeys]

\* No write leaves a field empty that is not declared nullable.
Filled(x, fields) == \A f \in fields : x.data[f] # 0
WholeDocuments ==
  /\ \A c \in Colls, d \in DocKeys : FirstDocs[c][d] # None => Filled(FirstDocs[c][d], Cols \ NullableCols)
  /\ \A x \in Contents : Filled(x, (Cols \ NullableCols) \ {Pk})
Whole(x) == WholeDocuments => Filled(x, Cols \ NullableCols)

\* The documents of a collection.
DocsOK(D) ==
  \A d \in DocKeys : D[d] # None => DocumentRow(D[d]) /\ D[d].data[Pk] = d /\ Whole(D[d])

KeysOf(found) == {found.keys[n] : n \in DOMAIN found.keys}

LEMMA CheckedIsSortable ==
  ASSUME NEW i, NEW after, CheckIntent(i, after) = "ok", KeysetActive(i), SortField(i) \notin Stamps
  PROVE  Sortable(i)
  <1>1. Referenced(i) \subseteq Cols /\ SortsTotally(i)
    BY DEF CheckIntent
  <1>2. SortField(i) \in Cols
    BY <1>1, QueryAssumption DEF SortField, Referenced, Computed
  <1> QED BY <1>1, <1>2 DEF Sortable, SortsTotally

LEMMA SortValues ==
  ASSUME WholeDocuments, NEW D, DocsOK(D), NEW i, Sortable(i), NEW after, NEW g
  PROVE  \A d \in Matching(D, i, after, g) :
           /\ d \in Nat /\ D[d].data[SortField(i)] \in Nat /\ D[d].data[SortField(i)] # 0
  <1> TAKE d \in Matching(D, i, after, g)
  <1>1. d \in DocKeys /\ d \in Nat /\ DocumentRow(D[d]) /\ Filled(D[d], Cols \ NullableCols)
    BY QueryAssumption DEF Matching, DocsOK, Whole
  <1>2. D[d].data \in [Cols -> Nat]
    BY <1>1 DEF DocumentRow, DocumentsFor
  <1> QED BY <1>1, <1>2 DEF Sortable, Filled

\* The cursor of an answer is of the order that was asked for.
LEMMA AnswersCursor ==
  ASSUME WholeDocuments, NEW D, DocsOK(D), NEW i \in AnyIntent, KeysetActive(i) => Sortable(i), NEW after, NEW g,
         NEW a \in Answers(D, i, after, g)
  PROVE  a.next = None \/ (KeysetActive(i) /\ a.next \in CursorOf(i))
  <1>1. i.offset \in Nat /\ i.limit \in Nat
    BY DEF AnyIntent
  <1>2. CASE i.agg # None
    BY <1>2 DEF Answers
  <1>3. CASE i.agg = None /\ ~KeysetActive(i)
    <2>1. PICK s \in PagesOf(D, i, after, g) : a = AnswerOf(D, i, g, s)
      BY <1>3, AnswersArePages
    <2> QED BY <1>3, <2>1 DEF AnswerOf, NextCursor, Keyset
  <1>4. CASE i.agg = None /\ KeysetActive(i)
    <2>1. PICK s \in PagesOf(D, i, after, g) : a = AnswerOf(D, i, g, s)
      BY <1>4, AnswersArePages
    <2>2. s \in Seq(Matching(D, i, after, g)) /\ IsSequence(s)
      BY <1>1, PagesHoldMatches
    <2>3. a.next = NextCursor(D, i, g, s)
      BY <2>1 DEF AnswerOf
    <2> DEFINE l == s[Len(s)]
               v == D[l].data[SortField(i)]
    <2>4. s # <<>> => l \in Matching(D, i, after, g)
      BY <2>2, SequenceShape, EmptySeq, ElementOfSeq
    <2>5. s # <<>> => l \in DocKeys /\ v \in Nat /\ v # 0
      <3> HIDE DEF l
      <3> QED BY <1>4, <2>4, SortValues DEF Matching
    <2>6. a.next = None \/ (s # <<>> /\ a.next = [f |-> SortField(i), d |-> i.dir, v |-> v, k |-> l])
      BY <1>4, <2>3 DEF NextCursor, Json, Sortable
    <2> HIDE DEF l, v
    <2> QED BY <1>4, <2>5, <2>6 DEF CursorOf
  <1> QED BY <1>2, <1>3, <1>4

\* A page of a walk holds the documents from its cursor on up to the one it hands out.
LEMMA PageOfWalk ==
  ASSUME WholeDocuments, NEW D, DocsOK(D), NEW i \in AnyIntent, NEW g, Keyset(i, g), Sortable(i),
         NEW after, after # None => after \in CursorOf(i),
         NEW a \in Answers(D, i, after, g)
  PROVE  LET M == Matching(D, i, None, g) IN
         /\ KeysOf(a) \subseteq M
         /\ \A d \in M : d \in KeysOf(a) <=> /\ after = None \/ Beyond(D, i, after, d)
                                             /\ a.next = None \/ ~Beyond(D, i, a.next, d)
         /\ \A d \in M : a.next # None /\ Beyond(D, i, a.next, d) => after = None \/ Beyond(D, i, after, d)
  <1> DEFINE M == Matching(D, i, None, g)
             S == Matching(D, i, after, g)
             F == SortField(i)
             V(d) == D[d].data[F]
             Precedes(d, e) == IF i.dir = "asc" THEN V(d) < V(e) \/ (V(d) = V(e) /\ d < e)
                               ELSE V(e) < V(d) \/ (V(e) = V(d) /\ e < d)
             limit == i.limit
  <1>1. i.offset = 0 /\ i.agg = None /\ limit \in Nat \ {0}
    BY DEF Keyset, KeysetActive, AnyIntent
  <1>2. \A d \in M : d \in Nat /\ V(d) \in Nat /\ V(d) # 0
    BY SortValues
  <1>3. \A d \in S : d \in M
    BY DEF Matching
  <1>4. \A d \in M : d \in S <=> (after = None \/ Beyond(D, i, after, d))
    BY DEF Matching
  <1>5. PICK s \in PagesOf(D, i, after, g) : a = AnswerOf(D, i, g, s)
    BY <1>1, AnswersArePages
  <1>6. PICK o \in OrdersOf(D, i, after, g) : s = Page(o, 0, limit)
    BY <1>1 DEF PagesOf
  <1> DEFINE N == Cardinality(S)
  <1>7. /\ N \in Nat /\ o \in [1 .. N -> S]
        /\ \A m, n \in 1 .. N : o[m] = o[n] => m = n
        /\ \A m, n \in 1 .. N : m < n => Precedes(o[m], o[n])
    <2>1. N \in Nat
      BY MatchingIsFinite
    <2>2. /\ o \in [1 .. N -> S]
          /\ \A m, n \in 1 .. N : o[m] = o[n] => m = n
          /\ \A m, n \in 1 .. N : m < n => IF i.dir = "asc" THEN RanksBefore(D, F, o[m], o[n])
                                                           ELSE RanksBefore(D, F, o[n], o[m])
      BY <1>1 DEF OrdersOf, Enumerations, InOrderOf
    <2>3. \A m, n \in 1 .. N : m < n => Precedes(o[m], o[n])
      <3> TAKE m, n \in 1 .. N
      <3>1. o[m] \in M /\ o[n] \in M
        BY <1>3, <2>2
      <3> DEFINE d == o[m]
                 e == o[n]
      <3>2. V(d) \in Nat /\ V(e) \in Nat /\ V(d) # 0 /\ V(e) # 0
        BY <1>2, <3>1
      <3>3. m < n => IF i.dir = "asc" THEN RanksBefore(D, F, d, e) ELSE RanksBefore(D, F, e, d)
        BY <2>2
      <3> HIDE DEF d, e
      <3>4. m < n => Precedes(d, e)
        BY <3>2, <3>3 DEF RanksBefore, Lower
      <3> QED BY <3>4 DEF d, e
    <2> QED BY <2>1, <2>2, <2>3
  <1>8. \A d \in S : \E m \in 1 .. N : o[m] = d
    <2>1. IsFiniteSet(S)
      BY MatchingIsFinite
    <2> HIDE DEF S
    <2>2. o \in Injection(1 .. N, S)
      BY <1>7, Fun_IsInj
    <2>3. Cardinality(1 .. N) = N
      <3>1. N \in Int /\ 1 \in Int /\ (1 > N => N = 0) /\ N - 1 + 1 = N
        BY <1>7
      <3>2. \A b, c \in Int : Cardinality(b .. c) = IF b > c THEN 0 ELSE c - b + 1
        BY FS_Interval
      <3> HIDE DEF N
      <3> QED BY <3>1, <3>2
    <2>4. o \in Surjection(1 .. N, S)
      BY <2>1, <2>2, <2>3, FS_Injection
    <2> QED BY <2>4 DEF Surjection
  <1>9. o \in Seq(S) /\ Len(o) = N
    <2> HIDE DEF S, N
    <2>1. o \in Seq(S)
      BY <1>7, SeqDef
    <2> QED BY <1>7, <2>1, LenProperties
  <1> HIDE DEF S, M, N, limit
  <1> DEFINE K == Len(s)
  <1>10. /\ K \in Nat /\ DOMAIN s = 1 .. K /\ K = IF limit < N THEN limit ELSE N
         /\ \A n \in 1 .. K : n \in 1 .. N /\ s[n] = o[n]
    <2>1. /\ K \in Nat /\ DOMAIN s = 1 .. K /\ K = IF limit < Len(o) THEN limit ELSE Len(o)
          /\ \A n \in DOMAIN s : n \in DOMAIN o /\ s[n] = o[n]
      BY <1>1, <1>6, <1>9, FirstPage
    <2>2. DOMAIN o = 1 .. N
      BY <1>7
    <2> HIDE DEF K
    <2> QED BY <1>9, <2>1, <2>2
  <1>11. KeysOf(a) = {s[n] : n \in 1 .. K} /\ a.next = NextCursor(D, i, g, s)
    BY <1>5, <1>10 DEF AnswerOf, KeysOf
  <1>12. KeysOf(a) \subseteq S
    BY <1>7, <1>10, <1>11
  <1>13. \A m \in 1 .. N : o[m] \in KeysOf(a) <=> m <= K
    <2> TAKE m \in 1 .. N
    <2>1. m <= K => m \in 1 .. K /\ s[m] = o[m]
      BY <1>7, <1>10
    <2>2. ASSUME NEW n \in 1 .. K, s[n] = o[m]
          PROVE  m <= K
      <3>1. n = m
        BY <1>7, <1>10, <2>2
      <3> QED BY <1>10, <3>1
    <2> QED BY <1>11, <2>1, <2>2
  <1>14. CASE a.next = None
    <2>1. ~(K = limit /\ s # <<>>)
      <3>1. K = limit /\ s # <<>> => NextCursor(D, i, g, s)
                                     = [f |-> F, d |-> i.dir, v |-> Json(F, D[s[K]].data[F]), k |-> s[K]]
        BY DEF NextCursor, limit
      <3>2. K = limit /\ s # <<>> => NextCursor(D, i, g, s) \in CursorOf(i)
        <4> SUFFICES ASSUME K = limit, s # <<>> PROVE NextCursor(D, i, g, s) \in CursorOf(i)
          OBVIOUS
        <4>1. s[K] \in S /\ s[K] \in DocKeys
          BY <1>1, <1>7, <1>10 DEF S, Matching
        <4>2. Json(F, V(s[K])) = V(s[K]) /\ V(s[K]) \in Nat \ {0}
          BY <1>2, <1>3, <4>1 DEF Json, Sortable
        <4> QED BY <3>1, <4>1, <4>2 DEF CursorOf
      <3>3. None \notin CursorOf(i)
        <4>1. F \in Cols /\ i.dir \in {"asc", "desc"}
          BY DEF Sortable, AnyIntent
        <4> QED BY <4>1, QueryAssumption DEF CursorOf
      <3> QED BY <1>11, <1>14, <3>2, <3>3
    <2>2. K = N
      <3>1. s = <<>> => K = 0
        OBVIOUS
      <3> QED BY <1>1, <1>7, <1>10, <2>1, <3>1
    <2>3. \A d \in S : d \in KeysOf(a)
      BY <1>7, <1>8, <1>13, <2>2
    <2> QED BY <1>3, <1>4, <1>12, <1>14, <2>3 DEF M
  <1>15. CASE a.next # None
    <2> DEFINE l == s[K]
               c == a.next
    <2>1. K = limit /\ c = [f |-> F, d |-> i.dir, v |-> Json(F, V(l)), k |-> l]
      BY <1>11, <1>15 DEF NextCursor, limit
    <2>2. K \in 1 .. N /\ l = o[K] /\ l \in S /\ l \in M
      BY <1>1, <1>3, <1>7, <1>10, <2>1
    <2>3. c.f = F /\ c.v = V(l) /\ c.k = l
      BY <2>1 DEF Json, Sortable
    <2> HIDE DEF l, c
    <2>4. \A d \in M : Beyond(D, i, c, d) <=> Precedes(l, d)
      <3> TAKE d \in M
      <3>1. V(d) \in Nat /\ V(d) # 0 /\ V(l) \in Nat /\ V(l) # 0 /\ d \in Nat /\ l \in Nat
        BY <1>2, <2>2
      <3> DEFINE vd == V(d)
                 vl == V(l)
      <3>2. Beyond(D, i, c, d) <=> (vd # 0 /\ vl # 0 /\ IF i.dir = "asc" THEN vd > vl \/ (vd = vl /\ d > l) ELSE vd < vl \/ (vd = vl /\ d < l))
        BY <2>3 DEF Beyond
      <3>3. Precedes(l, d) <=> IF i.dir = "asc" THEN vl < vd \/ (vl = vd /\ l < d) ELSE vd < vl \/ (vd = vl /\ d < l)
        OBVIOUS
      <3>4. vd \in Nat /\ vd # 0 /\ vl \in Nat /\ vl # 0 /\ d \in Nat /\ l \in Nat
        BY <3>1
      <3> HIDE DEF vd, vl, Precedes
      <3> QED BY <3>2, <3>3, <3>4
    <2>5. \A d, e \in M : ~(Precedes(d, e) /\ Precedes(e, d))
      <3> TAKE d, e \in M
      <3>1. V(d) \in Nat /\ V(e) \in Nat /\ d \in Nat /\ e \in Nat
        BY <1>2
      <3> QED BY <3>1
    <2>6. \A m \in 1 .. N : Precedes(l, o[m]) <=> m > K
      <3> TAKE m \in 1 .. N
      <3>1. o[m] \in M /\ l \in M
        BY <1>3, <1>7, <2>2
      <3>2. (m > K => Precedes(l, o[m])) /\ (m < K => Precedes(o[m], l))
        BY <1>7, <2>2
      <3>3. m = K => ~Precedes(l, o[m])
        BY <2>2, <2>5, <3>1
      <3> HIDE DEF Precedes
      <3> QED BY <1>10, <2>5, <3>1, <3>2, <3>3
    <2>7. \A d \in S : d \in KeysOf(a) <=> ~Precedes(l, d)
      <3> TAKE d \in S
      <3>1. PICK m \in 1 .. N : o[m] = d
        BY <1>8
      <3> HIDE DEF Precedes
      <3> QED BY <1>10, <1>13, <2>6, <3>1
    <2>8. ASSUME NEW d \in M, Precedes(l, d)
          PROVE  after = None \/ Beyond(D, i, after, d)
      <3>1. SUFFICES ASSUME after # None PROVE Beyond(D, i, after, d)
        OBVIOUS
      <3>2. after \in CursorOf(i) /\ Beyond(D, i, after, l)
        BY <1>4, <2>2, <3>1
      <3>3. after.f = F /\ after.v \in Nat \ {0} /\ after.k \in Nat
        BY <3>2, QueryAssumption DEF CursorOf
      <3> DEFINE vd == V(d)
                 vl == V(l)
                 va == after.v
                 ka == after.k
      <3>4. Beyond(D, i, after, d) <=> (vd # 0 /\ va # 0 /\ IF i.dir = "asc" THEN vd > va \/ (vd = va /\ d > ka) ELSE vd < va \/ (vd = va /\ d < ka))
        BY <3>3 DEF Beyond
      <3>5. vl # 0 /\ IF i.dir = "asc" THEN vl > va \/ (vl = va /\ l > ka) ELSE vl < va \/ (vl = va /\ l < ka)
        BY <3>2, <3>3 DEF Beyond
      <3>6. IF i.dir = "asc" THEN vl < vd \/ (vl = vd /\ l < d) ELSE vd < vl \/ (vd = vl /\ d < l)
        BY <2>8
      <3>7. vd \in Nat /\ vd # 0 /\ vl \in Nat /\ d \in Nat /\ l \in Nat /\ va \in Nat \ {0} /\ ka \in Nat
        BY <1>2, <2>2, <3>3
      <3> HIDE DEF vd, vl, va, ka
      <3> QED BY <3>4, <3>5, <3>6, <3>7
    <2> HIDE DEF Precedes
    <2> QED BY <1>3, <1>4, <1>12, <1>15, <2>4, <2>7, <2>8 DEF M, c
  <1> QED BY <1>14, <1>15 DEF M

---------------------------------------------------------------------------
(* Queries: the inductive invariant *)

ReadStates == {"idle", "check", "guard", "rev", "audit", "envelope", "answer"}
IsRequest(r) ==
  r \in [pc : ReadStates, op : AllReadOps, slots : {r.slots}, at : Nat, after : {r.after}, grant : {r.grant},
         since : {r.since}, found : {r.found}, read : {r.read}, tag : {r.tag}, out : {r.out}]

SlotOK(i) == i.coll \in Colls /\ i.offset \in Nat /\ i.limit \in Nat

Granted(out) == {n \in DOMAIN out : out[n].ok}

\* The results of the slots that are over, their rows, and the grant of the one at hand.
RequestOK(r, h, w) ==
  /\ IsRequest(r) /\ w \in [allowed : Nat, refused : Nat]
  /\ r.pc # "idle" => /\ IsSequence(r.slots) /\ r.at \in DOMAIN r.slots
                      /\ \A n \in DOMAIN r.slots : SlotOK(r.slots[n])
                      /\ w.allowed >= Cardinality(Granted(r.out))
  /\ IsSequence(r.out) /\ \A n \in DOMAIN r.out : IsSequence(r.out[n].found.keys)
  /\ IsSequence(r.found.keys) /\ Once(r.found.keys)
  /\ r.pc \in {"check", "guard", "rev", "audit"} => Len(r.out) = r.at - 1
  /\ r.pc = "check" => h[r.slots[r.at].coll] \in r.since
  /\ r.pc = "guard" => r.grant \in r.since
  /\ r.pc = "rev" => r.op = "get"
  /\ r.pc = "envelope" => r.op \in {"batch", "search"}
  /\ r.pc = "answer" /\ r.op \in {"batch", "search"} =>
       Granted(r.out) = {} \/ w.allowed >= Cardinality(Granted(r.out)) + 1

IsWalk(w) ==
  w \in [intent : Intents, grant : {w.grant}, seen : [DocKeys -> Nat], steady : SUBSET DocKeys,
         next : {w.next}, ended : BOOLEAN]

\* A walk: its order, and for as long as its documents stay what it has seen of them.
WalkShape(w) ==
  /\ IsWalk(w) /\ Keyset(w.intent, w.grant)
  /\ w.next # None => w.next \in CursorOf(w.intent) /\ Sortable(w.intent) /\ ~w.ended

\* Of the documents that the walk is about, those up to a cursor; all of them without one.
UpTo(w, D, after, d) ==
  d \in Matching(D, w.intent, None, w.grant) /\ (after = None \/ ~Beyond(D, w.intent, after, d))

SeenOK(w, D) ==
  \A d \in w.steady :
    /\ w.seen[d] <= 1
    /\ w.next # None \/ w.ended => w.seen[d] = IF UpTo(w, D, w.next, d) THEN 1 ELSE 0

\* A page holds, of the documents that stay, those from one cursor to the next.
PageFits(w, D, after, a) ==
  /\ a.next = None \/ (a.next \in CursorOf(w.intent) /\ Sortable(w.intent))
  /\ \A d \in w.steady :
       LET M == Matching(D, w.intent, None, w.grant) IN
       /\ d \in KeysOf(a) <=> /\ d \in M /\ (after = None \/ Beyond(D, w.intent, after, d))
                              /\ a.next = None \/ ~Beyond(D, w.intent, a.next, d)
       /\ d \in M /\ a.next # None /\ Beyond(D, w.intent, a.next, d) => after = None \/ Beyond(D, w.intent, after, d)

\* The request of a walk asks for its next page, in its order or by mistake in the other.
PageOfIt(w, r, D) ==
  /\ r.op = "query" /\ r.at = 1 /\ r.after = w.next /\ ~w.ended
  /\ \E dir \in {"asc", "desc"} : r.slots = <<[w.intent EXCEPT !.dir = dir]>>
  /\ r.after = None => r.slots = <<w.intent>> /\ \A d \in DocKeys : w.seen[d] = 0
  /\ r.pc \in {"check", "guard", "audit", "answer"}
  /\ r.pc = "guard" => CheckIntent(r.slots[1], r.after) = "ok" /\ (w.steady # {} => r.grant = w.grant)
  /\ r.pc = "audit" => PageFits(w, D, r.after, r.found)
  /\ r.pc = "answer" => Len(r.out) = 1 /\ (r.out[1].ok => PageFits(w, D, r.after, r.out[1].found))

WalkOK(w, r, D, h) ==
  /\ WalkShape(w) /\ SeenOK(w, D)
  /\ w.steady # {} => h[w.intent.coll] = w.grant
  /\ r.pc # "idle" => PageOfIt(w, r, D)

HeldOK == held = [c \in Colls |-> held[c]] /\ \A c \in Colls : held[c] \in GrantsFor[c]
AllDocsOK ==
  /\ docs = [c \in Colls |-> docs[c]]
  /\ \A c \in Colls : docs[c] = [d \in DocKeys |-> docs[c][d]] /\ DocsOK(docs[c])

\* A cursor has the whole position: no walk goes by a field that JSON cuts (sql/cursor.ts:16).
ExactCursors == \A i \in Intents : KeysetActive(i) => SortField(i) \notin Stamps
TotalWalks == ExactCursors /\ WholeDocuments

QueryInv ==
  /\ HeldOK /\ AllDocsOK /\ pages \in 0 .. MaxPages /\ edits \in 0 .. MaxEdits
  /\ RequestOK(req, held, written)
  /\ walk # None => IsWalk(walk)
  /\ TotalWalks /\ walk # None => WalkOK(walk, req, docs[walk.intent.coll], held)

---------------------------------------------------------------------------
(* Queries: a slot is over *)

LEMMA IntentShape ==
  ASSUME NEW i \in Intents, NEW dir \in {"asc", "desc"}, NEW j, j = [i EXCEPT !.dir = dir]
  PROVE  /\ i \in AnyIntent /\ j \in AnyIntent /\ SlotOK(j) /\ j.coll = i.coll /\ j.dir = dir
         /\ (dir = i.dir => j = i)
         /\ \A after : CheckIntent(j, after) = CheckIntent(i, after)
  <1>1. i \in AnyIntent
    BY QueryAssumption
  <1>2. /\ j \in AnyIntent /\ j.coll = i.coll /\ j.fields = i.fields /\ j.filters = i.filters /\ j.by = i.by
        /\ j.agg = i.agg /\ j.group = i.group /\ j.offset = i.offset /\ j.limit = i.limit /\ j.plain = i.plain
        /\ j.dir = dir /\ (dir = i.dir => j = i)
    BY <1>1 DEF AnyIntent
  <1>3. SlotOK(j)
    BY <1>2 DEF SlotOK, AnyIntent
  <1>4. \A after : CheckIntent(j, after) = CheckIntent(i, after)
    BY <1>2 DEF CheckIntent, Referenced, Computed, KeysetActive, SortsTotally, SortField
  <1> QED BY <1>1, <1>2, <1>3, <1>4

LEMMA GrantedAppended ==
  ASSUME NEW out, IsSequence(out), NEW x
  PROVE  /\ IsFiniteSet(Granted(out)) /\ Cardinality(Granted(out)) \in Nat
         /\ ~x.ok => Granted(Append(out, x)) = Granted(out)
         /\ x.ok => Cardinality(Granted(Append(out, x))) = Cardinality(Granted(out)) + 1
  <1> DEFINE n == Len(out)
             more == Append(out, x)
  <1>1. n \in Nat /\ DOMAIN out = 1 .. n
    BY SequenceShape
  <1>2. IsSequence(more) /\ Len(more) = n + 1 /\ (\A k \in 1 .. n : more[k] = out[k]) /\ more[n + 1] = x
    BY AppendShape
  <1> HIDE DEF more
  <1>3. DOMAIN more = 1 .. (n + 1)
    BY <1>2, SequenceShape
  <1> HIDE DEF n
  <1>4. IsFiniteSet(Granted(out)) /\ Cardinality(Granted(out)) \in Nat
    <2>1. IsFiniteSet(1 .. n) /\ Granted(out) \subseteq 1 .. n
      BY <1>1, FS_Interval DEF Granted
    <2> QED BY <2>1, FS_Subset, FS_CardinalityType
  <1>5. ~x.ok => Granted(more) = Granted(out)
    BY <1>1, <1>2, <1>3 DEF Granted
  <1>6. x.ok => Granted(more) = Granted(out) \cup {n + 1} /\ n + 1 \notin Granted(out)
    BY <1>1, <1>2, <1>3 DEF Granted
  <1> QED BY <1>4, <1>5, <1>6, FS_AddElement DEF more

\* Nothing but the request and its rows changes.
LEMMA OnlyTheRequest ==
  ASSUME QueryInv, UNCHANGED Others, RequestOK(req', held, written'),
         TotalWalks /\ walk # None /\ req'.pc # "idle" => PageOfIt(walk, req', docs[walk.intent.coll])
  PROVE  QueryInv'
  BY DEF QueryInv, Others, HeldOK, AllDocsOK, WalkOK

\* A result is added, and the next slot begins or the request ends.
LEMMA SlotEnds ==
  ASSUME QueryInv, req.pc \in {"check", "guard", "rev", "audit"}, NEW x, IsSequence(x.found.keys),
         written' \in [allowed : Nat, refused : Nat],
         written'.allowed >= written.allowed, x.ok => written'.allowed >= written.allowed + 1,
         TotalWalks /\ walk # None /\ x.ok => PageFits(walk, docs[walk.intent.coll], req.after, x.found),
         req' = After(Append(req.out, x)), UNCHANGED Others
  PROVE  QueryInv'
  <1> DEFINE out == Append(req.out, x)
             last == req.at = Len(req.slots)
  <1>1. /\ IsRequest(req) /\ IsSequence(req.slots) /\ req.at \in DOMAIN req.slots /\ IsSequence(req.out)
        /\ Len(req.out) = req.at - 1 /\ written.allowed >= Cardinality(Granted(req.out)) /\ written.allowed \in Nat
        /\ \A n \in DOMAIN req.out : IsSequence(req.out[n].found.keys)
        /\ \A n \in DOMAIN req.slots : SlotOK(req.slots[n])
        /\ IsSequence(req.found.keys) /\ Once(req.found.keys)
    BY DEF QueryInv, RequestOK
  <1>2. Len(req.slots) \in Nat /\ DOMAIN req.slots = 1 .. Len(req.slots) /\ req.at \in 1 .. Len(req.slots)
    BY <1>1, SequenceShape
  <1>3. /\ IsSequence(out) /\ Len(out) = req.at
        /\ \A n \in DOMAIN out : IsSequence(out[n].found.keys)
        /\ out[req.at] = x
    <2>1. /\ IsSequence(out) /\ Len(out) = Len(req.out) + 1 /\ out[Len(req.out) + 1] = x
          /\ \A n \in 1 .. Len(req.out) : out[n] = req.out[n]
      BY <1>1, AppendShape
    <2>2. DOMAIN req.out = 1 .. Len(req.out) /\ Len(req.out) \in Nat
      BY <1>1, SequenceShape
    <2> HIDE DEF out
    <2>3. DOMAIN out = 1 .. (Len(req.out) + 1)
      BY <2>1, SequenceShape
    <2>4. Len(req.out) + 1 = req.at
      BY <1>1, <1>2
    <2>5. ASSUME NEW n \in DOMAIN out
          PROVE  IsSequence(out[n].found.keys)
      <3>1. CASE n \in 1 .. Len(req.out)
        <4>1. n \in DOMAIN req.out /\ out[n] = req.out[n]
          BY <2>1, <2>2, <3>1
        <4> QED BY <1>1, <4>1
      <3>2. CASE n = Len(req.out) + 1
        <4>1. out[n] = x
          BY <2>1, <3>2
        <4> QED BY <4>1
      <3> QED BY <2>2, <2>3, <3>1, <3>2
    <2>6. Len(out) = req.at /\ out[req.at] = x
      BY <2>1, <2>4
    <2> QED BY <2>1, <2>5, <2>6
  <1>4. written'.allowed >= Cardinality(Granted(out))
    <2>1. /\ Cardinality(Granted(req.out)) \in Nat /\ (~x.ok => Granted(out) = Granted(req.out))
          /\ (x.ok => Cardinality(Granted(out)) = Cardinality(Granted(req.out)) + 1)
      BY <1>1, GrantedAppended
    <2>2. written'.allowed \in Nat
      OBVIOUS
    <2> HIDE DEF out
    <2> QED BY <1>1, <2>1, <2>2
  <1> HIDE DEF out
  <1>5. req' = After(out)
    BY DEF out
  <1>6. CASE ~last
    <2>1. req.at < Len(req.slots) /\ req.at + 1 \in DOMAIN req.slots /\ req.at + 1 \in Nat
      BY <1>2, <1>6
    <2>2. req' = [req EXCEPT !.pc = "check", !.at = req.at + 1, !.out = out, !.since = {held[req.slots[req.at + 1].coll]}]
      BY <1>5, <2>1 DEF After
    <2>3. /\ IsRequest(req') /\ req'.pc = "check" /\ req'.at = req.at + 1 /\ req'.out = out /\ req'.slots = req.slots
          /\ req'.since = {held[req.slots[req.at + 1].coll]} /\ req'.found = req.found
      BY <1>1, <2>1, <2>2 DEF IsRequest, ReadStates
    <2>4. RequestOK(req', held, written')
      <3>1. Len(out) = req.at /\ req.at \in Nat
        BY <1>2, <1>3
      <3>2. Len(req'.out) = req'.at - 1
        <4>1. \A k \in Nat : k = (k + 1) - 1
          OBVIOUS
        <4>2. req.at = (req.at + 1) - 1
          BY <3>1, <4>1
        <4> QED BY <2>3, <3>1, <4>2
      <3>3. req'.slots[req'.at] = req.slots[req.at + 1] /\ req'.at \in DOMAIN req'.slots
        BY <2>1, <2>3
      <3>4. held[req'.slots[req'.at].coll] \in req'.since
        BY <2>3, <3>3
      <3>5. /\ IsSequence(req'.out) /\ \A n \in DOMAIN req'.out : IsSequence(req'.out[n].found.keys)
            /\ written'.allowed >= Cardinality(Granted(req'.out))
        BY <1>3, <1>4, <2>3
      <3>6. IsSequence(req'.slots) /\ \A n \in DOMAIN req'.slots : SlotOK(req'.slots[n])
        BY <1>1, <2>3
      <3>7. IsSequence(req'.found.keys) /\ Once(req'.found.keys)
        BY <1>1, <2>3
      <3> QED BY <2>3, <3>2, <3>3, <3>4, <3>5, <3>6, <3>7 DEF RequestOK
    <2>5. ~(TotalWalks /\ walk # None)
      <3>1. TotalWalks /\ walk # None => PageOfIt(walk, req, docs[walk.intent.coll])
        BY DEF QueryInv, WalkOK
      <3>2. TotalWalks /\ walk # None => req.at = 1 /\ Len(req.slots) = 1
        BY <3>1 DEF PageOfIt
      <3> QED BY <1>6, <3>2
    <2> QED BY <2>4, <2>5, OnlyTheRequest
  <1>7. CASE last
    <2> DEFINE pc == IF req.op \in {"batch", "search"} THEN "envelope" ELSE "answer"
    <2>1. ~(req.at < Len(req.slots))
      BY <1>2, <1>7
    <2>2. req' = [req EXCEPT !.pc = pc, !.out = out]
      BY <1>5, <2>1 DEF After
    <2>3. /\ IsRequest(req') /\ req'.pc = pc /\ req'.out = out /\ req'.slots = req.slots /\ req'.at = req.at
          /\ req'.op = req.op /\ req'.after = req.after /\ req'.found = req.found
      BY <1>1, <2>2 DEF IsRequest, ReadStates
    <2>4. RequestOK(req', held, written')
      BY <1>1, <1>3, <1>4, <2>3 DEF RequestOK
    <2>5. ASSUME TotalWalks, walk # None
          PROVE  PageOfIt(walk, req', docs[walk.intent.coll])
      <3>1. PageOfIt(walk, req, docs[walk.intent.coll])
        BY <2>5 DEF QueryInv, WalkOK
      <3>2. req'.pc = "answer" /\ Len(out) = 1 /\ out[1] = x
        BY <1>3, <2>3, <3>1 DEF PageOfIt
      <3> QED BY <2>3, <2>5, <3>1, <3>2 DEF PageOfIt
    <2> QED BY <2>4, <2>5, OnlyTheRequest
  <1> QED BY <1>6, <1>7

---------------------------------------------------------------------------
(* Queries: the steps of a request *)

\* A refusal ends its slot with nothing found.
LEMMA RefusalEndsSlot ==
  ASSUME QueryInv, req.pc \in {"check", "guard", "rev", "audit"}, NEW reason, RefuseRead(reason)
  PROVE  QueryInv'
  <1> DEFINE x == Refused(reason)
  <1>1. PICK recorded \in {0, 1} : written' = [written EXCEPT !.refused = @ + recorded]
    BY DEF RefuseRead
  <1>2. written \in [allowed : Nat, refused : Nat]
    BY DEF QueryInv, RequestOK
  <1>3. written' \in [allowed : Nat, refused : Nat] /\ written'.allowed = written.allowed
    BY <1>1, <1>2
  <1>4. IsSequence(x.found.keys) /\ ~x.ok
    <2>1. x.found.keys = <<>> /\ ~x.ok
      BY DEF Refused, NothingFound
    <2>2. <<>> \in Seq({})
      BY EmptySeq
    <2>3. IsSequence(<<>>)
      BY <2>2, MembersOfSequence
    <2> QED BY <2>1, <2>3
  <1>5. req' = After(Append(req.out, x)) /\ UNCHANGED Others
    BY DEF RefuseRead
  <1>6. written'.allowed >= written.allowed
    BY <1>2, <1>3
  <1> HIDE DEF x
  <1> QED BY <1>3, <1>4, <1>5, <1>6, SlotEnds

\* A request other than the page of a walk has none.
LEMMA WalkAsksPages ==
  ASSUME QueryInv, TotalWalks, req.pc # "idle", walk # None
  PROVE  /\ PageOfIt(walk, req, docs[walk.intent.coll]) /\ WalkShape(walk) /\ req.op = "query"
         /\ walk.intent \in Intents /\ walk.intent \in AnyIntent /\ walk.intent.coll \in Colls
         /\ Slot = req.slots[1] /\ Slot.coll = walk.intent.coll /\ KeysetActive(walk.intent)
         /\ \E dir \in {"asc", "desc"} : Slot = [walk.intent EXCEPT !.dir = dir]
  <1>1. PageOfIt(walk, req, docs[walk.intent.coll]) /\ WalkShape(walk)
    BY DEF QueryInv, WalkOK
  <1>2. walk.intent \in Intents /\ Keyset(walk.intent, walk.grant)
    BY <1>1 DEF WalkShape, IsWalk
  <1>3. req.op = "query" /\ req.at = 1
    BY <1>1 DEF PageOfIt
  <1>4. PICK dir \in {"asc", "desc"} : req.slots = <<[walk.intent EXCEPT !.dir = dir]>>
    BY <1>1 DEF PageOfIt
  <1>5. Slot = [walk.intent EXCEPT !.dir = dir]
    BY <1>3, <1>4 DEF Slot
  <1>6. walk.intent \in AnyIntent /\ Slot.coll = walk.intent.coll
    BY <1>2, <1>5, IntentShape
  <1>7. walk.intent.coll \in Colls
    BY <1>6 DEF AnyIntent
  <1> QED BY <1>1, <1>2, <1>3, <1>5, <1>6, <1>7 DEF Slot, Keyset

LEMMA LoadGrantKeeps ==
  ASSUME QueryInv, LoadGrant
  PROVE  QueryInv'
  <1>1. /\ req.pc = "check" /\ Checked = "ok" /\ req' = [req EXCEPT !.pc = "guard", !.grant = Loaded]
        /\ UNCHANGED <<written, Others>>
    BY DEF LoadGrant
  <1>2. RequestOK(req, held, written)
    BY DEF QueryInv
  <1>3. /\ IsRequest(req') /\ req'.pc = "guard" /\ req'.grant = held[Slot.coll] /\ req'.op = req.op
        /\ req'.slots = req.slots /\ req'.at = req.at /\ req'.after = req.after /\ req'.since = req.since
        /\ req'.found = req.found /\ req'.out = req.out
    BY <1>1, <1>2 DEF RequestOK, IsRequest, ReadStates, Loaded
  <1>4. RequestOK(req', held, written')
    BY <1>1, <1>2, <1>3 DEF RequestOK, Slot
  <1>5. ASSUME TotalWalks, walk # None
        PROVE  PageOfIt(walk, req', docs[walk.intent.coll])
    <2>1. /\ PageOfIt(walk, req, docs[walk.intent.coll]) /\ req.op = "query" /\ Slot = req.slots[1]
          /\ Slot.coll = walk.intent.coll
      BY <1>1, <1>5, WalkAsksPages
    <2>2. CheckIntent(req.slots[1], req.after) = "ok"
      BY <1>1, <2>1 DEF Checked
    <2>3. walk.steady # {} => held[walk.intent.coll] = walk.grant
      BY <1>5 DEF QueryInv, WalkOK
    <2> QED BY <1>3, <2>1, <2>2, <2>3 DEF PageOfIt
  <1> QED BY <1>1, <1>4, <1>5, OnlyTheRequest

\* What the statement gives to a walk is the next page of it.
LEMMA WalksPage ==
  ASSUME QueryInv, TotalWalks, walk # None, req.pc = "guard", Verdict = "ok",
         NEW a \in Answers(docs[Slot.coll], Slot, req.after, req.grant)
  PROVE  PageFits(walk, docs[walk.intent.coll], req.after, a)
  <1> DEFINE i == walk.intent
             D == docs[i.coll]
  <1>1. /\ PageOfIt(walk, req, D) /\ WalkShape(walk) /\ req.op = "query" /\ i \in Intents /\ i \in AnyIntent
        /\ i.coll \in Colls /\ Slot = req.slots[1] /\ Slot.coll = i.coll /\ KeysetActive(i)
    BY WalkAsksPages
  <1>2. PICK dir \in {"asc", "desc"} : Slot = [i EXCEPT !.dir = dir]
    BY WalkAsksPages
  <1>3. Slot.dir = dir /\ (dir = i.dir => Slot = i) /\ CheckIntent(i, req.after) = CheckIntent(Slot, req.after)
    BY <1>1, <1>2, IntentShape
  <1>4. req.after = walk.next /\ CheckIntent(Slot, req.after) = "ok" /\ (walk.steady # {} => req.grant = walk.grant)
    BY <1>1 DEF PageOfIt
  <1>5. req.after # None => req.after \in CursorOf(i)
    BY <1>1, <1>4 DEF WalkShape, IsWalk
  <1>6. Slot = i
    <2>1. CASE req.after = None
      BY <1>1, <2>1 DEF PageOfIt
    <2>2. CASE req.after # None
      <3>1. Guard(Slot, req.after, req.grant) = "ok"
        BY <1>1 DEF Verdict
      <3>2. SameOrder(Slot, req.after)
        BY <2>2, <3>1 DEF Guard
      <3>3. req.after.d = i.dir
        BY <1>5, <2>2 DEF CursorOf
      <3> QED BY <1>3, <3>2, <3>3 DEF SameOrder
    <2> QED BY <2>1, <2>2
  <1>7. Sortable(i)
    <2>1. SortField(i) \notin Stamps
      BY <1>1 DEF TotalWalks, ExactCursors
    <2>2. CheckIntent(i, req.after) = "ok"
      BY <1>3, <1>4
    <2> HIDE DEF i
    <2> QED BY <1>1, <2>1, <2>2, CheckedIsSortable
  <1>8. DocsOK(D)
    BY <1>1 DEF QueryInv, AllDocsOK
  <1>9. a \in Answers(D, i, req.after, req.grant)
    BY <1>6
  <1>0. WholeDocuments
    BY DEF TotalWalks
  <1>10. a.next = None \/ a.next \in CursorOf(i)
    <2> HIDE DEF i, D
    <2> QED BY <1>0, <1>1, <1>7, <1>8, <1>9, AnswersCursor
  <1>11. ASSUME walk.steady # {}
         PROVE  LET M == Matching(D, i, None, walk.grant) IN
                /\ KeysOf(a) \subseteq M
                /\ \A d \in M : d \in KeysOf(a) <=> /\ req.after = None \/ Beyond(D, i, req.after, d)
                                                    /\ a.next = None \/ ~Beyond(D, i, a.next, d)
                /\ \A d \in M : a.next # None /\ Beyond(D, i, a.next, d) => req.after = None \/ Beyond(D, i, req.after, d)
    <2>1. req.grant = walk.grant /\ Keyset(i, walk.grant)
      BY <1>1, <1>4, <1>11 DEF WalkShape, IsWalk
    <2>2. a \in Answers(D, i, req.after, walk.grant)
      BY <1>9, <2>1
    <2> HIDE DEF i, D
    <2> QED BY <1>0, <1>1, <1>5, <1>7, <1>8, <2>1, <2>2, PageOfWalk
  <1> HIDE DEF i, D
  <1>12. \A d \in walk.steady :
           LET M == Matching(D, i, None, walk.grant) IN
           /\ d \in KeysOf(a) <=> /\ d \in M /\ (req.after = None \/ Beyond(D, i, req.after, d))
                                  /\ a.next = None \/ ~Beyond(D, i, a.next, d)
           /\ d \in M /\ a.next # None /\ Beyond(D, i, a.next, d) => req.after = None \/ Beyond(D, i, req.after, d)
    BY <1>11
  <1> QED BY <1>7, <1>10, <1>12 DEF PageFits, i, D

LEMMA SelectKeeps ==
  ASSUME QueryInv, Select
  PROVE  QueryInv'
  <1>1. req.pc = "guard" /\ Verdict = "ok"
    BY DEF Select
  <1>2. PICK a \in Answers(docs[Slot.coll], Slot, req.after, req.grant) :
          IF req.op = "get" /\ a.keys = <<>> THEN RefuseRead("not_found")
          ELSE /\ req' = [req EXCEPT !.pc = IF req.op = "get" THEN "rev" ELSE "audit", !.found = a,
                            !.read = IF req.op = "get" THEN docs[Slot.coll][a.keys[1]].rev ELSE 0]
               /\ UNCHANGED <<written, Others>>
    BY DEF Select
  <1>3. RequestOK(req, held, written)
    BY DEF QueryInv
  <1>4. SlotOK(Slot)
    BY <1>1, <1>3 DEF RequestOK, Slot
  <1>5. IsSequence(a.keys) /\ Once(a.keys)
    BY <1>4, AnswerKeys DEF SlotOK
  <1>6. CASE req.op = "get" /\ a.keys = <<>>
    BY <1>1, <1>2, <1>6, RefusalEndsSlot
  <1>7. CASE ~(req.op = "get" /\ a.keys = <<>>)
    <2> DEFINE pc == IF req.op = "get" THEN "rev" ELSE "audit"
    <2>1. /\ req' = [req EXCEPT !.pc = pc, !.found = a,
                       !.read = IF req.op = "get" THEN docs[Slot.coll][a.keys[1]].rev ELSE 0]
          /\ UNCHANGED <<written, Others>>
      BY <1>2, <1>7
    <2>2. /\ IsRequest(req') /\ req'.pc = pc /\ req'.op = req.op /\ req'.found = a
          /\ req'.slots = req.slots /\ req'.at = req.at /\ req'.after = req.after /\ req'.out = req.out
      BY <1>3, <2>1 DEF RequestOK, IsRequest, ReadStates
    <2>3. RequestOK(req', held, written')
      BY <1>1, <1>3, <1>5, <2>1, <2>2 DEF RequestOK
    <2>4. ASSUME TotalWalks, walk # None
          PROVE  PageOfIt(walk, req', docs[walk.intent.coll])
      <3>1. PageOfIt(walk, req, docs[walk.intent.coll]) /\ req.op = "query"
        BY <1>1, <2>4, WalkAsksPages
      <3>2. PageFits(walk, docs[walk.intent.coll], req.after, a)
        BY <1>1, <2>4, WalksPage
      <3>3. req'.pc = "audit"
        BY <2>2, <3>1
      <3> QED BY <2>2, <3>1, <3>2, <3>3 DEF PageOfIt
    <2> QED BY <2>1, <2>3, <2>4, OnlyTheRequest
  <1> QED BY <1>6, <1>7

LEMMA ReadRevKeeps ==
  ASSUME QueryInv, ReadRev
  PROVE  QueryInv'
  <1>1. RequestOK(req, held, written) /\ req.pc = "rev" /\ UNCHANGED <<written, Others>>
    BY DEF QueryInv, ReadRev
  <1>2. /\ IsRequest(req') /\ req'.pc = "audit" /\ req'.op = req.op /\ req'.found = req.found
        /\ req'.slots = req.slots /\ req'.at = req.at /\ req'.out = req.out
    BY <1>1 DEF ReadRev, RequestOK, IsRequest, ReadStates
  <1>3. RequestOK(req', held, written')
    BY <1>1, <1>2 DEF RequestOK
  <1>4. ~(TotalWalks /\ walk # None)
    <2>1. req.op = "get"
      BY <1>1 DEF RequestOK
    <2> QED BY <1>1, <2>1, WalkAsksPages
  <1> QED BY <1>1, <1>3, <1>4, OnlyTheRequest

LEMMA AllowKeeps ==
  ASSUME QueryInv, Allow
  PROVE  QueryInv'
  <1>1. PICK recorded \in {0, 1} :
          /\ req.pc = "audit" /\ written' = [written EXCEPT !.allowed = @ + recorded]
          /\ req' = After(Append(req.out, IF Sealed(recorded) THEN [ok |-> TRUE, reason |-> None, found |-> req.found]
                                          ELSE Refused("internal_error")))
          /\ UNCHANGED Others
    BY DEF Allow
  <1> DEFINE x == IF Sealed(recorded) THEN [ok |-> TRUE, reason |-> None, found |-> req.found]
                  ELSE Refused("internal_error")
  <1>2. RequestOK(req, held, written)
    BY DEF QueryInv
  <1>3. written \in [allowed : Nat, refused : Nat] /\ IsSequence(req.found.keys)
    BY <1>2 DEF RequestOK
  <1>4. written' \in [allowed : Nat, refused : Nat] /\ written'.allowed = written.allowed + recorded
    BY <1>1, <1>3
  <1>5. x.ok => recorded = 1 /\ x.found = req.found
    BY DEF Refused, Sealed
  <1>6. IsSequence(x.found.keys)
    <2>1. CASE Sealed(recorded)
      BY <1>3, <2>1
    <2>2. CASE ~Sealed(recorded)
      <3>1. x.found.keys = <<>>
        BY <2>2 DEF Refused, NothingFound
      <3>2. <<>> \in Seq({})
        BY EmptySeq
      <3>3. IsSequence(<<>>)
        BY <3>2, MembersOfSequence
      <3> QED BY <3>1, <3>3
    <2> QED BY <2>1, <2>2
  <1>7. TotalWalks /\ walk # None => PageFits(walk, docs[walk.intent.coll], req.after, req.found)
    BY <1>1, WalkAsksPages DEF PageOfIt
  <1>8. req' = After(Append(req.out, x)) /\ UNCHANGED Others
    BY <1>1
  <1>9. written'.allowed >= written.allowed /\ (x.ok => written'.allowed >= written.allowed + 1)
    BY <1>3, <1>4, <1>5
  <1> HIDE DEF x
  <1> QED BY <1>1, <1>4, <1>5, <1>6, <1>7, <1>8, <1>9, SlotEnds

LEMMA AllowAllKeeps ==
  ASSUME QueryInv, AllowAll
  PROVE  QueryInv'
  <1>1. PICK recorded \in {0, 1} :
          /\ req.pc = "envelope" /\ written' = [written EXCEPT !.allowed = @ + recorded]
          /\ req' = [req EXCEPT !.pc = "answer", !.out = IF Sealed(recorded) THEN @ ELSE <<Refused("internal_error")>>]
          /\ UNCHANGED Others
    BY DEF AllowAll
  <1>2. RequestOK(req, held, written)
    BY DEF QueryInv
  <1>3. /\ written' \in [allowed : Nat, refused : Nat] /\ written'.allowed = written.allowed + recorded
        /\ written.allowed \in Nat
    BY <1>1, <1>2 DEF RequestOK
  <1> DEFINE one == <<Refused("internal_error")>>
             out == IF Sealed(recorded) THEN req.out ELSE one
  <1>4. /\ IsRequest(req') /\ req'.pc = "answer" /\ req'.op = req.op /\ req'.found = req.found
        /\ req'.slots = req.slots /\ req'.at = req.at /\ req'.out = out
    BY <1>1, <1>2 DEF RequestOK, IsRequest, ReadStates
  <1>5. /\ IsSequence(one) /\ (\A n \in DOMAIN one : IsSequence(one[n].found.keys))
        /\ Granted(one) = {}
    <2>1. one \in Seq({Refused("internal_error")}) /\ DOMAIN one = {1} /\ one[1] = Refused("internal_error")
      OBVIOUS
    <2>2. IsSequence(one)
      <3> HIDE DEF one
      <3> QED BY <2>1, MembersOfSequence
    <2>3. one[1].found.keys = <<>> /\ ~one[1].ok
      BY <2>1 DEF Refused, NothingFound
    <2>4. IsSequence(<<>>)
      <3>1. <<>> \in Seq({})
        BY EmptySeq
      <3> QED BY <3>1, MembersOfSequence
    <2> HIDE DEF one
    <2> QED BY <2>1, <2>2, <2>3, <2>4 DEF Granted
  <1> HIDE DEF one
  <1>6. /\ IsSequence(out) /\ \A n \in DOMAIN out : IsSequence(out[n].found.keys)
        /\ written'.allowed >= Cardinality(Granted(out))
        /\ Granted(out) = {} \/ written'.allowed >= Cardinality(Granted(out)) + 1
    <2>1. CASE recorded = 1
      <3>1. out = req.out
        BY <2>1 DEF Sealed
      <3>2. IsSequence(req.out) /\ \A n \in DOMAIN req.out : IsSequence(req.out[n].found.keys)
        BY <1>2 DEF RequestOK
      <3>3. Cardinality(Granted(req.out)) \in Nat
        BY <3>2, GrantedAppended
      <3>4. written.allowed >= Cardinality(Granted(req.out))
        BY <1>1, <1>2 DEF RequestOK
      <3> DEFINE had == Cardinality(Granted(req.out))
      <3>5. had \in Nat /\ written'.allowed >= had + 1 /\ written'.allowed >= had
        <4> HIDE DEF had
        <4>1. had \in Nat /\ written.allowed >= had
          BY <3>3, <3>4 DEF had
        <4> QED BY <1>3, <2>1, <4>1
      <3> HIDE DEF out
      <3>6. IsSequence(out) /\ \A n \in DOMAIN out : IsSequence(out[n].found.keys)
        BY <3>1, <3>2
      <3>7. Cardinality(Granted(out)) = had
        BY <3>1
      <3> HIDE DEF had
      <3> QED BY <3>5, <3>6, <3>7
    <2>2. CASE recorded = 0
      <3>1. out = one
        BY <2>2 DEF Sealed
      <3>2. Cardinality({}) = 0
        BY FS_EmptySet
      <3>3. written'.allowed >= 0
        BY <1>3
      <3> HIDE DEF out
      <3>4. IsSequence(out) /\ (\A n \in DOMAIN out : IsSequence(out[n].found.keys)) /\ Granted(out) = {}
        BY <1>5, <3>1
      <3> QED BY <3>2, <3>3, <3>4
    <2> QED BY <2>1, <2>2
  <1> HIDE DEF out
  <1>7. RequestOK(req', held, written')
    BY <1>1, <1>2, <1>3, <1>4, <1>6 DEF RequestOK
  <1>8. ~(TotalWalks /\ walk # None)
    <2>1. req.op \in {"batch", "search"}
      BY <1>1, <1>2 DEF RequestOK
    <2> QED BY <1>1, <2>1, WalkAsksPages
  <1> QED BY <1>1, <1>7, <1>8, OnlyTheRequest

---------------------------------------------------------------------------
(* Queries: a request begins, and is answered *)

LEMMA NothingHeld ==
  ASSUME NEW h, NEW w \in [allowed : Nat, refused : Nat]
  PROVE  RequestOK(NoRead, h, w)
  <1>1. <<>> \in Seq({}) /\ DOMAIN <<>> = {}
    BY EmptySeq
  <1>2. IsSequence(<<>>)
    BY <1>1, MembersOfSequence
  <1>3. NoRead.pc = "idle" /\ NoRead.out = <<>> /\ NoRead.found.keys = <<>>
    BY DEF NoRead
  <1>4. IsRequest(NoRead)
    BY DEF NoRead, IsRequest, ReadStates, AllReadOps
  <1> QED BY <1>1, <1>2, <1>3, <1>4 DEF RequestOK, Once

\* The walk after a page.
Walked(w, a) ==
  [w EXCEPT !.seen = [d \in DocKeys |-> @[d] + IF d \in KeysOf(a) THEN 1 ELSE 0], !.next = a.next, !.ended = a.next = None]

\* The sum that the page of a walk makes of what was seen: what stands before its cursor.
LEMMA WalkedIsWalk ==
  ASSUME NEW w, IsWalk(w), NEW a, NEW v, v = Walked(w, a)
  PROVE  /\ IsWalk(v) /\ v.intent = w.intent /\ v.grant = w.grant /\ v.steady = w.steady
         /\ v.seen = [d \in DocKeys |-> w.seen[d] + IF d \in KeysOf(a) THEN 1 ELSE 0]
         /\ v.next = a.next /\ v.ended = (a.next = None)
  <1> DEFINE seen == [d \in DocKeys |-> w.seen[d] + IF d \in KeysOf(a) THEN 1 ELSE 0]
  <1>1. w \in [intent : Intents, grant : {w.grant}, seen : [DocKeys -> Nat], steady : SUBSET DocKeys,
               next : {w.next}, ended : BOOLEAN]
    BY DEF IsWalk
  <1>2. seen \in [DocKeys -> Nat]
    <2>1. \A d \in DocKeys : w.seen[d] + (IF d \in KeysOf(a) THEN 1 ELSE 0) \in Nat
      BY <1>1
    <2> QED BY <2>1
  <1>3. /\ v \in [intent : Intents, grant : {v.grant}, seen : [DocKeys -> Nat], steady : SUBSET DocKeys,
                  next : {v.next}, ended : BOOLEAN]
        /\ v.intent = w.intent /\ v.grant = w.grant /\ v.steady = w.steady /\ v.seen = seen
        /\ v.next = a.next /\ v.ended = (a.next = None)
    BY <1>1, <1>2 DEF Walked
  <1> QED BY <1>3 DEF IsWalk

LEMMA SeenGrows ==
  ASSUME NEW w, NEW D, NEW after, NEW a, WalkShape(w), SeenOK(w, D), PageFits(w, D, after, a), after = w.next,
         after = None => \A d \in DocKeys : w.seen[d] = 0,
         NEW v, v = Walked(w, a)
  PROVE  WalkShape(v) /\ SeenOK(v, D) /\ v.intent = w.intent /\ v.grant = w.grant /\ v.steady = w.steady
  <1> DEFINE seen == [d \in DocKeys |-> w.seen[d] + IF d \in KeysOf(a) THEN 1 ELSE 0]
  <1>1. IsWalk(w) /\ Keyset(w.intent, w.grant) /\ w.steady \subseteq DocKeys
    BY DEF WalkShape, IsWalk
  <1>3. /\ IsWalk(v) /\ v.intent = w.intent /\ v.grant = w.grant /\ v.steady = w.steady /\ v.seen = seen
        /\ v.next = a.next /\ v.ended = (a.next = None)
    BY <1>1, WalkedIsWalk
  <1>4. a.next # None => a.next \in CursorOf(w.intent) /\ Sortable(w.intent)
    BY DEF PageFits
  <1>5. WalkShape(v)
    BY <1>1, <1>3, <1>4 DEF WalkShape
  <1>6. ASSUME NEW d \in v.steady
        PROVE  v.seen[d] <= 1 /\ v.seen[d] = IF UpTo(v, D, v.next, d) THEN 1 ELSE 0
    <2> DEFINE i == w.intent
               M == Matching(D, i, None, w.grant)
               past(c) == c # None /\ Beyond(D, i, c, d)
    <2>1. d \in w.steady /\ d \in DocKeys
      BY <1>1, <1>3
    <2>2. w.seen[d] = IF d \in M /\ after # None /\ ~Beyond(D, i, after, d) THEN 1 ELSE 0
      <3>1. CASE after = None
        BY <2>1, <3>1
      <3>2. CASE after # None
        BY <2>1, <3>2 DEF SeenOK, UpTo
      <3> QED BY <3>1, <3>2
    <2>3. d \in KeysOf(a) <=> d \in M /\ (after = None \/ Beyond(D, i, after, d)) /\ (a.next = None \/ ~Beyond(D, i, a.next, d))
      BY <2>1 DEF PageFits
    <2>4. d \in M /\ a.next # None /\ Beyond(D, i, a.next, d) => after = None \/ Beyond(D, i, after, d)
      BY <2>1 DEF PageFits
    <2>5. v.seen[d] = w.seen[d] + IF d \in KeysOf(a) THEN 1 ELSE 0
      BY <1>3, <2>1
    <2>6. UpTo(v, D, v.next, d) <=> d \in M /\ (a.next = None \/ ~Beyond(D, i, a.next, d))
      BY <1>3 DEF UpTo
    <2> HIDE DEF M, i
    <2> QED BY <2>2, <2>3, <2>4, <2>5, <2>6
  <1>7. SeenOK(v, D)
    <2> SUFFICES ASSUME NEW d \in v.steady
                 PROVE  /\ v.seen[d] <= 1
                        /\ v.next # None \/ v.ended => v.seen[d] = IF UpTo(v, D, v.next, d) THEN 1 ELSE 0
      BY DEF SeenOK
    <2> QED BY <1>6
  <1> QED BY <1>3, <1>5, <1>7

LEMMA AnswerGivenKeeps ==
  ASSUME QueryInv, Answer
  PROVE  QueryInv'
  <1> DEFINE first == req.out[1]
  <1>1. /\ req.pc = "answer" /\ req' = NoRead /\ UNCHANGED <<docs, held, written, pages, edits>>
        /\ walk' = IF walk = None THEN None
                   ELSE IF ~first.ok THEN [walk EXCEPT !.next = None]
                   ELSE Walked(walk, first.found)
    BY DEF Answer, KeysOf, Walked
  <1>2. RequestOK(req', held', written') /\ req'.pc = "idle"
    <2>1. written \in [allowed : Nat, refused : Nat]
      BY DEF QueryInv, RequestOK
    <2>2. NoRead.pc = "idle"
      BY DEF NoRead
    <2> QED BY <1>1, <2>1, <2>2, NothingHeld
  <1>3. ASSUME TotalWalks, walk # None
        PROVE  WalkOK(walk', req', docs'[walk'.intent.coll], held')
    <2> DEFINE D == docs[walk.intent.coll]
    <2>1. WalkShape(walk) /\ SeenOK(walk, D) /\ (walk.steady # {} => held[walk.intent.coll] = walk.grant)
      BY <1>3 DEF QueryInv, WalkOK
    <2>2. PageOfIt(walk, req, D)
      BY <1>1, <1>3 DEF QueryInv, WalkOK
    <2>3. CASE ~first.ok
      <3>1. walk' = [walk EXCEPT !.next = None]
        BY <1>1, <1>3, <2>3
      <3>2. /\ walk'.intent = walk.intent /\ walk'.grant = walk.grant /\ walk'.seen = walk.seen
            /\ walk'.steady = walk.steady /\ walk'.next = None /\ walk'.ended = walk.ended
            /\ WalkShape(walk')
        BY <2>1, <3>1 DEF WalkShape, IsWalk
      <3>3. ~walk.ended
        BY <2>2 DEF PageOfIt
      <3>4. SeenOK(walk', D)
        BY <2>1, <3>2, <3>3 DEF SeenOK
      <3> QED BY <1>1, <1>2, <2>1, <3>2, <3>4 DEF WalkOK
    <2>4. CASE first.ok
      <3>1. walk' = Walked(walk, first.found)
        BY <1>1, <1>3, <2>4
      <3>2. PageFits(walk, D, req.after, first.found) /\ req.after = walk.next
        BY <1>1, <2>2, <2>4 DEF PageOfIt
      <3>3. req.after = None => \A d \in DocKeys : walk.seen[d] = 0
        BY <2>2 DEF PageOfIt
      <3> HIDE DEF D, first
      <3>4. /\ WalkShape(walk') /\ SeenOK(walk', D) /\ walk'.intent = walk.intent /\ walk'.grant = walk.grant
            /\ walk'.steady = walk.steady
        BY <2>1, <3>1, <3>2, <3>3, SeenGrows
      <3> QED BY <1>1, <1>2, <2>1, <3>4 DEF WalkOK, D
    <2> QED BY <2>3, <2>4
  <1>4. walk' # None => walk # None /\ IsWalk(walk')
    <2> SUFFICES ASSUME walk # None PROVE IsWalk(walk')
      BY <1>1
    <2>1. IsWalk(walk)
      BY DEF QueryInv
    <2>2. CASE ~first.ok
      BY <1>1, <2>1, <2>2 DEF IsWalk
    <2>3. CASE first.ok
      BY <1>1, <2>1, <2>3, WalkedIsWalk
    <2> QED BY <2>2, <2>3
  <1>5. HeldOK' /\ AllDocsOK' /\ pages' \in 0 .. MaxPages /\ edits' \in 0 .. MaxEdits
    BY <1>1 DEF QueryInv, HeldOK, AllDocsOK
  <1> QED BY <1>2, <1>3, <1>4, <1>5 DEF QueryInv

\* A request that begins has its slots before it and nothing else.
LEMMA RequestBegins ==
  ASSUME QueryInv, NEW op, NEW slots, NEW after, BeginRead(op, slots, after),
         IsSequence(slots), 1 \in DOMAIN slots, \A n \in DOMAIN slots : SlotOK(slots[n]),
         walk' # None => IsWalk(walk'),
         TotalWalks /\ walk' # None => WalkOK(walk', req', docs[walk'.intent.coll], held)
  PROVE  QueryInv'
  <1>1. /\ op \in ReadOps /\ pages < MaxPages /\ pages' = pages + 1 /\ written' = NoneWritten
        /\ req' = [NoRead EXCEPT !.pc = "check", !.op = op, !.slots = slots, !.after = after,
                     !.since = {held[slots[1].coll]}]
        /\ UNCHANGED <<docs, held, got, edits>>
    BY DEF BeginRead
  <1>2. HeldOK' /\ AllDocsOK' /\ edits' \in 0 .. MaxEdits
    BY <1>1 DEF QueryInv, HeldOK, AllDocsOK
  <1>3. pages' \in 0 .. MaxPages
    BY <1>1, QueryAssumption DEF QueryInv
  <1>4. /\ IsRequest(req') /\ req'.pc = "check" /\ req'.op = op /\ req'.slots = slots /\ req'.at = 1
        /\ req'.since = {held[slots[1].coll]} /\ req'.out = <<>> /\ req'.found.keys = <<>>
    BY <1>1, QueryAssumption DEF NoRead, IsRequest, ReadStates
  <1>5. /\ written' \in [allowed : Nat, refused : Nat] /\ written'.allowed = 0
    BY <1>1 DEF NoneWritten
  <1>6. <<>> \in Seq({}) /\ DOMAIN <<>> = {} /\ Len(<<>>) = 0
    BY EmptySeq
  <1>7. IsSequence(<<>>)
    BY <1>6, MembersOfSequence
  <1>8. Granted(<<>>) = {} /\ Cardinality({}) = 0 /\ Once(<<>>)
    BY <1>6, FS_EmptySet DEF Granted, Once
  <1>9. written'.allowed >= Cardinality(Granted(req'.out)) /\ Len(req'.out) = req'.at - 1
    <2>1. Cardinality(Granted(req'.out)) = 0
      BY <1>4, <1>8
    <2> QED BY <1>4, <1>5, <1>6, <2>1
  <1>10. RequestOK(req', held', written')
    BY <1>1, <1>4, <1>5, <1>6, <1>7, <1>8, <1>9 DEF RequestOK
  <1>11. TotalWalks /\ walk' # None => WalkOK(walk', req', docs'[walk'.intent.coll], held')
    BY <1>1
  <1> QED BY <1>2, <1>3, <1>10, <1>11 DEF QueryInv

LEMMA OneSlot ==
  ASSUME NEW i, SlotOK(i)
  PROVE  IsSequence(<<i>>) /\ 1 \in DOMAIN <<i>> /\ \A n \in DOMAIN <<i>> : SlotOK(<<i>>[n])
  <1> DEFINE s == <<i>>
  <1>1. s \in Seq({i}) /\ DOMAIN s = {1} /\ s[1] = i
    OBVIOUS
  <1> HIDE DEF s
  <1>2. IsSequence(s)
    BY <1>1, MembersOfSequence
  <1> QED BY <1>1, <1>2 DEF s

LEMMA AskQueryKeeps ==
  ASSUME QueryInv, AskQuery
  PROVE  QueryInv'
  <1>1. PICK i \in Intents :
          /\ BeginRead("query", <<i>>, None)
          /\ walk' = IF held[i.coll] = None \/ ~Keyset(i, held[i.coll]) THEN None
                     ELSE [intent |-> i, grant |-> held[i.coll], seen |-> [d \in DocKeys |-> 0],
                           steady |-> {d \in DocKeys : docs[i.coll][d] # None}, next |-> None, ended |-> FALSE]
    BY DEF AskQuery
  <1>2. i \in AnyIntent /\ SlotOK(i)
    BY QueryAssumption DEF AnyIntent, SlotOK
  <1>3. req' = [NoRead EXCEPT !.pc = "check", !.op = "query", !.slots = <<i>>, !.after = None, !.since = {held[<<i>>[1].coll]}]
    BY <1>1 DEF BeginRead
  <1>4. req'.pc = "check" /\ req'.op = "query" /\ req'.slots = <<i>> /\ req'.after = None /\ req'.at = 1
    BY <1>3 DEF NoRead
  <1>5. ASSUME walk' # None
        PROVE  WalkOK(walk', req', docs[walk'.intent.coll], held)
    <2>1. Keyset(i, held[i.coll])
      BY <1>1, <1>5
    <2>2. /\ walk'.intent = i /\ walk'.grant = held[i.coll] /\ walk'.seen = [d \in DocKeys |-> 0]
          /\ walk'.next = None /\ walk'.ended = FALSE /\ walk'.steady \subseteq DocKeys
          /\ WalkShape(walk')
      BY <1>1, <1>5, <2>1 DEF WalkShape, IsWalk
    <2>3. \A d \in DocKeys : walk'.seen[d] = 0
      BY <2>2
    <2>4. SeenOK(walk', docs[walk'.intent.coll])
      BY <2>2, <2>3 DEF SeenOK
    <2>5. i.dir \in {"asc", "desc"} /\ i = [i EXCEPT !.dir = i.dir]
      BY <1>2 DEF AnyIntent
    <2>6. PageOfIt(walk', req', docs[walk'.intent.coll])
      BY <1>4, <2>2, <2>3, <2>5 DEF PageOfIt
    <2> QED BY <2>2, <2>4, <2>6 DEF WalkOK
  <1>6. IsSequence(<<i>>) /\ 1 \in DOMAIN <<i>> /\ \A n \in DOMAIN <<i>> : SlotOK(<<i>>[n])
    BY <1>2, OneSlot
  <1>7. walk' # None => IsWalk(walk')
    BY <1>5 DEF WalkOK, WalkShape
  <1> QED BY <1>1, <1>5, <1>6, <1>7, RequestBegins

LEMMA AskNextKeeps ==
  ASSUME QueryInv, AskNext
  PROVE  QueryInv'
  <1>1. PICK dir \in {"asc", "desc"} :
          /\ walk # None /\ walk.next # None
          /\ BeginRead("query", <<[walk.intent EXCEPT !.dir = dir]>>, walk.next)
          /\ walk' = walk
    BY DEF AskNext
  <1> DEFINE i == [walk.intent EXCEPT !.dir = dir]
  <1>2. IsWalk(walk)
    BY <1>1 DEF QueryInv
  <1>3. walk.intent \in Intents
    BY <1>2 DEF IsWalk
  <1>4. SlotOK(i)
    BY <1>3, IntentShape
  <1>5. req' = [NoRead EXCEPT !.pc = "check", !.op = "query", !.slots = <<i>>, !.after = walk.next, !.since = {held[<<i>>[1].coll]}]
    BY <1>1 DEF BeginRead
  <1>6. req'.pc = "check" /\ req'.op = "query" /\ req'.slots = <<i>> /\ req'.after = walk.next /\ req'.at = 1
    BY <1>5 DEF NoRead
  <1>8. ASSUME TotalWalks
        PROVE  WalkOK(walk', req', docs[walk'.intent.coll], held)
    <2>1. WalkShape(walk) /\ SeenOK(walk, docs[walk.intent.coll]) /\ (walk.steady # {} => held[walk.intent.coll] = walk.grant)
      BY <1>1, <1>8 DEF QueryInv, WalkOK
    <2>2. ~walk.ended
      BY <1>1, <2>1 DEF WalkShape
    <2>3. PageOfIt(walk, req', docs[walk.intent.coll])
      BY <1>1, <1>6, <2>2 DEF PageOfIt
    <2> QED BY <1>1, <2>1, <2>3 DEF WalkOK
  <1>9. IsSequence(<<i>>) /\ 1 \in DOMAIN <<i>> /\ \A n \in DOMAIN <<i>> : SlotOK(<<i>>[n])
    <2> HIDE DEF i
    <2> QED BY <1>4, OneSlot
  <1> QED BY <1>1, <1>2, <1>8, <1>9, RequestBegins

LEMMA AskBatchKeeps ==
  ASSUME QueryInv, AskBatch
  PROVE  QueryInv'
  <1>1. PICK b \in Batches : BeginRead("batch", b, None) /\ walk' = None
    BY DEF AskBatch
  <1>2. b \in Seq(AnyIntent) /\ b # <<>>
    BY QueryAssumption
  <1>3. IsSequence(b) /\ Len(b) \in Nat /\ DOMAIN b = 1 .. Len(b)
    BY <1>2, MembersOfSequence, LenProperties
  <1>4. 1 \in DOMAIN b
    <2>1. Len(b) # 0
      BY <1>2, EmptySeq
    <2> QED BY <1>3, <2>1
  <1>5. \A n \in DOMAIN b : SlotOK(b[n])
    <2> TAKE n \in DOMAIN b
    <2>1. b[n] \in AnyIntent
      BY <1>2, <1>3, ElementOfSeq
    <2> QED BY <2>1 DEF AnyIntent, SlotOK
  <1> QED BY <1>1, <1>3, <1>4, <1>5, RequestBegins

LEMMA AskGetKeeps ==
  ASSUME QueryInv, AskGet
  PROVE  QueryInv'
  <1>1. PICK c \in Keyed, d \in DocKeys :
          /\ BeginRead("get", <<[NoIntent(c) EXCEPT !.filters = {[field |-> Pk, op |-> "eq", value |-> d]}, !.limit = 1]>>, None)
          /\ walk' = None
    BY DEF AskGet
  <1> DEFINE i == [NoIntent(c) EXCEPT !.filters = {[field |-> Pk, op |-> "eq", value |-> d]}, !.limit = 1]
  <1>2. i.coll = c /\ i.offset = 0 /\ i.limit = 1
    BY DEF NoIntent
  <1>3. SlotOK(i)
    BY <1>2, QueryAssumption DEF SlotOK
  <1>4. BeginRead("get", <<i>>, None)
    BY <1>1
  <1> HIDE DEF i
  <1>5. IsSequence(<<i>>) /\ 1 \in DOMAIN <<i>> /\ \A n \in DOMAIN <<i>> : SlotOK(<<i>>[n])
    BY <1>3, OneSlot
  <1> QED BY <1>1, <1>4, <1>5, RequestBegins

LEMMA AskSearchKeeps ==
  ASSUME QueryInv, AskSearch
  PROVE  QueryInv'
  <1> DEFINE granted == {c \in Colls : held[c] # None /\ "read" \in held[c].verbs}
             before == [c \in granted |-> {b \in granted : b < c}]
             reachable == SortedBy(granted, before)
             Search(c) == [NoIntent(c) EXCEPT !.by = Rank, !.dir = "desc",
                             !.filters = {[field |-> Rank, op |-> "gt", value |-> 0]}]
             slots == [n \in DOMAIN reachable |-> Search(reachable[n])]
  <1>1. reachable # <<>> /\ BeginRead("search", slots, None) /\ walk' = None
    BY DEF AskSearch
  <1>2. IsFiniteSet(granted) /\ granted \subseteq Nat
    BY QueryAssumption, FS_Subset
  <1>3. Orders(granted, before)
    BY <1>2 DEF Orders
  <1> DEFINE N == Cardinality(granted)
  <1>4. N \in Nat /\ reachable \in [1 .. N -> granted]
    <2> HIDE DEF granted, before
    <2> QED BY <1>2, <1>3, SortedByProperties
  <1> HIDE DEF reachable, N
  <1>5. DOMAIN reachable = 1 .. N /\ N # 0
    <2>1. N = 0 => reachable = <<>>
      BY <1>4
    <2> QED BY <1>1, <1>4, <2>1
  <1>6. DOMAIN slots = 1 .. N /\ 1 \in DOMAIN slots
    BY <1>4, <1>5
  <1>7. ASSUME NEW n \in 1 .. N
        PROVE  SlotOK(slots[n])
    <2>1. slots[n] = Search(reachable[n]) /\ reachable[n] \in Colls
      BY <1>4, <1>5
    <2>2. /\ Search(reachable[n]).coll = reachable[n] /\ Search(reachable[n]).offset = 0
          /\ Search(reachable[n]).limit = SearchLimit
      BY DEF NoIntent
    <2> HIDE DEF slots, Search
    <2> QED BY <2>1, <2>2, QueryAssumption DEF SlotOK
  <1>8. IsSequence(slots)
    <2> DEFINE X == {slots[n] : n \in DOMAIN slots}
    <2>1. slots \in [1 .. N -> X]
      BY <1>6
    <2> HIDE DEF slots, X
    <2>2. slots \in Seq(X)
      BY <1>4, <2>1, SeqDef
    <2> QED BY <2>2 DEF IsSequence, X
  <1> HIDE DEF slots
  <1> QED BY <1>1, <1>6, <1>7, <1>8, RequestBegins

---------------------------------------------------------------------------
(* Queries: what others do meanwhile *)

\* A document keeps its shape when its key or its revision is set.
LEMMA DocumentStored ==
  ASSUME NEW x, DocumentRow(x), NEW rev \in Nat
  PROVE  LET y == [x EXCEPT !.rev = rev] IN DocumentRow(y) /\ y # None /\ y.data = x.data
  <1> DEFINE y == [x EXCEPT !.rev = rev]
  <1>1. x \in DocumentsFor(x.readers) /\ None \notin DocumentsFor(x.readers)
    BY DEF DocumentRow
  <1>2. y \in DocumentsFor(x.readers) /\ y.readers = x.readers /\ y.data = x.data
    BY <1>1 DEF DocumentsFor
  <1> HIDE DEF y
  <1>3. y \in DocumentsFor(y.readers) /\ None \notin DocumentsFor(y.readers)
    BY <1>1, <1>2
  <1>4. DocumentRow(y) /\ y # None
    BY <1>3 DEF DocumentRow
  <1> QED BY <1>2, <1>4 DEF y

LEMMA DocumentKeyed ==
  ASSUME NEW x \in Contents, NEW d \in DocKeys
  PROVE  LET y == [x EXCEPT !.data[Pk] = d] IN
         DocumentRow(y) /\ y # None /\ y.data[Pk] = d /\ Whole(y)
  <1> DEFINE y == [x EXCEPT !.data[Pk] = d]
  <1>1. x \in DocumentsFor(x.readers) /\ None \notin DocumentsFor(x.readers)
    BY QueryAssumption DEF DocumentRow
  <1>2. d \in Nat /\ d # 0 /\ Pk \in Cols
    BY QueryAssumption
  <1>3. /\ y \in DocumentsFor(x.readers) /\ y.readers = x.readers /\ y.data[Pk] = d
        /\ \A f \in Cols \ {Pk} : y.data[f] = x.data[f]
    BY <1>1, <1>2 DEF DocumentsFor
  <1> HIDE DEF y
  <1>4. y \in DocumentsFor(y.readers) /\ None \notin DocumentsFor(y.readers)
    BY <1>1, <1>3
  <1>5. DocumentRow(y) /\ y # None
    BY <1>4 DEF DocumentRow
  <1>6. Whole(y)
    BY <1>1, <1>2, <1>3 DEF Filled, Whole, WholeDocuments
  <1> QED BY <1>3, <1>5, <1>6 DEF y

\* Whether a query finds a document is a matter of that document.
LEMMA FoundByItself ==
  ASSUME NEW D, NEW E, NEW d \in DocKeys, D[d] = E[d]
  PROVE  /\ \A i, g : d \in Matching(D, i, None, g) <=> d \in Matching(E, i, None, g)
         /\ \A i, after : Beyond(D, i, after, d) <=> Beyond(E, i, after, d)
  BY DEF Matching, Beyond

\* A walk holds of the documents that stay as they are, whoever writes the others.
LEMMA WalkHolds ==
  ASSUME NEW w, NEW r, NEW D, NEW h, WalkOK(w, r, D, h), NEW S \in SUBSET w.steady, NEW v, v = [w EXCEPT !.steady = S],
         NEW E, \A d \in S : E[d] = D[d], NEW k, S # {} => k[w.intent.coll] = h[w.intent.coll],
         NEW q, q.pc = r.pc, q.op = r.op, q.at = r.at, q.after = r.after, q.slots = r.slots, q.grant = r.grant,
         q.found = r.found, q.out = r.out
  PROVE  WalkOK(v, q, E, k)
  <1>1. WalkShape(w) /\ SeenOK(w, D) /\ (w.steady # {} => h[w.intent.coll] = w.grant)
    BY DEF WalkOK
  <1>2. w \in [intent : Intents, grant : {w.grant}, seen : [DocKeys -> Nat], steady : SUBSET DocKeys,
               next : {w.next}, ended : BOOLEAN]
    BY <1>1 DEF WalkShape, IsWalk
  <1>3. /\ IsWalk(v) /\ v.intent = w.intent /\ v.grant = w.grant /\ v.seen = w.seen /\ v.steady = S
        /\ v.next = w.next /\ v.ended = w.ended
    BY <1>2 DEF IsWalk
  <1>4. WalkShape(v)
    BY <1>1, <1>3 DEF WalkShape
  <1>5. S \subseteq DocKeys /\ S \subseteq w.steady
    BY <1>2
  <1>6. SeenOK(v, E)
    <2> SUFFICES ASSUME NEW d \in S
                 PROVE  /\ v.seen[d] <= 1
                        /\ v.next # None \/ v.ended => v.seen[d] = IF UpTo(v, E, v.next, d) THEN 1 ELSE 0
      BY <1>3 DEF SeenOK
    <2>1. /\ w.seen[d] <= 1
          /\ w.next # None \/ w.ended => w.seen[d] = IF UpTo(w, D, w.next, d) THEN 1 ELSE 0
      BY <1>1, <1>5 DEF SeenOK
    <2>2. UpTo(v, E, v.next, d) <=> UpTo(w, D, w.next, d)
      BY <1>3, <1>5, FoundByItself DEF UpTo
    <2> QED BY <1>3, <2>1, <2>2
  <1>7. ASSUME NEW after, NEW a, PageFits(w, D, after, a)
        PROVE  PageFits(v, E, after, a)
    <2>1. a.next = None \/ (a.next \in CursorOf(v.intent) /\ Sortable(v.intent))
      BY <1>3, <1>7 DEF PageFits
    <2>2. ASSUME NEW d \in S
          PROVE  LET M == Matching(E, v.intent, None, v.grant) IN
                 /\ d \in KeysOf(a) <=> /\ d \in M /\ (after = None \/ Beyond(E, v.intent, after, d))
                                        /\ a.next = None \/ ~Beyond(E, v.intent, a.next, d)
                 /\ d \in M /\ a.next # None /\ Beyond(E, v.intent, a.next, d) => after = None \/ Beyond(E, v.intent, after, d)
      <3>1. LET M == Matching(D, w.intent, None, w.grant) IN
            /\ d \in KeysOf(a) <=> /\ d \in M /\ (after = None \/ Beyond(D, w.intent, after, d))
                                   /\ a.next = None \/ ~Beyond(D, w.intent, a.next, d)
            /\ d \in M /\ a.next # None /\ Beyond(D, w.intent, a.next, d) => after = None \/ Beyond(D, w.intent, after, d)
        BY <1>5, <1>7 DEF PageFits
      <3>2. /\ \A i, g : d \in Matching(D, i, None, g) <=> d \in Matching(E, i, None, g)
            /\ \A i, c : Beyond(D, i, c, d) <=> Beyond(E, i, c, d)
        BY <1>5, FoundByItself
      <3> QED BY <1>3, <3>1, <3>2
    <2> QED BY <1>3, <2>1, <2>2 DEF PageFits
  <1>8. q.pc # "idle" => PageOfIt(v, q, E)
    <2> SUFFICES ASSUME q.pc # "idle" PROVE PageOfIt(v, q, E)
      OBVIOUS
    <2>1. PageOfIt(w, r, D)
      BY DEF WalkOK
    <2>2. r.pc = "audit" => PageFits(v, E, r.after, r.found)
      BY <1>7, <2>1 DEF PageOfIt
    <2>3. r.pc = "answer" => Len(r.out) = 1 /\ (r.out[1].ok => PageFits(v, E, r.after, r.out[1].found))
      BY <1>7, <2>1 DEF PageOfIt
    <2> QED BY <1>3, <1>5, <2>1, <2>2, <2>3 DEF PageOfIt
  <1>9. v.steady # {} => k[v.intent.coll] = v.grant
    BY <1>1, <1>3, <1>5
  <1> QED BY <1>4, <1>6, <1>8, <1>9 DEF WalkOK

LEMMA WriteKeeps ==
  ASSUME QueryInv, NEW c, NEW d, NEW doc, WriteDocument(c, d, doc), UNCHANGED <<held, req, written, pages>>,
         c \in Colls /\ d \in DocKeys /\ doc # None =>
           DocumentRow(doc) /\ doc.data[Pk] = d /\ Whole(doc)
  PROVE  QueryInv'
  <1> DEFINE new == IF doc = None THEN None ELSE [doc EXCEPT !.rev = edits + 1]
  <1>1. /\ docs' = [docs EXCEPT ![c][d] = new] /\ edits < MaxEdits /\ edits' = edits + 1
        /\ walk' = IF walk = None \/ walk.intent.coll # c THEN walk ELSE [walk EXCEPT !.steady = @ \ {d}]
    BY DEF WriteDocument
  <1>2. /\ HeldOK /\ RequestOK(req, held, written) /\ pages \in 0 .. MaxPages /\ edits \in 0 .. MaxEdits
        /\ docs = [x \in Colls |-> docs[x]]
        /\ \A x \in Colls : docs[x] = [y \in DocKeys |-> docs[x][y]] /\ DocsOK(docs[x])
    BY DEF QueryInv, AllDocsOK
  <1>3. HeldOK' /\ RequestOK(req', held', written') /\ pages' \in 0 .. MaxPages
    BY <1>2 DEF HeldOK
  <1>4. edits' \in 0 .. MaxEdits /\ edits + 1 \in Nat
    BY <1>1, <1>2, QueryAssumption
  <1>5. c \in Colls /\ d \in DocKeys /\ new # None =>
          DocumentRow(new) /\ new.data[Pk] = d /\ Whole(new)
    <2> SUFFICES ASSUME c \in Colls, d \in DocKeys, new # None
                 PROVE  DocumentRow(new) /\ new.data[Pk] = d /\ Whole(new)
      OBVIOUS
    <2>1. doc # None /\ new = [doc EXCEPT !.rev = edits + 1]
      OBVIOUS
    <2>2. DocumentRow(doc) /\ doc.data[Pk] = d /\ Whole(doc)
      BY <2>1
    <2>3. DocumentRow([doc EXCEPT !.rev = edits + 1]) /\ [doc EXCEPT !.rev = edits + 1].data = doc.data
      BY <1>4, <2>2, DocumentStored
    <2>4. DocumentRow(new) /\ new.data = doc.data
      BY <2>1, <2>3
    <2> HIDE DEF new
    <2> QED BY <2>2, <2>4 DEF Filled, Whole, WholeDocuments
  <1> HIDE DEF new
  <1>6. /\ docs' = [x \in Colls |-> docs'[x]]
        /\ \A x \in Colls : docs'[x] = [y \in DocKeys |-> docs'[x][y]]
        /\ \A x \in Colls, y \in DocKeys : docs'[x][y] = IF x = c /\ y = d THEN new ELSE docs[x][y]
    <2>1. docs' = [x \in Colls |-> IF x = c THEN [docs[x] EXCEPT ![d] = new] ELSE docs[x]]
      BY <1>1, <1>2
    <2>2. ASSUME NEW x \in Colls
          PROVE  docs'[x] = [y \in DocKeys |-> IF x = c /\ y = d THEN new ELSE docs[x][y]]
      BY <1>2, <2>1
    <2> QED BY <2>1, <2>2
  <1>7. AllDocsOK'
    <2>1. ASSUME NEW x \in Colls, NEW y \in DocKeys, docs'[x][y] # None
          PROVE  DocumentRow(docs'[x][y]) /\ docs'[x][y].data[Pk] = y /\ Whole(docs'[x][y])
      <3>1. CASE x = c /\ y = d
        BY <1>5, <1>6, <2>1, <3>1
      <3>2. CASE ~(x = c /\ y = d)
        <4>1. docs'[x][y] = docs[x][y]
          BY <1>6, <3>2
        <4>2. docs[x][y] # None /\ DocsOK(docs[x])
          BY <1>2, <2>1, <4>1
        <4>3. DocumentRow(docs[x][y]) /\ docs[x][y].data[Pk] = y /\ Whole(docs[x][y])
          BY <4>2 DEF DocsOK
        <4> QED BY <4>1, <4>3
      <3> QED BY <3>1, <3>2
    <2>2. \A x \in Colls : DocsOK(docs'[x])
      BY <2>1 DEF DocsOK
    <2> QED BY <1>6, <2>2 DEF AllDocsOK
  <1>8. ASSUME TotalWalks, walk # None
        PROVE  WalkOK(walk', req', docs'[walk'.intent.coll], held')
    <2> DEFINE x == walk.intent.coll
               S == IF x # c THEN walk.steady ELSE walk.steady \ {d}
    <2>1. WalkOK(walk, req, docs[x], held)
      BY <1>8 DEF QueryInv
    <2>2. walk \in [intent : Intents, grant : {walk.grant}, seen : [DocKeys -> Nat], steady : SUBSET DocKeys,
                    next : {walk.next}, ended : BOOLEAN]
      BY <1>8 DEF QueryInv, IsWalk
    <2>3. x \in Colls
      BY <2>2, QueryAssumption DEF AnyIntent
    <2>4. walk' = [walk EXCEPT !.steady = S] /\ S \in SUBSET walk.steady /\ walk'.intent.coll = x
      BY <1>1, <1>8, <2>2
    <2>5. \A y \in S : docs'[x][y] = docs[x][y]
      BY <1>6, <2>2, <2>3
    <2>6. /\ held'[x] = held[x]
          /\ req'.pc = req.pc /\ req'.op = req.op /\ req'.at = req.at /\ req'.after = req.after
          /\ req'.slots = req.slots /\ req'.grant = req.grant /\ req'.found = req.found /\ req'.out = req.out
      OBVIOUS
    <2> DEFINE D == docs[x]
               E == docs'[x]
    <2>7. WalkOK(walk', req', E, held')
      <3>1. WalkOK(walk, req, D, held) /\ \A y \in S : E[y] = D[y]
        BY <2>1, <2>5
      <3> DEFINE w == walk'
                 q == req'
                 k == held'
      <3>2. S \in SUBSET walk.steady /\ w = [walk EXCEPT !.steady = S]
        BY <2>4
      <3>3. S # {} => k[walk.intent.coll] = held[walk.intent.coll]
        <4> HIDE DEF S
        <4> QED BY <2>6
      <3>4. /\ q.pc = req.pc /\ q.op = req.op /\ q.at = req.at /\ q.after = req.after
            /\ q.slots = req.slots /\ q.grant = req.grant /\ q.found = req.found /\ q.out = req.out
        BY <2>6
      <3> HIDE DEF S, D, E, w, q, k
      <3>5. WalkOK(w, q, E, k)
        BY <3>1, <3>2, <3>3, <3>4, WalkHolds
      <3> QED BY <3>5 DEF w, q, k, E
    <2> HIDE DEF x, S
    <2> QED BY <2>4, <2>7
  <1>9. walk' # None => walk # None /\ IsWalk(walk')
    <2> SUFFICES ASSUME walk # None PROVE IsWalk(walk')
      BY <1>1
    <2>1. IsWalk(walk)
      BY DEF QueryInv
    <2> QED BY <1>1, <2>1 DEF IsWalk
  <1> QED BY <1>3, <1>4, <1>7, <1>8, <1>9 DEF QueryInv

LEMMA EditKeeps ==
  ASSUME QueryInv, Edit
  PROVE  QueryInv'
  <1>1. PICK c \in Colls, d \in DocKeys, doc \in Contents \cup {None} :
          /\ WriteDocument(c, d, IF doc = None THEN None ELSE [doc EXCEPT !.data[Pk] = d])
          /\ UNCHANGED <<held, req, written, got, pages>>
    BY DEF Edit
  <1> DEFINE new == IF doc = None THEN None ELSE [doc EXCEPT !.data[Pk] = d]
  <1>2. new # None => DocumentRow(new) /\ new.data[Pk] = d /\ Whole(new)
    <2> SUFFICES ASSUME doc # None
                 PROVE  DocumentRow(new) /\ new.data[Pk] = d /\ Whole(new)
      OBVIOUS
    <2>1. doc \in Contents /\ new = [doc EXCEPT !.data[Pk] = d]
      OBVIOUS
    <2> HIDE DEF new
    <2> QED BY <2>1, DocumentKeyed
  <1>3. WriteDocument(c, d, new) /\ UNCHANGED <<held, req, written, pages>>
    BY <1>1
  <1> HIDE DEF new
  <1> QED BY <1>2, <1>3, WriteKeeps

LEMMA PutDocumentKeeps ==
  ASSUME QueryInv, PutDocument
  PROVE  QueryInv'
  <1>1. PICK doc \in Contents :
          /\ WriteDocument(got.coll, got.key, [doc EXCEPT !.data[Pk] = got.key])
          /\ UNCHANGED <<held, req, written, pages>>
    BY DEF PutDocument
  <1> DEFINE c == got.coll
             d == got.key
             new == [doc EXCEPT !.data[Pk] = d]
  <1>2. d \in DocKeys => DocumentRow(new) /\ new.data[Pk] = d /\ Whole(new)
    <2> HIDE DEF d
    <2> QED BY DocumentKeyed
  <1>3. WriteDocument(c, d, new) /\ UNCHANGED <<held, req, written, pages>>
    BY <1>1
  <1> HIDE DEF c, d, new
  <1> QED BY <1>2, <1>3, WriteKeeps

LEMMA RegrantKeeps ==
  ASSUME QueryInv, Regrant
  PROVE  QueryInv'
  <1>0. PICK c \in Colls : \E g \in GrantsFor[c] :
          /\ held' = [held EXCEPT ![c] = g] /\ edits < MaxEdits /\ edits' = edits + 1
          /\ req' = IF req.pc = "check" /\ Slot.coll = c THEN [req EXCEPT !.since = @ \cup {g}] ELSE req
          /\ walk' = IF walk = None \/ walk.intent.coll # c THEN walk ELSE [walk EXCEPT !.steady = {}]
          /\ UNCHANGED <<docs, written, got, pages>>
    BY DEF Regrant
  <1>1. PICK g \in GrantsFor[c] :
          /\ held' = [held EXCEPT ![c] = g] /\ edits < MaxEdits /\ edits' = edits + 1
          /\ req' = IF req.pc = "check" /\ Slot.coll = c THEN [req EXCEPT !.since = @ \cup {g}] ELSE req
          /\ walk' = IF walk = None \/ walk.intent.coll # c THEN walk ELSE [walk EXCEPT !.steady = {}]
          /\ UNCHANGED <<docs, written, got, pages>>
    BY <1>0
  <1>2. /\ RequestOK(req, held, written) /\ pages \in 0 .. MaxPages /\ edits \in 0 .. MaxEdits /\ AllDocsOK
        /\ held = [x \in Colls |-> held[x]] /\ \A x \in Colls : held[x] \in GrantsFor[x]
    BY DEF QueryInv, HeldOK
  <1>3. /\ held' = [x \in Colls |-> held'[x]] /\ held'[c] = g /\ \A x \in Colls : x # c => held'[x] = held[x]
    BY <1>1, <1>2
  <1>4. HeldOK'
    BY <1>2, <1>3 DEF HeldOK
  <1>5. AllDocsOK' /\ pages' \in 0 .. MaxPages /\ edits' \in 0 .. MaxEdits
    BY <1>1, <1>2, QueryAssumption DEF AllDocsOK
  <1>6. /\ IsRequest(req') /\ req'.pc = req.pc /\ req'.op = req.op /\ req'.at = req.at /\ req'.after = req.after
        /\ req'.slots = req.slots /\ req'.grant = req.grant /\ req'.found = req.found /\ req'.out = req.out
        /\ req'.since = IF req.pc = "check" /\ Slot.coll = c THEN req.since \cup {g} ELSE req.since
    <2>1. IsRequest(req)
      BY <1>2 DEF RequestOK
    <2>2. CASE req.pc = "check" /\ Slot.coll = c
      BY <1>1, <2>1, <2>2 DEF IsRequest
    <2>3. CASE ~(req.pc = "check" /\ Slot.coll = c)
      BY <1>1, <2>1, <2>3
    <2> QED BY <2>2, <2>3
  <1>7. RequestOK(req', held', written')
    <2>1. req'.pc = "check" => held'[req'.slots[req'.at].coll] \in req'.since
      <3> SUFFICES ASSUME req.pc = "check" PROVE held'[Slot.coll] \in req'.since
        BY <1>6 DEF Slot
      <3>1. held[Slot.coll] \in req.since /\ SlotOK(Slot)
        BY <1>2 DEF RequestOK, Slot
      <3> QED BY <1>3, <1>6, <3>1 DEF SlotOK
    <2>2. req'.pc = "guard" => req'.grant \in req'.since
      BY <1>2, <1>6 DEF RequestOK
    <2> QED BY <1>1, <1>2, <1>6, <2>1, <2>2 DEF RequestOK
  <1>8. ASSUME TotalWalks, walk # None
        PROVE  WalkOK(walk', req', docs'[walk'.intent.coll], held')
    <2> DEFINE x == walk.intent.coll
               S == IF x # c THEN walk.steady ELSE {}
    <2>1. WalkOK(walk, req, docs[x], held)
      BY <1>8 DEF QueryInv
    <2>2. walk \in [intent : Intents, grant : {walk.grant}, seen : [DocKeys -> Nat], steady : SUBSET DocKeys,
                    next : {walk.next}, ended : BOOLEAN]
      BY <1>8 DEF QueryInv, IsWalk
    <2>3. x \in Colls
      BY <2>2, QueryAssumption DEF AnyIntent
    <2>4. walk' = [walk EXCEPT !.steady = S] /\ S \in SUBSET walk.steady /\ walk'.intent.coll = x
      BY <1>1, <1>8, <2>2
    <2>5. S # {} => held'[x] = held[x]
      BY <1>3, <2>3
    <2> HIDE DEF x, S
    <2>6. WalkOK(walk', req', docs[x], held')
      BY <1>6, <2>1, <2>4, <2>5, WalkHolds DEF x
    <2> QED BY <1>1, <2>4, <2>6
  <1>9. walk' # None => walk # None /\ IsWalk(walk')
    <2> SUFFICES ASSUME walk # None PROVE IsWalk(walk')
      BY <1>1
    <2>1. IsWalk(walk)
      BY DEF QueryInv
    <2> QED BY <1>1, <2>1 DEF IsWalk
  <1> QED BY <1>4, <1>5, <1>7, <1>8, <1>9 DEF QueryInv

---------------------------------------------------------------------------
(* Queries: the invariant, and what follows from it *)

LEMMA QueryInvInit == QueryInit => QueryInv
  <1> SUFFICES ASSUME QueryInit PROVE QueryInv
    OBVIOUS
  <1>1. /\ docs = FirstDocs
        /\ held \in [Colls -> UNION {GrantsFor[c] : c \in Colls}] /\ \A c \in Colls : held[c] \in GrantsFor[c]
        /\ req = NoRead /\ written = NoneWritten /\ walk = None /\ pages = 0 /\ edits = 0
    BY DEF QueryInit
  <1>2. HeldOK
    BY <1>1 DEF HeldOK
  <1>3. AllDocsOK
    <2>1. FirstDocs = [c \in Colls |-> [d \in DocKeys |-> FirstDocs[c][d]]]
      BY QueryAssumption
    <2>2. /\ FirstDocs = [c \in Colls |-> FirstDocs[c]]
          /\ \A c \in Colls : FirstDocs[c] = [d \in DocKeys |-> FirstDocs[c][d]]
      BY <2>1
    <2>3. \A c \in Colls : DocsOK(FirstDocs[c])
      BY QueryAssumption DEF DocsOK, Whole, WholeDocuments
    <2> QED BY <1>1, <2>2, <2>3 DEF AllDocsOK
  <1>4. RequestOK(req, held, written)
    <2>1. NoneWritten \in [allowed : Nat, refused : Nat]
      BY DEF NoneWritten
    <2> QED BY <1>1, <2>1, NothingHeld
  <1>5. pages \in 0 .. MaxPages /\ edits \in 0 .. MaxEdits
    BY <1>1, QueryAssumption
  <1> QED BY <1>1, <1>2, <1>3, <1>4, <1>5 DEF QueryInv

LEMMA QueryInvNext == QueryInv /\ [QueryNext]_queryVars => QueryInv'
  <1> SUFFICES ASSUME QueryInv, [QueryNext]_queryVars PROVE QueryInv'
    OBVIOUS
  <1>1. CASE AskQuery
    BY <1>1, AskQueryKeeps
  <1>2. CASE AskNext
    BY <1>2, AskNextKeeps
  <1>3. CASE AskBatch
    BY <1>3, AskBatchKeeps
  <1>4. CASE AskGet
    BY <1>4, AskGetKeeps
  <1>5. CASE AskSearch
    BY <1>5, AskSearchKeeps
  <1>6. CASE RefusedIntent
    <2>1. req.pc = "check" /\ RefuseRead(Checked)
      BY <1>6 DEF RefusedIntent
    <2> QED BY <2>1, RefusalEndsSlot
  <1>7. CASE LoadGrant
    BY <1>7, LoadGrantKeeps
  <1>8. CASE RefusedGrant
    <2>1. req.pc = "guard" /\ RefuseRead(Verdict)
      BY <1>8 DEF RefusedGrant
    <2> QED BY <2>1, RefusalEndsSlot
  <1>9. CASE Select
    BY <1>9, SelectKeeps
  <1>10. CASE SelectFails
    <2>1. req.pc = "guard" /\ RefuseRead("internal_error")
      BY <1>10 DEF SelectFails
    <2> QED BY <2>1, RefusalEndsSlot
  <1>11. CASE ReadRev
    BY <1>11, ReadRevKeeps
  <1>12. CASE Allow
    BY <1>12, AllowKeeps
  <1>13. CASE AllowAll
    BY <1>13, AllowAllKeeps
  <1>14. CASE Answer
    BY <1>14, AnswerGivenKeeps
  <1>15. CASE Edit
    BY <1>15, EditKeeps
  <1>16. CASE Regrant
    BY <1>16, RegrantKeeps
  <1>17. CASE PutDocument
    BY <1>17, PutDocumentKeeps
  <1>18. CASE UNCHANGED queryVars
    BY <1>18 DEF QueryInv, HeldOK, AllDocsOK, queryVars
  <1> QED BY <1>1, <1>2, <1>3, <1>4, <1>5, <1>6, <1>7, <1>8, <1>9, <1>10, <1>11, <1>12, <1>13, <1>14, <1>15,
             <1>16, <1>17, <1>18 DEF QueryNext, QueryDone

LEMMA WalksAreRight == ASSUME QueryInv, TotalWalks PROVE WalkSeesEach
  <1> SUFFICES ASSUME walk # None, NEW d \in walk.steady
               PROVE  /\ walk.seen[d] <= 1
                      /\ walk.ended /\ d \in Matching(docs[walk.intent.coll], walk.intent, None, walk.grant) => walk.seen[d] = 1
    BY DEF WalkSeesEach
  <1>1. WalkShape(walk) /\ SeenOK(walk, docs[walk.intent.coll])
    BY DEF QueryInv, WalkOK
  <1>2. walk.ended => walk.next = None
    BY <1>1 DEF WalkShape
  <1>3. /\ walk.seen[d] <= 1
        /\ walk.ended => walk.seen[d] = IF UpTo(walk, docs[walk.intent.coll], walk.next, d) THEN 1 ELSE 0
    BY <1>1 DEF SeenOK
  <1> QED BY <1>2, <1>3 DEF UpTo

LEMMA AnswersHideWhatTheyMust == ASSUME QueryInv PROVE HiddenStaysHidden /\ ListedForOthers
  <1>1. ASSUME req.pc = "guard"
        PROVE  Slot.offset \in Nat /\ Slot.limit \in Nat /\ Slot.coll \in Colls
    BY <1>1 DEF QueryInv, RequestOK, Slot, SlotOK
  <1>2. ASSUME req.pc = "guard", req.op \in {"query", "batch"}, Verdict = "ok",
               NEW d \in DocKeys, NEW f \in Cols, NEW v \in {1, 2, 3}, docs[Slot.coll][d] # None,
               HiddenFrom(req.grant, f, docs[Slot.coll][d].data[f], v)
        PROVE  Answers(Disguised(docs[Slot.coll], d, f, v), Slot, req.after, req.grant)
               = Answers(docs[Slot.coll], Slot, req.after, req.grant)
    <2>1. Guard(Slot, req.after, req.grant) = "ok"
      BY <1>2 DEF Verdict
    <2>2. docs[Slot.coll] = [e \in DocKeys |-> docs[Slot.coll][e]] /\ DocumentRow(docs[Slot.coll][d])
      BY <1>1, <1>2 DEF QueryInv, AllDocsOK, DocsOK
    <2> QED BY <1>1, <1>2, <2>1, <2>2, HiddenChangesNothing
  <1>3. HiddenStaysHidden
    BY <1>2 DEF HiddenStaysHidden
  <1>4. ListedForOthers
    BY <1>1, ListedForOthersAlways DEF ListedForOthers
  <1> QED BY <1>3, <1>4

LEMMA RowsAreThere == ASSUME QueryInv PROVE ReadsRecorded
  <1> SUFFICES ASSUME req.pc = "answer", NEW n \in DOMAIN req.out, req.out[n].ok
               PROVE  written.allowed >= Cardinality(Granted(req.out)) + IF req.op \in {"batch", "search"} THEN 1 ELSE 0
    BY DEF ReadsRecorded, Granted
  <1>1. RequestOK(req, held, written)
    BY DEF QueryInv
  <1>2. IsSequence(req.out) /\ written.allowed >= Cardinality(Granted(req.out))
    BY <1>1 DEF RequestOK
  <1>3. n \in Granted(req.out)
    BY DEF Granted
  <1>4. req.op \in {"batch", "search"} => written.allowed >= Cardinality(Granted(req.out)) + 1
    BY <1>1, <1>3 DEF RequestOK
  <1>5. Cardinality(Granted(req.out)) \in Nat
    BY <1>2, GrantedAppended
  <1> QED BY <1>2, <1>4, <1>5

\* What holds of the read verbs whatever field a walk goes by.
ReadsHold ==
  /\ QueryTypeOK /\ HiddenStaysHidden /\ ListedForOthers /\ SlotByItsOwnGrant
  /\ ReadsRecorded /\ NoneCrowdedOut /\ ExplainsTheQuery

LEMMA QueryInvHolds == ASSUME QueryInv PROVE ReadsHold
  <1>1. QueryTypeOK
    <2>1. \A c \in Colls : held[c] \in GrantsFor[c] /\ \A d \in DocKeys : docs[c][d] # None => docs[c][d].data[Pk] = d
      BY DEF QueryInv, HeldOK, AllDocsOK, DocsOK
    <2>2. /\ req.pc \in {"idle", "check", "guard", "rev", "audit", "envelope", "answer"}
          /\ req.pc \in {"check", "guard", "rev", "audit"} => Len(req.out) = req.at - 1
          /\ \A m, n \in DOMAIN req.found.keys : req.found.keys[m] = req.found.keys[n] => m = n
      BY DEF QueryInv, RequestOK, IsRequest, ReadStates, Once
    <2>3. pages \in 0 .. MaxPages /\ edits \in 0 .. MaxEdits
      BY DEF QueryInv
    <2> QED BY <2>1, <2>2, <2>3 DEF QueryTypeOK
  <1>3. HiddenStaysHidden /\ ListedForOthers
    BY AnswersHideWhatTheyMust
  <1>4. SlotByItsOwnGrant
    BY DEF QueryInv, RequestOK, SlotByItsOwnGrant
  <1>5. ReadsRecorded
    BY RowsAreThere
  <1>6. NoneCrowdedOut
    <2> SUFFICES ASSUME req.pc = "answer", req.op = "search"
                 PROVE  LET Of(n) == Cardinality({m \in DOMAIN MergedPage : MergedPage[m].slot = n}) IN
                        \A m, n \in DOMAIN req.out : Of(m) < Len(req.out[m].found.keys) => Of(n) <= Of(m) + 1
      BY DEF NoneCrowdedOut
    <2>1. IsSequence(req.out) /\ \A n \in DOMAIN req.out : IsSequence(req.out[n].found.keys)
      BY DEF QueryInv, RequestOK
    <2>2. Len(req.out) \in Nat /\ DOMAIN req.out = 1 .. Len(req.out)
      BY <2>1, SequenceShape
    <2> QED BY <2>1, <2>2, MergeIsFair
  <1>7. ExplainsTheQuery
    <2>1. \A c \in Colls : held[c] \in GrantsFor[c]
      BY DEF QueryInv, HeldOK
    <2> QED BY <2>1, ExplanationHolds DEF ExplainsTheQuery
  <1> QED BY <1>1, <1>3, <1>4, <1>5, <1>6, <1>7 DEF ReadsHold

\* What a read returns is what the grant of its moment reaches, whatever is written and decided
\* meanwhile (verbs/read.ts): a masked or hidden value changes no answer, a document listed for others
\* is not even counted, every slot of a batch is decided by a grant in force after it began, an answer
\* with documents has its row, the merged page of a search is fair, and explainAccess tells the truth.
THEOREM ReadsHoldAlways == QuerySpec => []ReadsHold
  <1>1. QueryInv => ReadsHold
    BY QueryInvHolds
  <1> QED BY QueryInvInit, QueryInvNext, <1>1, PTL DEF QuerySpec

\* And where a cursor keeps the whole position and no document lacks a value in a field that is not
\* declared nullable, a walk over pages finds every document that stays as it is exactly once
\* (rest-api.md:46), in either order, whoever writes the others.
THEOREM ReadsCorrectAlways == ASSUME ExactCursors, WholeDocuments PROVE QuerySpec => []ReadsCorrect
  <1>1. QueryInv => ReadsCorrect
    BY QueryInvHolds, WalksAreRight DEF ReadsHold, ReadsCorrect, TotalWalks
  <1> QED BY QueryInvInit, QueryInvNext, <1>1, PTL DEF QuerySpec

=============================================================================
