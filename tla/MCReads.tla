------------------------------ MODULE MCReads ------------------------------
(* The writes of a document, the queries of a caller, the history of a      *)
(* document and the filters of a grant share no variable: a behaviour is one *)
(* of the four, and the others keep their first state.                      *)
EXTENDS MCRevisions, Query, History, Filters, TLC
CONSTANTS own, others
VARIABLE part   \* which of them this behaviour is of

(* Two collections of which one is keyed, with documents that tie in the sort field. *)
Doc(rank, pay, readers) ==
  [data |-> [id |-> 0, rank |-> rank, pay |-> pay, note |-> 0], readers |-> readers, rev |-> 0]
DocAt(d, doc) == [doc EXCEPT !.data["id"] = d]
Ties == [c \in Colls |-> [d \in DocKeys |->
  IF c = 1 THEN DocAt(d, Doc(IF d = 3 THEN 2 ELSE 1, d, IF d = 2 THEN {own} ELSE {}))
  ELSE IF d = 1 THEN DocAt(d, Doc(1, 1, {})) ELSE IF d = 2 THEN DocAt(d, Doc(2, 2, {others})) ELSE None]]
New == {Doc(1, 3, {}), Doc(2, 2, {others})}

G(fields, raw, filter) == [verbs |-> {"read"}, fields |-> fields, raw |-> raw, filters |-> filter]
SomeGrants == [c \in Colls |->
  IF c = 1 THEN {None, G(Cols, {}, {}), G(Cols, {"pay"}, {}), G({"id", "rank"}, {}, {[field |-> "pay", op |-> "gt", value |-> 1]})}
  ELSE {G(Cols, {}, {}), [G({"rank"}, {}, {}) EXCEPT !.verbs = {"create"}]}]

I(c) == [NoIntent(c) EXCEPT !.plain = FALSE, !.limit = 2]
Walks == {[I(1) EXCEPT !.limit = 1], [I(1) EXCEPT !.by = "rank"], [I(1) EXCEPT !.by = "rank", !.dir = "desc", !.fields = {"pay"}]}
Others1 == {[I(1) EXCEPT !.by = "pay"], [I(1) EXCEPT !.by = "note"], [I(1) EXCEPT !.agg = "rank", !.group = "pay"],
  [I(1) EXCEPT !.agg = "pay"], [I(1) EXCEPT !.filters = {[field |-> "pay", op |-> "gt", value |-> 2]}],
  [I(1) EXCEPT !.fields = {"ghost"}], [I(2) EXCEPT !.offset = 1, !.by = "rank"], [I(1) EXCEPT !.fields = {"rank"}, !.agg = "rank"]}
Asked == Walks \cup Others1
SomeBatches == {<<[I(1) EXCEPT !.by = "rank"], I(1)>>, <<I(2), [I(1) EXCEPT !.agg = "pay"]>>}

(* A grant that shows a field raw and one that masks it. *)
Shapes == {
  [fields |-> {"pay"}, unmasked |-> {"pay"}, verbs |-> {"read"}, filter |-> None],
  [fields |-> {"team", "pay"}, unmasked |-> {}, verbs |-> {"read", "approve"}, filter |-> 0]}
Unpaid == {[team |-> t, pay |-> 0] : t \in 0..1}
Dots == [v \in 0..1 |-> 9]

(* A value of every type a filter may be put to. *)
Digits(neg, whole, frac, exp, kind) == [kind |-> kind, neg |-> neg, whole |-> whole, frac |-> frac, exp |-> exp]
Dec(neg, whole, frac, exp) == Digits(neg, whole, frac, exp, "numeric")
Num(whole) == Digits(FALSE, whole, <<>>, 0, "int")
Word(w) == [kind |-> "text", is |-> w]
Instant(at, zone) == [kind |-> "timestamptz", at |-> at, zone |-> zone]
Day(day, real) == [kind |-> "date", day |-> day, real |-> real]
Bool(is, canonical) == [kind |-> "boolean", is |-> is, canonical |-> canonical]
Hex(h, closed) == [kind |-> "uuid", hex |-> h, closed |-> closed]
List(items) == [kind |-> "list", items |-> items]
Named(u) == Word(u)

Types == {[type |-> t, many |-> FALSE, base |-> TRUE] : t \in {"numeric", "int", "timestamptz", "date", "boolean", "uuid", "text"}}
           \cup {[type |-> "text", many |-> TRUE, base |-> TRUE], [type |-> "text", many |-> FALSE, base |-> FALSE]}
CellsOf(def) == {None} \cup
  IF ~def.base THEN {} ELSE
  CASE def.many -> {List({Word("ana"), Word("bo")}), List({Word("bo")}), List({})}
    [] def.type = "text" /\ ~def.many -> {Word("ana"), Word("bo")}
    [] def.type = "numeric" -> {Dec(FALSE, <<1, 0, 0>>, <<0, 0>>, 0), Dec(FALSE, <<0>>, <<0, 5>>, 0), Dec(FALSE, <<0>>, <<>>, 0)}
    [] def.type = "int" -> {Num(<<1, 0, 0>>), Num(<<0>>)}
    [] def.type = "timestamptz" -> {Instant(20, 0), Instant(23, 0)}
    [] def.type = "date" -> {Day(1, TRUE), Day(2, TRUE)}
    [] def.type = "boolean" -> {Bool(TRUE, TRUE), Bool(FALSE, TRUE)}
    [] def.type = "uuid" -> {Hex("a", TRUE), Hex("b", TRUE)}

Eqs == {[op |-> "eq", value |-> v] : v \in {None, Self, Word("ana"), Dec(FALSE, <<1>>, <<>>, 2), Dec(FALSE, <<>>, <<5>>, -1),
          Dec(TRUE, <<0>>, <<>>, 0), Dec(FALSE, <<>>, <<>>, 0), Num(<<0, 1, 0, 0>>), Num(<<9, 9, 9>>), Digits(FALSE, <<1>>, <<>>, 2, "int"),
          Instant(50, 30), Instant(23, None), Instant(24, 0), Day(1, TRUE), Day(30, FALSE), Bool(TRUE, TRUE), Bool(TRUE, FALSE), Hex("a", TRUE), Hex("a", FALSE)}}
Ins == {[op |-> "in", value |-> List(s)] : s \in {{}, {None}, {Self, Word("bo")}, {Instant(20, 0), Instant(30, 0)}}}
OfWords == {f \in Eqs \cup Ins : f.value \in {Self, Word("ana"), List({}), List({Self, Word("bo")})}}
Sets == {{}} \cup {{f} : f \in Eqs \cup Ins} \cup {{f, g} : f, g \in OfWords}
-----------------------------------------------------------------------------
QueryAside == /\ held = [c \in Colls |-> CHOOSE g \in GrantsFor[c] : g = None \/ g.verbs = {"create"}] /\ QueryInit
HistoryAside == /\ grant = [r \in Readers |-> CHOOSE g \in Grants : TRUE] /\ HistInit
FiltersAside ==
  /\ field = (CHOOSE d \in Definitions : d # None)
  /\ stored = [value |-> CHOOSE v \in Cells(field) : TRUE, acl |-> None]
  /\ FilterInit

ReadsVars == <<vars, queryVars, histVars, filterVars, part>>
ReadsInit ==
  \/ part = "writes" /\ Init /\ QueryAside /\ HistoryAside /\ FiltersAside
  \/ part = "queries" /\ Init /\ QueryInit /\ HistoryAside /\ FiltersAside
  \/ part = "history" /\ Init /\ QueryAside /\ HistInit /\ FiltersAside
  \/ part = "filters" /\ Init /\ QueryAside /\ HistoryAside /\ FilterInit
ReadsNext ==
  /\ UNCHANGED part
  /\ \/ part = "writes" /\ Next /\ UNCHANGED <<queryVars, histVars, filterVars>>
     \/ part = "queries" /\ QueryNext /\ UNCHANGED <<vars, histVars, filterVars>>
     \/ part = "history" /\ HistNext /\ UNCHANGED <<vars, queryVars, filterVars>>
     \/ part = "filters" /\ FilterNext /\ UNCHANGED <<vars, queryVars, histVars>>
     \* A history and the filters of a grant may come to rest; writes and queries may not.
     \/ part \in {"history", "filters"} /\ UNCHANGED <<vars, queryVars, histVars, filterVars>>
ReadsSpec == ReadsInit /\ [][ReadsNext]_ReadsVars
=============================================================================
