------------------------------ MODULE MCEntry ------------------------------
(* How content comes in: the audited verbs on revisions, the composed view  *)
(* of two collections with their access lists, the upload of folders, the   *)
(* import of sheets, and the pages of the console.  They share no variable: *)
(* a behaviour is one of the five, and the others keep their first state.   *)
EXTENDS MCRevisions, Composed, Uploads, Import, Console, TLC
VARIABLE part   \* which of them this behaviour is of

(* A matter, the two people it may refer to, who may refer back to it, and a person of
   another workspace with the key of one of them. *)
Matter == <<"host", "w1", "m">>
Ana == <<"target", "w1", "ana">>
Bo == <<"target", "w1", "bo">>
Namesake == <<"target", "w2", "ana">>
MCDocuments == {Matter, Ana, Bo, Namesake}
OneSpace == {Matter, Ana}
MCContentsOf ==
  [k \in MCDocuments |->
     CASE k = Matter -> {[value |-> 0, ref |-> r] : r \in {"ana", None}}
       [] k = Namesake -> {[value |-> 3, ref |-> "m"]}
       [] k = Bo -> {[value |-> 1, ref |-> "m"]}
       [] OTHER -> {[value |-> 2, ref |-> "m"], [value |-> 3, ref |-> None]}]
MCReaders == {{"user:ana"}, {"user:bo", "group:hr"}}
MCLists == {{}, {"user:ana"}}
MCSubfields == [value |-> [read |-> "allow", transform |-> None], ref |-> [read |-> "mask", transform |-> "redacted"]]

\* A collection with a vocabulary and one without.
MCVocab == [docs |-> "area", notes |-> None]
MCCollections == DOMAIN MCVocab
\* v1 and v2 are two exports of one text; v3 carries a term of its own.
MCVersions == {"v1", "v2", "v3"}
MCTextOf == [v1 |-> "t1", v2 |-> "t1", v3 |-> "t3"]
MCCarries == [v1 |-> None, v2 |-> None, v3 |-> "x"]
MCFolders == {(1 :> "v1" @@ 2 :> "v3"), (2 :> "v2")}
MCBefore == {[docs |-> <<>>, notes |-> <<>>],
             [docs |-> 1 :> [ver |-> "v1", term |-> "y"] @@ 2 :> [ver |-> "v3", term |-> "x"], notes |-> <<>>]}

(* Sheets and mappings. *)
\* clients is the source of the vocabulary that people.client is bound to; people.place is joined in.
Plain == [pk |-> FALSE, nullable |-> FALSE, derived |-> FALSE, vocab |-> None, type |-> "text"]
Optional == [Plain EXCEPT !.nullable = TRUE]
Key == [Plain EXCEPT !.pk = TRUE, !.type = "int"]
Clients == [chunked |-> FALSE, columns |-> << >>, fields |-> [id |-> Key, name |-> Plain, note |-> Optional]]
People == [chunked |-> FALSE, columns |-> "Start" :> "since",
           fields |-> [id |-> Key, since |-> Optional, name |-> Plain,
                       client |-> [Optional EXCEPT !.vocab = "dataset"], place |-> [Plain EXCEPT !.derived = TRUE]]]
Both == [clients |-> Clients, people |-> People]
SourceOfClient == [coll |-> "clients", field |-> "name"]
SlugOf == "acme" :> "acme" @@ "Acme" :> "acme" @@ "beta" :> "beta"
ParsedAs == [int |-> ("1" :> "1" @@ "01" :> "1" @@ "2" :> "2" @@ "acme" :> None @@ "beta" :> None @@ "Acme" :> None),
             boolean |-> [v \in {"1", "01", "2", "acme", "beta", "Acme"} |-> IF v = "1" THEN "true" ELSE None],
             text |-> [v \in {"1", "01", "2", "acme", "beta", "Acme"} |-> v]]
ShapesOf == [v \in {"1", "01", "2", "acme", "beta", "Acme"} |->
               CASE v = "1" -> {"bit", "boolean", "int", "numeric"} [] v \in {"01", "2"} -> {"int", "numeric"} [] OTHER -> {}]
Normal == "Id" :> "id" @@ "id" :> "id" @@ "Name" :> "name" @@ "name" :> "name" @@ "note" :> "note" @@ "client" :> "client"
          @@ "place" :> "place" @@ "Start" :> "start" @@ "Since" :> "since" @@ "since" :> "since"

File(coll, headers, rows) == [coll |-> coll, headers |-> headers, rows |-> rows, readable |-> TRUE]
SheetRow(h, v) == [x \in ToSet(h) |-> v[CHOOSE k \in 1..Len(h) : h[k] = x]]
Table_(coll, h, vs) == File(coll, h, [k \in 1..Len(vs) |-> SheetRow(h, vs[k])])

TwoClients == Table_("clients", <<"id", "name">>, <<<<"1", "acme">>, <<"2", "beta">>>>)
Notes == Table_("clients", <<"id", "note">>, <<<<"2", "acme">>, <<"1", "beta">>>>)
OnePerson == Table_("people", <<"id", "name", "client">>, <<<<"1", "beta", "acme">>>>)
SomeFiles == {TwoClients, Notes, OnePerson}

Cells == {"1", "01", "acme", ""}
Grid(coll, h, cells, n) == {File(coll, h, rows) : rows \in UNION {[1..k -> [ToSet(h) -> cells]] : k \in 0..n}}
\* A JSON file may lack a key in a row.
Ragged_ == {File("people", <<"id", "name">>, <<SheetRow(<<"id", "name">>, <<"1", a>>), SheetRow(<<"id">>, <<"2">>), SheetRow(<<"id", "name">>, <<b, "acme">>)>>) :
              a, b \in Cells}
SomeSheets ==
  Grid("people", <<"id", "name">>, {"1", "01", ""}, 3) \cup Grid("people", <<"id", "name">>, Cells, 2)
  \cup Grid("people", <<"id", "client", "name">>, {"1", "acme", ""}, 2)
  \cup Ragged_
  \cup UNION {Grid("people", h, {"1", "acme"}, 1) :
               h \in {<<"Id", "name">>, <<"Start", "id", "name">>, <<"id", "since", "Start", "name">>, <<"Since", "Start", "id">>,
                      <<"Since", "since", "Name">>, <<"id", "Id", "name", "Name">>, <<"place", "id", "name">>, <<"id">>,
                      <<"name", "client">>}}
  \cup Grid("staff", <<"Id", "id">>, Cells, 2) \cup Grid("staff", <<"name", "Name", "id">>, {"1", "acme", ""}, 2)
Grids(h, w, cells) == [1..h -> [1..w -> cells]]
SomeBooks ==
  {<<g>> : g \in Grids(2, 3, {"", "id", "name"}) \cup Grids(3, 2, {"", "id", "name"})}
  \cup {<<g, x>> : g, x \in Grids(2, 1, {"", "id"})}

(* Collections, access requests and their vocabularies. *)
\* g1 is on a collection with a vocabulary, as is g2; the vocabularies differ.
FieldsAsked == "g1" :> {"a", "b"} @@ "g2" :> {"a"}
TermsOffered == "g1" :> {"t1"} @@ "g2" :> {"t2"}
AsksOf == [import |-> 5, browse |-> 3, audit |-> 4, approve |-> 3, acl |-> 3, list |-> 4,
           keys |-> 4, dialog |-> 3, login |-> 3]
AllPages == {"import", "browse", "audit", "approve", "acl", "list", "keys", "dialog", "login"}
-----------------------------------------------------------------------------
UploadsAside == held = (CHOOSE rows \in HeldBefore : TRUE) /\ UplInit
ImportAside == slugs = {} /\ ImportInit
ConsoleAside == page = "login" /\ ConsoleInit

ContentVars == <<composedVars, uplvars, importVars, consoleVars>>
EntryVars == <<vars, ContentVars, part>>
EntryInit ==
  \/ part = "verbs" /\ Init /\ ComposedInit /\ UploadsAside /\ ImportAside /\ ConsoleAside
  \/ part = "composed" /\ Init /\ ComposedInit /\ UploadsAside /\ ImportAside /\ ConsoleAside
  \/ part = "uploads" /\ Init /\ ComposedInit /\ UplInit /\ ImportAside /\ ConsoleAside
  \/ part = "import" /\ Init /\ ComposedInit /\ UploadsAside /\ ImportInit /\ ConsoleAside
  \/ part = "console" /\ Init /\ ComposedInit /\ UploadsAside /\ ImportAside /\ ConsoleInit
EntryNext ==
  /\ UNCHANGED part
  /\ \/ part = "verbs" /\ Next /\ UNCHANGED ContentVars
     \/ part = "composed" /\ ComposedNext /\ UNCHANGED <<vars, uplvars, importVars, consoleVars>>
     \/ part = "uploads" /\ UplNext /\ UNCHANGED <<vars, composedVars, importVars, consoleVars>>
     \/ part = "import" /\ ImportNext /\ UNCHANGED <<vars, composedVars, uplvars, consoleVars>>
     \/ part = "console" /\ ConsoleNext /\ UNCHANGED <<vars, composedVars, uplvars, importVars>>
     \* The verbs may not come to a stop; the rest may, at its bounds.
     \/ part # "verbs" /\ UNCHANGED <<vars, ContentVars>>
EntrySpec == EntryInit /\ [][EntryNext]_EntryVars
=============================================================================
