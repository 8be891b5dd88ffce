------------------------------ MODULE Console ------------------------------
(***************************************************************************)
(* The pages of the web console (apps/web/app) from which somebody changes *)
(* or reads something governed. A page is a React component: what it shows *)
(* is its state; a click sends a request and the answer is applied by the  *)
(* closure that asked, when it comes, to whatever the page has become by   *)
(* then. Answers overtake each other. A disabled button is a guard; a      *)
(* control that the code does not disable stays usable while a request is  *)
(* on its way. Every tab has one page open, so that a page is a machine of *)
(* its own over the same variables.                                        *)
(***************************************************************************)
EXTENDS Naturals, Sequences, FiniteSets, Absent

CONSTANTS
  Pages,          \* the pages that somebody opens
  Targets, KeyedTargets, \* the collections of the import page, those with a primary key
  Uploadable,     \* the files that can be picked there
  PageSizes, Total, \* the page sizes of the data browser, how many documents there are
  Params, Words,  \* the filters of the audit page, their values ("" is no filter)
  AskedFor,       \* pending request -> the fields that it sent for
  VocabularyOf,   \* pending request -> the terms that its collection offers
  Papers, People_, \* documents with an access list, principals
  Lines, Edited,  \* the rows of a list page, what one can be set to
  MaxSent,        \* BOUND: the requests of each page
  MaxOthers       \* BOUND: changes that somebody else makes meanwhile

VARIABLES
  page,   \* the page in this tab
  tab,    \* the state of its component
  wire,   \* requests on their way; back is the answer once the server has served it
  sentBy,   \* how many were sent
  store,  \* what the server holds, and what it once held
  others  \* how often somebody else changed it

consoleVars == <<page, tab, wire, sentBy, store, others>>

\* What the import page sends, and what it shows of a dry run; a read of the browser and what it
\* brought; an address of the audit page.
FormModes == {"append", "upsert", "delete"}
FormChoices == [target : Targets \cup {None}, mode : FormModes, file : Uploadable \cup {None}]
Previews == [of : FormChoices, ok : BOOLEAN]
BrowserReads == [filter : Words \cup {""}, limit : PageSizes, offset : Nat, n : Nat]
BrowserResults == [of : BrowserReads, ok : BOOLEAN, count : Nat]
Addresses == [filters : [Params -> Words \cup {""}], offset : Nat]

ASSUME ConsoleAssumption ==
    /\ Pages \subseteq {"import", "browse", "audit", "approve", "acl", "list", "keys", "dialog", "login"}
    /\ MaxSent \in [Pages -> Nat \ {0}] /\ MaxOthers \in Nat
    /\ PageSizes \subseteq Nat /\ Total \in Nat
    /\ {} \notin {PageSizes, Papers, Edited}
    /\ None \notin Previews \cup BrowserResults \cup Addresses

Request(kind, what) == [n |-> sentBy, kind |-> kind, what |-> what, back |-> None]
Send(kind, what) == /\ sentBy < MaxSent[page]
                   /\ sentBy' = sentBy + 1
                   /\ wire' = wire \cup {Request(kind, what)}
Waits(kind) == {r \in wire : r.kind = kind}
Show(t) == /\ tab' = t
           /\ UNCHANGED <<page, wire, sentBy, store, others>>
\* An answer is applied: its request is over.
Apply(r, t) == /\ tab' = t
               /\ wire' = wire \ {r}
               /\ UNCHANGED <<page, sentBy, store, others>>
Click(kind, what, t) == /\ Send(kind, what)
                        /\ tab' = t
                        /\ UNCHANGED <<page, store, others>>

-----------------------------------------------------------------------------
(* The import page (admin/import/ImportForm.tsx) *)

FormStart == [at |-> "pick", target |-> None, mode |-> "append", file |-> None,
              busy |-> FALSE, preview |-> None, result |-> None]
Chosen(t) == [target |-> t.target, mode |-> t.mode, file |-> t.file]

\* Neither select is disabled while something is on its way.
PickTarget(c, m) == /\ page = "import" /\ tab.at = "pick"
                    /\ Show([tab EXCEPT !.target = c, !.mode = m])
PickFile(f) == /\ page = "import" /\ tab.at = "pick" /\ ~tab.busy
               /\ Show([tab EXCEPT !.file = f])
\* The mapping only leads on to the preview: no request of an import carries it.
AskMapping == /\ page = "import" /\ tab.at = "pick" /\ ~tab.busy
              /\ tab.target # None /\ tab.file # None
              /\ (tab.mode # "append" => tab.target \in KeyedTargets)
              /\ Click("map", Chosen(tab), [tab EXCEPT !.busy = TRUE])
MappingAnswered(r, ok) == Apply(r, [tab EXCEPT !.busy = FALSE, !.at = IF ok THEN "map" ELSE @])
\* Back is not disabled while a preview is on its way.
BackToPick == /\ page = "import" /\ tab.at = "map"
              /\ Show([tab EXCEPT !.at = "pick"])
AskPreview == /\ page = "import" /\ tab.at = "map" /\ ~tab.busy
              /\ Click("preview", Chosen(tab), [tab EXCEPT !.busy = TRUE])
PreviewAnswered(r, how) ==
  Apply(r, CASE how = "lost" -> [tab EXCEPT !.busy = FALSE]
             [] how = "refused" -> [tab EXCEPT !.busy = FALSE, !.at = "result", !.result = r.what]
             [] OTHER -> [tab EXCEPT !.busy = FALSE, !.at = "confirm", !.preview = [of |-> r.what, ok |-> TRUE]])
LeaveConfirm(t) == [t EXCEPT !.at = "pick", !.preview = None]
CancelImport == /\ page = "import" /\ tab.at = "confirm"
                /\ Show(LeaveConfirm(tab))
\* The action of the dialog sends what is chosen now, and closes the dialog.
ApplyImport == /\ page = "import" /\ tab.at = "confirm" /\ ~tab.busy
               /\ Click("apply", Chosen(tab), [LeaveConfirm(tab) EXCEPT !.busy = TRUE])
ImportAnswered(r, answered) ==
  Apply(r, IF answered THEN [tab EXCEPT !.busy = FALSE, !.at = "result", !.result = r.what]
                       ELSE [tab EXCEPT !.busy = FALSE])
ImportAgain == /\ page = "import" /\ tab.at = "result"
               /\ Show([tab EXCEPT !.at = "pick", !.result = None, !.preview = None, !.file = None])

FormNext ==
  \/ \E c \in Targets, m \in FormModes : PickTarget(c, m)
  \/ \E f \in Uploadable : PickFile(f)
  \/ AskMapping \/ BackToPick \/ AskPreview \/ CancelImport \/ ApplyImport \/ ImportAgain
  \/ \E r \in Waits("map"), ok \in BOOLEAN : MappingAnswered(r, ok)
  \/ \E r \in Waits("preview"), how \in {"ok", "refused", "lost"} : PreviewAnswered(r, how)
  \/ \E r \in Waits("apply"), answered \in BOOLEAN : ImportAnswered(r, answered)

-----------------------------------------------------------------------------
(* The data browser (admin/collections/[name]/DataBrowser.tsx) *)

\* wants is what the form says; spec the read that was asked for, frozen then.
BrowserStart == [wants |-> [filter |-> "", limit |-> CHOOSE k \in PageSizes : TRUE],
                 spec |-> None, result |-> None, loading |-> FALSE, granted |-> FALSE, requesting |-> FALSE]

Spell(filter, limit) == /\ page = "browse"
                        /\ Show([tab EXCEPT !.wants = [filter |-> filter, limit |-> limit]])
\* A new spec is a new read; the effect cancels the one before it.
ReadPage(filter, limit, offset) ==
  LET spec == [filter |-> filter, limit |-> limit, offset |-> offset, n |-> sentBy]
  IN  Click("read", spec, [tab EXCEPT !.spec = spec, !.loading = TRUE])
\* The button waits for the answer and for a grant; Enter in the search box waits for neither.
RunQuery(enter) == /\ page = "browse" /\ (enter \/ (tab.granted /\ ~tab.loading))
                   /\ ReadPage(tab.wants.filter, tab.wants.limit, 0)
\* A request and its own approval, and the collection read again when both went well.
AskGrant == /\ page = "browse" /\ ~tab.granted /\ ~tab.requesting
            /\ Click("grant", [by |-> "self"], [tab EXCEPT !.requesting = TRUE])
\* Other fields: the form starts again, without a read. One that is on its way is cancelled.
GrantAnswered(r, ok) ==
  Apply(r, IF ok THEN [tab EXCEPT !.requesting = FALSE, !.granted = TRUE, !.wants.filter = "", !.spec = None, !.result = None]
                 ELSE [tab EXCEPT !.requesting = FALSE])
\* The page moves by the limit that the form says now.
NextDocuments == /\ page = "browse" /\ tab.spec # None /\ ~tab.loading
                 /\ tab.result # None /\ tab.result.ok /\ tab.result.count >= tab.wants.limit
                 /\ ReadPage(tab.spec.filter, tab.spec.limit, tab.spec.offset + tab.wants.limit)
PreviousDocuments == /\ page = "browse" /\ tab.spec # None /\ ~tab.loading /\ tab.spec.offset # 0
                     /\ ReadPage(tab.spec.filter, tab.spec.limit,
                             IF tab.spec.offset > tab.wants.limit THEN tab.spec.offset - tab.wants.limit ELSE 0)
PageOf(spec) == LET left == IF Total > spec.offset THEN Total - spec.offset ELSE 0
                IN  IF left < spec.limit THEN left ELSE spec.limit
\* Mutant: the answer to a read that was cancelled is shown.
ReadAnsweredAnyway(r, ok) ==
  Apply(r, [tab EXCEPT !.loading = FALSE, !.result = [of |-> r.what, ok |-> ok, count |-> PageOf(r.what)]])
ReadAnswered(r, ok) ==
  Apply(r, IF r.what = tab.spec
           THEN [tab EXCEPT !.loading = FALSE, !.result = [of |-> r.what, ok |-> ok, count |-> PageOf(r.what)]]
           ELSE tab)

BrowserNext ==
  \/ \E f \in Words, k \in PageSizes : Spell(f, k)
  \/ \E enter \in BOOLEAN : RunQuery(enter)
  \/ NextDocuments \/ PreviousDocuments \/ AskGrant
  \/ \E r \in Waits("grant"), ok \in BOOLEAN : GrantAnswered(r, ok)
  \/ \E r \in Waits("read"), ok \in BOOLEAN : ReadAnswered(r, ok)

-----------------------------------------------------------------------------
(* The audit page (admin/audit/AuditBrowser.tsx) *)

\* params is the address the router has landed on, asked the one it is on its way to, pending the
\* ref; intent is what the reader has chosen so far. A page is a number.
AuditStart(offset) ==
  LET at == [filters |-> [k \in Params |-> ""], offset |-> offset]
  IN  [params |-> at, asked |-> at, pending |-> None, intent |-> at.filters, events |-> None, loading |-> TRUE]

\* Setting the offset deletes it again.
Updated(at, key, value) ==
  [filters |-> IF key = "offset" THEN at.filters ELSE [at.filters EXCEPT ![key] = value], offset |-> 0]
UpdateParam(key, value) ==
  LET next == Updated(IF tab.pending = None THEN tab.params ELSE tab.pending, key, value)
  IN  Show([tab EXCEPT !.asked = next, !.pending = next, !.intent = IF key = "offset" THEN @ ELSE [@ EXCEPT ![key] = value]])
\* A control says what the address says, and tells of a change only.
ChooseFilter(key, value) == page = "audit" /\ value # tab.params.filters[key] /\ UpdateParam(key, value)
TurnPage == /\ page = "audit" /\ tab.events # None
            /\ \/ tab.params.offset > 0
               \/ tab.events.more
            /\ UpdateParam("offset", 0)
\* The router lands on the newest address it was given; the effects clear the ref and read the events.
RouterLands == /\ page = "audit" /\ tab.asked # tab.params
               /\ Click("events", tab.asked,
                        [tab EXCEPT !.params = tab.asked, !.pending = None, !.loading = TRUE])
\* No effect is cancelled: the last answer is shown, whichever question it answers.
EventsAnswered(r, ok, more) ==
  Apply(r, IF ok THEN [tab EXCEPT !.loading = FALSE, !.events = [of |-> r.what, more |-> more]]
                 ELSE [tab EXCEPT !.loading = FALSE])

AuditNext ==
  \/ \E k \in Params, v \in Words : ChooseFilter(k, v)
  \/ TurnPage \/ RouterLands
  \/ \E r \in Waits("events"), ok, more \in BOOLEAN : EventsAnswered(r, ok, more)

-----------------------------------------------------------------------------
(* The sheet in which a manager decides a request (manager/Inbox.tsx, ApproveSheet.tsx) *)

SheetStart == [grant |-> None, open |-> FALSE, busy |-> FALSE,
               fields |-> {}, unmasked |-> {}, vocabulary |-> None, terms |-> {}]

\* Another request resets the form and sent for the vocabularies of its collection.
OpenRequest(g) ==
  /\ page = "approve" /\ ~tab.open
  /\ IF g = tab.grant THEN Show([tab EXCEPT !.open = TRUE])
     ELSE /\ IF VocabularyOf[g] = {} THEN UNCHANGED <<sentBy, wire>> ELSE Send("terms", [grant |-> g])
          /\ tab' = [SheetStart EXCEPT !.grant = g, !.open = TRUE, !.busy = tab.busy, !.fields = AskedFor[g]]
          /\ UNCHANGED <<page, store, others>>
\* The terms are taken for those of the request that is open now, and unpick what was picked.
TermsAnswered(r, ok) ==
  Apply(r, IF ok THEN [tab EXCEPT !.vocabulary = r.what.grant, !.terms = {}] ELSE tab)
ToggleField(f) ==
  /\ page = "approve" /\ tab.open /\ f \in AskedFor[tab.grant]
  /\ Show(IF f \in tab.fields THEN [tab EXCEPT !.fields = @ \ {f}, !.unmasked = @ \ {f}]
                              ELSE [tab EXCEPT !.fields = @ \cup {f}])
ToggleUnmasked(f) ==
  /\ page = "approve" /\ tab.open /\ f \in tab.fields
  /\ Show([tab EXCEPT !.unmasked = IF f \in @ THEN @ \ {f} ELSE @ \cup {f}])
PickTerm(t) ==
  /\ page = "approve" /\ tab.open /\ tab.vocabulary # None
  /\ t \in VocabularyOf[tab.vocabulary]
  /\ Show([tab EXCEPT !.terms = @ \cup {t}])
ActOn(action) ==
  /\ page = "approve" /\ tab.open /\ ~tab.busy
  /\ (action = "approve" => tab.fields # {})
  /\ Click(action, [grant |-> tab.grant, fields |-> tab.fields, unmasked |-> tab.unmasked, terms |-> tab.terms],
           [tab EXCEPT !.busy = TRUE])
CloseSheet == page = "approve" /\ tab.open /\ Show([tab EXCEPT !.open = FALSE])
\* Success closes the sheet, whichever request it shows.
ActAnswered(r, ok) == Apply(r, [tab EXCEPT !.busy = FALSE, !.open = IF ok THEN FALSE ELSE @])

SheetNext ==
  \/ \E g \in DOMAIN AskedFor : OpenRequest(g)
  \/ \E f \in UNION {AskedFor[g] : g \in DOMAIN AskedFor} : ToggleField(f) \/ ToggleUnmasked(f)
  \/ \E t \in UNION {VocabularyOf[g] : g \in DOMAIN VocabularyOf} : PickTerm(t)
  \/ \E action \in {"approve", "deny"} : ActOn(action)
  \/ CloseSheet
  \/ \E r \in Waits("terms"), ok \in BOOLEAN : TermsAnswered(r, ok)
  \/ \E r \in Waits("approve") \cup Waits("deny"), ok \in BOOLEAN : ActAnswered(r, ok)

-----------------------------------------------------------------------------
(* The access list of a document (AclEditor.tsx) *)

AclStart == [paper |-> CHOOSE d \in Papers : TRUE, acl |-> None, loading |-> FALSE, saving |-> FALSE]

TypePaper(d) == page = "acl" /\ d # tab.paper /\ Show([tab EXCEPT !.paper = d])
\* The button waits, Enter does not.
LoadAcl(enter) == /\ page = "acl" /\ (enter \/ ~tab.loading)
                  /\ Click("load", [paper |-> tab.paper], [tab EXCEPT !.loading = TRUE])
\* What is saved is the list that is shown, changed by one; where, is what the input says now.
\* Adding by Enter is not held up by a save that is on its way.
SaveAcl(list) == /\ page = "acl" /\ tab.acl # None
                 /\ \/ ~tab.saving
                    \/ tab.acl.list \subseteq list
                 /\ list # tab.acl.list
                 /\ \/ \E p \in People_ : list = tab.acl.list \cup {p} \/ list = tab.acl.list \ {p}
                    \/ list = {}
                 /\ Click("save", [paper |-> tab.paper, list |-> list], [tab EXCEPT !.saving = TRUE])
\* The server stores the set and answers what it stored, or refuses.
Stored(d, list) == [store EXCEPT !.acl[d] = list, !.past[d] = @ \cup {list}]
Served(r, answer, held) == /\ wire' = (wire \ {r}) \cup {[r EXCEPT !.back = answer]}
                          /\ store' = held
                          /\ UNCHANGED <<page, tab, sentBy, others>>
ServeLoad(r, ok) == IF ok THEN Served(r, [ok |-> TRUE, paper |-> r.what.paper, list |-> store.acl[r.what.paper]], store)
                          ELSE Served(r, [ok |-> FALSE], store)
ServeSave(r, ok) == IF ok THEN Served(r, [ok |-> TRUE, paper |-> r.what.paper, list |-> r.what.list],
                                     Stored(r.what.paper, r.what.list))
                          ELSE Served(r, [ok |-> FALSE], store)
AclAnswered(r) ==
  Apply(r, IF r.kind = "save"
           THEN [tab EXCEPT !.saving = FALSE, !.acl = IF r.back.ok THEN [paper |-> r.back.paper, list |-> r.back.list] ELSE @]
           ELSE [tab EXCEPT !.loading = FALSE, !.acl = IF r.back.ok THEN [paper |-> r.back.paper, list |-> r.back.list] ELSE None])
\* Somebody else saves the list of a document.
OtherAcl(d, list) == /\ page = "acl" /\ others < MaxOthers
                     /\ store' = Stored(d, list) /\ others' = others + 1
                     /\ UNCHANGED <<page, tab, wire, sentBy>>

AclNext ==
  \/ \E d \in Papers : TypePaper(d)
  \/ \E enter \in BOOLEAN : LoadAcl(enter)
  \/ \E list \in SUBSET People_ : SaveAcl(list)
  \/ \E r \in Waits("load"), ok \in BOOLEAN : r.back = None /\ ServeLoad(r, ok)
  \/ \E r \in Waits("save"), ok \in BOOLEAN : r.back = None /\ ServeSave(r, ok)
  \/ \E r \in Waits("load") \cup Waits("save") : r.back # None /\ AclAnswered(r)
  \/ \E d \in Papers, list \in SUBSET People_ : OtherAcl(d, list)

-----------------------------------------------------------------------------
(* A list with an action on each row *)

\* What is disabled while the action of a row is on its way: that row, by one mark for the whole
\* list (ClientsTable, MembersTable, SsoProviders) or by one of its own (RoleSelect), every row
\* (ActiveGrants), or nothing (AccessReview).
ListKinds == {"marked", "own", "all", "free"}
ListStart(kind, rows) == [kind |-> kind, rows |-> rows, locked |-> {}]

ActOnRow(l, v) ==
  /\ page = "list" /\ l \notin tab.locked /\ tab.rows[l] # v
  /\ (tab.kind = "all" => tab.locked = {})
  /\ Click("act", [line |-> l, value |-> v],
           [tab EXCEPT !.locked = CASE tab.kind = "own" -> @ \cup {l}
                                    [] tab.kind = "free" -> {}
                                    [] OTHER -> {l}])
ServeAct(r, ok) ==
  Served(r, [ok |-> ok], IF ok THEN [store EXCEPT !.rows[r.what.line] = r.what.value,
                                                 !.past[r.what.line] = @ \cup {r.what.value}] ELSE store)
ServeList(r, ok) == Served(r, [ok |-> ok, rows |-> store.rows], store)
\* The one mark is taken away, whichever row it is on by now.
Unlock(t, l) == [t EXCEPT !.locked = IF t.kind = "own" THEN @ \ {l} ELSE {}]
\* An action that succeeded reads the list again; all but RoleSelect wait for that.
ActOnRowAnswered(r) ==
  IF r.back.ok THEN /\ sentBy < MaxSent[page]
                    /\ wire' = (wire \ {r}) \cup {Request("list", [line |-> r.what.line])}
                    /\ sentBy' = sentBy + 1
                    /\ tab' = IF tab.kind = "own" THEN Unlock(tab, r.what.line) ELSE tab
                    /\ UNCHANGED <<page, store, others>>
  ELSE Apply(r, Unlock(tab, r.what.line))
ListAnswered(r) ==
  LET t == IF tab.kind = "own" THEN tab ELSE Unlock(tab, r.what.line)
  IN  Apply(r, IF r.back.ok THEN [t EXCEPT !.rows = r.back.rows] ELSE t)
OtherRow(l, v) == /\ page = "list" /\ others < MaxOthers /\ store.rows[l] # v
                  /\ store' = [store EXCEPT !.rows[l] = v, !.past[l] = @ \cup {v}]
                  /\ others' = others + 1
                  /\ UNCHANGED <<page, tab, wire, sentBy>>

ListNext ==
  \/ \E l \in Lines, v \in Edited : ActOnRow(l, v) \/ OtherRow(l, v)
  \/ \E r \in Waits("act"), ok \in BOOLEAN : r.back = None /\ ServeAct(r, ok)
  \/ \E r \in Waits("list"), ok \in BOOLEAN : r.back = None /\ ServeList(r, ok)
  \/ \E r \in Waits("act") : r.back # None /\ ActOnRowAnswered(r)
  \/ \E r \in Waits("list") : r.back # None /\ ListAnswered(r)

-----------------------------------------------------------------------------
(* The secrets of a client (AdminApiKeysHome, ApiKeysTable, ApiKeyDetail, NewApiKeyDialog) *)

\* keys is the list as it was last read, newest first; shown the secret that a dialog shows.
KeysStart == [keys |-> <<[id |-> 0, live |-> TRUE]>>, detail |-> None, rotating |-> FALSE, shown |-> None, seen |-> {0}]

LiveAt(keys) == {k \in DOMAIN keys : keys[k].live}
\* activeSecret: the first that is not revoked, so the newest.
ActiveOf(keys) == keys[CHOOSE k \in LiveAt(keys) : \A j \in LiveAt(keys) : k <= j].id
OpenKey == page = "keys" /\ tab.detail = None /\ Show([tab EXCEPT !.detail = sentBy])
\* Leaving the detail unmounts it: what it was going to show is gone.
LeaveKey == /\ page = "keys" /\ tab.detail # None /\ tab.shown = None
            /\ Show([tab EXCEPT !.detail = None, !.rotating = FALSE])
RotateSecret == /\ page = "keys" /\ tab.detail # None /\ ~tab.rotating /\ tab.shown = None
             /\ LiveAt(tab.keys) # {}
             /\ Click("rotate", [old |-> ActiveOf(tab.keys), at |-> tab.detail], [tab EXCEPT !.rotating = TRUE])
RevokeSecret == /\ page = "keys" /\ LiveAt(tab.keys) # {} /\ tab.shown = None
             /\ Click("revoke", [old |-> ActiveOf(tab.keys), at |-> tab.detail], tab)
\* Two secrets may live at a time, whatever became of the others.
ServeRotate(r) ==
  LET new == Len(store.secrets)
      live == LiveAt(store.secrets)
  IN  IF Cardinality(live) < 2 /\ \E k \in live : store.secrets[k].id = r.what.old
      THEN Served(r, [ok |-> TRUE, id |-> new], [store EXCEPT !.secrets = <<[id |-> new, live |-> TRUE]>> \o @])
      ELSE Served(r, [ok |-> FALSE], store)
ServeRevoke(r) ==
  Served(r, [ok |-> TRUE], [store EXCEPT !.secrets = [k \in DOMAIN @ |-> IF @[k].id = r.what.old THEN [@[k] EXCEPT !.live = FALSE] ELSE @[k]]])
ServeKeys(r) == Served(r, [ok |-> TRUE, keys |-> store.secrets], store)
\* The secret is shown, if the detail that asked for it is still there, and the list is read again.
RotateAnswered(r) ==
  IF ~r.back.ok THEN Apply(r, IF r.what.at = tab.detail THEN [tab EXCEPT !.rotating = FALSE] ELSE tab)
  ELSE /\ sentBy < MaxSent[page]
       /\ wire' = (wire \ {r}) \cup {Request("keys", [at |-> r.what.at])}
       /\ sentBy' = sentBy + 1
       /\ tab' = IF r.what.at = tab.detail THEN [tab EXCEPT !.shown = r.back.id, !.seen = @ \cup {r.back.id}] ELSE tab
       /\ UNCHANGED <<page, store, others>>
RevokeAnswered(r) ==
  /\ sentBy < MaxSent[page]
  /\ wire' = (wire \ {r}) \cup {Request("keys", [at |-> None])}
  /\ sentBy' = sentBy + 1
  /\ UNCHANGED <<page, tab, store, others>>
KeysAnswered(r) == Apply(r, [tab EXCEPT !.keys = r.back.keys, !.rotating = IF r.what.at = tab.detail THEN FALSE ELSE @])
DismissSecret == page = "keys" /\ tab.shown # None /\ Show([tab EXCEPT !.shown = None])

KeysNext ==
  \/ OpenKey \/ LeaveKey \/ RotateSecret \/ RevokeSecret \/ DismissSecret
  \/ \E r \in Waits("rotate") : r.back = None /\ ServeRotate(r)
  \/ \E r \in Waits("revoke") : r.back = None /\ ServeRevoke(r)
  \/ \E r \in Waits("keys") : r.back = None /\ ServeKeys(r)
  \/ \E r \in Waits("rotate") : r.back # None /\ RotateAnswered(r)
  \/ \E r \in Waits("revoke") : r.back # None /\ RevokeAnswered(r)
  \/ \E r \in Waits("keys") : r.back # None /\ KeysAnswered(r)

-----------------------------------------------------------------------------
(* A dialog that adds something (AddProviderSheet, AddIssuerDialog, AddMemberDialog, RequestAccessSheet) *)

DialogStart == [open |-> FALSE, draft |-> None, submitting |-> FALSE]

OpenDialog == page = "dialog" /\ ~tab.open /\ Show([tab EXCEPT !.open = TRUE])
Draft(v) == page = "dialog" /\ tab.open /\ Show([tab EXCEPT !.draft = v])
\* Some of them keep the draft when they are closed, others reset it.
CloseDialog(keep) == /\ page = "dialog" /\ tab.open
                     /\ Show([tab EXCEPT !.open = FALSE, !.draft = IF keep THEN @ ELSE None])
Submit == /\ page = "dialog" /\ tab.open /\ tab.draft # None /\ ~tab.submitting
          /\ Click("add", [draft |-> tab.draft], [tab EXCEPT !.submitting = TRUE])
\* Success closes the dialog and resets it, whatever has been drafted in it since.
SubmitAnswered(r, ok) ==
  Apply(r, IF ok THEN DialogStart ELSE [tab EXCEPT !.submitting = FALSE])

DialogNext ==
  \/ OpenDialog \/ Submit
  \/ \E v \in Edited : Draft(v)
  \/ \E keep \in BOOLEAN : CloseDialog(keep)
  \/ \E r \in Waits("add"), ok \in BOOLEAN : SubmitAnswered(r, ok)

-----------------------------------------------------------------------------
(* The sign-in page (login/LoginForm.tsx) *)

LoginStart == [loading |-> TRUE, failed |-> FALSE, providers |-> FALSE, local |-> FALSE, submitting |-> FALSE]

\* A status that cannot be read leaves both as they start.
StatusAnswered(r, ok, providers, local) ==
  Apply(r, IF ok THEN [tab EXCEPT !.loading = FALSE, !.providers = providers, !.local = local]
                 ELSE [tab EXCEPT !.loading = FALSE, !.failed = TRUE])
OffersForm(t) == ~t.loading /\ t.local
SignIn == /\ page = "login" /\ OffersForm(tab) /\ ~tab.submitting
          /\ Click("signin", [by |-> "password"], [tab EXCEPT !.submitting = TRUE])
SignInAnswered(r, ok) == Apply(r, IF ok THEN tab ELSE [tab EXCEPT !.submitting = FALSE])

LoginNext ==
  \/ SignIn
  \/ \E r \in Waits("status"), ok, providers, local \in BOOLEAN : StatusAnswered(r, ok, providers, local)
  \/ \E r \in Waits("signin"), ok \in BOOLEAN : SignInAnswered(r, ok)

-----------------------------------------------------------------------------
(* A tab *)

Opened(p) == CASE p = "import" -> FormStart
               [] p = "browse" -> BrowserStart
               [] p = "approve" -> SheetStart
               [] p = "acl" -> AclStart
               [] p = "keys" -> KeysStart
               [] p = "dialog" -> DialogStart
               [] p = "login" -> LoginStart
Held(p) == CASE p = "acl" -> [acl |-> [d \in Papers |-> {}], past |-> [d \in Papers |-> {{}}]]
             [] p = "list" -> [rows |-> [l \in Lines |-> CHOOSE v \in Edited : TRUE],
                               past |-> [l \in Lines |-> {CHOOSE v \in Edited : TRUE}]]
             [] p = "keys" -> [secrets |-> KeysStart.keys]
             [] OTHER -> [nothing |-> None]
\* A page that reads when it opens has that request on its way.
FirstAsk(p, t) == CASE p = "audit" -> {[n |-> 0, kind |-> "events", what |-> t.params, back |-> None]}
                    [] p = "login" -> {[n |-> 0, kind |-> "status", what |-> [by |-> "anyone"], back |-> None]}
                    [] OTHER -> {}

ConsoleInit ==
  /\ page \in Pages
  /\ CASE page = "audit" -> \E offset \in {0, 1} : tab = AuditStart(offset)
       [] page = "list" -> \E kind \in ListKinds : tab = ListStart(kind, Held("list").rows)
       [] OTHER -> tab = Opened(page)
  /\ wire = FirstAsk(page, tab)
  /\ sentBy = Cardinality(wire)
  /\ store = Held(page)
  /\ others = 0

ConsoleNext == \/ FormNext \/ BrowserNext \/ AuditNext \/ SheetNext
               \/ AclNext \/ ListNext \/ KeysNext \/ DialogNext \/ LoginNext

ConsoleSpec == ConsoleInit /\ [][ConsoleNext]_consoleVars

-----------------------------------------------------------------------------
(* What the pages promise *)

\* Types. Everything on its way was asked for once, and a form holds what its own request can carry.
ConsoleTypeOK ==
  /\ page \in Pages
  /\ sentBy \in 0..MaxSent[page] /\ others \in 0..MaxOthers
  /\ \A r \in wire : r.n < sentBy
  /\ \A r, s \in wire : r.n = s.n => r = s
  /\ (page = "import" => tab.at \in {"pick", "map", "confirm", "result"} /\ tab.mode \in FormModes)
  /\ (page = "approve" => /\ tab.grant \in DOMAIN AskedFor \cup {None}
                         /\ (tab.grant # None => tab.fields \subseteq AskedFor[tab.grant]))
  /\ (page = "acl" => tab.paper \in Papers /\ store.acl \in [Papers -> SUBSET People_])
  /\ (page = "list" => tab.rows \in [Lines -> Edited] /\ store.rows \in [Lines -> Edited])

\* "Preview first, then confirm" (ImportForm.tsx:311): a file is applied only after the dry run of
\* that very file was accepted, and one thing at a time is on its way.
PreviewedFirst ==
  page = "import" =>
    /\ Cardinality(wire) <= 1
    /\ (tab.at = "confirm" => tab.preview # None /\ tab.preview.ok /\ tab.preview.of.file = tab.file)

\* Once nothing is being read, the documents shown are those of the read that was asked for last:
\* an answer that was overtaken is never shown (DataBrowser.tsx:133-153).
ShownIsAsked ==
  page = "browse" /\ ~tab.loading /\ tab.spec # None => tab.result # None /\ tab.result.of = tab.spec

\* However fast they are chosen, the address that the page is on its way to carries every filter:
\* none cancels another one out (AuditBrowser.tsx:130-140).
FiltersKept == page = "audit" => tab.asked.filters = tab.intent

\* An approval never carries a field that was not asked for, and never a raw value of a field that
\* it does not grant (ApproveSheet.tsx:155-190).
TrimmedOnly ==
  page = "approve" =>
    \A r \in Waits("approve") : /\ r.what.fields \subseteq AskedFor[r.what.grant]
                                /\ r.what.unmasked \subseteq r.what.fields

\* No page shows an access list or a row that the server never held (AclEditor.tsx:80-82,
\* ClientsTable.tsx:89-90), not even after a refusal.
ShownWasHeld ==
  /\ (page = "acl" /\ tab.acl # None => tab.acl.list \in store.past[tab.acl.paper])
  /\ (page = "list" => \A l \in Lines : tab.rows[l] \in store.past[l])

\* A dialog has one submission on its way, however often it is closed and opened again; a role one
\* change, and the active grants one revocation (ActiveGrants.tsx:185).
OneSubmission ==
  /\ (page = "dialog" => Cardinality(wire) <= 1)
  /\ (page = "list" => \A r, s \in Waits("act") :
        r # s => tab.kind \notin {"all"} /\ (tab.kind = "own" => r.what.line # s.what.line))

-----------------------------------------------------------------------------
(* What they say of themselves and do not keep *)

\* "This ran against data_live.X and was rolled back. Applying it will:" (ImportForm.tsx:641-648).
ConfirmsWhatRan == page = "import" /\ tab.at = "confirm" => tab.preview.of = Chosen(tab)

\* The list that is edited is stored for the document that it was loaded for.
SavesWhatIsShown ==
  [][page = "acl" => \A r \in wire' \ wire : r.kind = "save" => r.what.paper = tab.acl.paper]_consoleVars

\* A page that is loading waits for an answer.
LoadingEnds == page = "browse" /\ tab.loading => \E r \in Waits("read") : r.what = tab.spec

\* Page 2 begins where page 1 ended: "Paging moves the query that ran, not the form as it stands now".
PagesFollow ==
  [][page = "browse" => \A r \in wire' \ wire :
       r.kind = "read" /\ r.what.offset > 0 => r.what.offset % r.what.limit = 0]_consoleVars

\* The events shown are those that the filters ask for.
EventsMatch == page = "audit" /\ ~tab.loading /\ tab.events # None => tab.events.of = tab.params

\* The terms of an approval are terms of the collection that it is about.
ScopeOfItsOwn ==
  page = "approve" => \A r \in Waits("approve") : r.what.terms \subseteq VocabularyOf[r.what.grant]

\* "Copy the new secret now": every secret that was issued and answered was shown once.
EverySecretShown ==
  page = "keys" /\ wire = {} => \A k \in DOMAIN store.secrets : store.secrets[k].id \in tab.seen

\* "The old secret continues working. Revoke it after you deploy the new one.": what is revoked
\* is never the newest of two.
OldIsRevoked ==
  [][page = "keys" => \A r \in wire' \ wire :
       r.kind = "revoke" /\ Cardinality(LiveAt(tab.keys)) > 1 => r.what.old # tab.keys[1].id]_consoleVars

\* "Silently fail - show login form anyway" (LoginForm.tsx:72).
FailureShowsForm == page = "login" /\ tab.failed => OffersForm(tab)

\* The promises of the pages of the console, together: what a page shows, confirms and sends is of
\* the request the person made last.
PagesCorrect ==
  /\ ConsoleTypeOK /\ PreviewedFirst /\ ShownIsAsked /\ FiltersKept /\ TrimmedOnly
  /\ ShownWasHeld /\ OneSubmission
=============================================================================
