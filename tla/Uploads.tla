------------------------------ MODULE Uploads ------------------------------
(***************************************************************************)
(* The upload page of the console (apps/web: admin/documents/UploadQueue)  *)
(* and the two routes it calls: picking files, the plan of what is already *)
(* stored, the pool of workers with its pause and retries, the form whose  *)
(* terms go with every file.  The tab has one thread, but every request is *)
(* answered later, when the collection, the form or the list may be other. *)
(***************************************************************************)
EXTENDS Integers, FiniteSets, Sequences, Ordering, Absent

CONSTANTS
    Collections,
    Vocab,          \* Vocab[c]: the vocabulary bound to a collection, or None
    Slugs,          \* the terms of every vocabulary
    FileVersions,       \* what a file may hold, byte for byte
    TextOf,         \* TextOf[v]: what is extracted from it
    Carries,        \* Carries[v]: the term in its own frontmatter, or None
    HeldBefore,         \* what the collections may hold to begin with
    Folders,        \* what may be picked: functions from paths to versions
    Pool,           \* the workers; the code has 4 (CONCURRENCY)
    MaxAttempts,
    MaxActs,        \* bound on what the admin does: choices, picks, runs, pauses
    MaxPicks,       \* bound on the picks among them
    MaxTroubles     \* bound on answers that do not come or are 5xx, and on other people's changes

VARIABLES
    chosen,         \* the collection selected, or None
    shown,          \* the collection whose detail the form shows, or None
    fetching,       \* the collections whose detail is on its way
    term,           \* the term in the form, or None
    list,           \* items: path to [ver, state]
    picks,          \* the picks under way, in any order: [coll, files, at]
    pool,           \* None, or the run: [coll, field, term, queue, cursor]
    hands,          \* what each worker is at: None, or [path, ver, attempt, reply]
    paused,
    held,           \* held[c]: the stored files, path to [ver, term]
    accepted,       \* history: every <<collection, path, version>> the server said ok to
    sent,           \* history: every <<collection, path, text, term>> it was sent, or held at first
    budget          \* how much of each bound is used

uplvars == <<chosen, shown, fetching, term, list, picks, pool, hands, paused, held, accepted, sent, budget>>

PickedPaths == UNION {DOMAIN f : f \in Folders}
ItemStates == {"hashing", "pending", "planned", "skip", "uploading", "done", "failed"}
Replies == {"ok", "refused", "5xx", "thrown"}
Item == [ver : FileVersions, state : ItemStates]
StoredFile == [ver : FileVersions, term : Slugs \cup {None}]
Hand == [path : PickedPaths, ver : FileVersions, attempt : 1..MaxAttempts, reply : Replies \cup {None}]
Pools == [coll : Collections, field : {Vocab[c] : c \in Collections} \cup {None}, term : Slugs \cup {None},
          queue : Seq([path : PickedPaths, ver : FileVersions]), cursor : Nat \ {0}]

\* What is stored to begin with was stored by these rules.
ASSUME UploadsAssumption ==
    /\ MaxAttempts \in Nat \ {0} /\ {MaxActs, MaxPicks, MaxTroubles} \subseteq Nat
    /\ PickedPaths \subseteq Nat
    /\ \A f \in Folders : f \in [DOMAIN f -> FileVersions] /\ IsFiniteSet(DOMAIN f)
    /\ \A v \in FileVersions : Carries[v] \in Slugs \cup {None}
    /\ \A h \in HeldBefore :
          /\ h = [c \in Collections |-> h[c]]
          /\ \A c \in Collections : \A p \in DOMAIN h[c] :
                h[c][p] \in StoredFile /\ (Vocab[c] # None => h[c][p].term # None)
    /\ None \notin Replies \cup ItemStates \cup Hand \cup Pools

Act == budget.acts < MaxActs /\ budget' = [budget EXCEPT !.acts = @ + 1]
ActPick == budget.acts < MaxActs /\ budget.picks < MaxPicks
           /\ budget' = [budget EXCEPT !.acts = @ + 1, !.picks = @ + 1]
Trouble == budget.troubles < MaxTroubles /\ budget' = [budget EXCEPT !.troubles = @ + 1]

UplInit ==
    /\ chosen = None /\ shown = None /\ fetching = {} /\ term = None
    /\ list = <<>> /\ picks = {} /\ pool = None /\ hands = [w \in Pool |-> None]
    /\ paused = FALSE
    /\ held \in HeldBefore
    /\ accepted = {}
    /\ sent = UNION {{<<c, p, TextOf[held[c][p].ver], held[c][p].term>> : p \in DOMAIN held[c]} : c \in Collections}
    /\ budget = [acts |-> 0, picks |-> 0, troubles |-> 0]

-----------------------------------------------------------------------------
(* The form. *)

\* Choosing a collection starts the effect that asks for its detail; the list stays as it is.
Choose(c) ==
    /\ c # chosen /\ Act
    /\ chosen' = c
    /\ fetching' = fetching \cup {c}
    /\ UNCHANGED <<shown, term, list, picks, pool, hands, paused, held, accepted, sent>>

\* A detail arrives, whichever collection is chosen by then, and clears the terms.
DetailArrives(c) ==
    /\ c \in fetching
    /\ shown' = c /\ term' = None
    /\ fetching' = fetching \ {c}
    /\ UNCHANGED <<chosen, list, picks, pool, hands, paused, held, accepted, sent, budget>>

\* A term is chosen in the form; the control is there for the vocabularies of the detail shown.
ChooseTerm(t) ==
    /\ shown # None /\ Vocab[shown] # None /\ term # t /\ Act
    /\ term' = t
    /\ UNCHANGED <<chosen, shown, fetching, list, picks, pool, hands, paused, held, accepted, sent>>

-----------------------------------------------------------------------------
(* Picking files. *)

\* onPick: the list is replaced at once; the collection is the one chosen now.
Pick(files) ==
    /\ chosen # None /\ ActPick
    /\ list' = [p \in DOMAIN files |-> [ver |-> files[p], state |-> "hashing"]]
    /\ picks' = picks \cup {[coll |-> chosen, files |-> files, at |-> "hash", n |-> budget.picks]}
    /\ UNCHANGED <<chosen, shown, fetching, term, pool, hands, paused, held, accepted, sent>>

\* update: a patch by path, to whatever item of the list has that path now.
RowPatch(l, p, state) == IF p \in DOMAIN l THEN [l EXCEPT ![p].state = state] ELSE l

\* Every file is hashed; each item of the list with such a path becomes pending.
Hash(k) ==
    /\ k.at = "hash"
    /\ list' = [p \in DOMAIN list |-> IF p \in DOMAIN k.files
                                      THEN [list[p] EXCEPT !.state = "pending"] ELSE list[p]]
    /\ picks' = (picks \ {k}) \cup {[k EXCEPT !.at = "plan"]}
    /\ UNCHANGED <<chosen, shown, fetching, term, pool, hands, paused, held, accepted, sent, budget>>

\* planUpload: unchanged is the same path with the same bytes, in this collection.
StoredAlready(c, p, v) == p \in DOMAIN held[c] /\ held[c][p].ver = v

\* The plan replaces the whole list by this pick's files; when it fails the list stays.
PlanPick(k) ==
    /\ k.at = "plan"
    /\ \/ /\ list' = [p \in DOMAIN k.files |->
                 [ver |-> k.files[p],
                  state |-> IF StoredAlready(k.coll, p, k.files[p]) THEN "skip" ELSE "planned"]]
          /\ UNCHANGED budget
       \/ Trouble /\ UNCHANGED list
    /\ picks' = picks \ {k}
    /\ UNCHANGED <<chosen, shown, fetching, term, pool, hands, paused, held, accepted, sent>>

-----------------------------------------------------------------------------
(* The run. *)

Among(states) == {p \in DOMAIN list : list[p].state \in states}

\* missingTerm: a bound vocabulary of the detail shown has no term in the form.
MissingTerm == shown # None /\ Vocab[shown] # None /\ term = None

\* The button of a first run asks for more than the button that retries what failed.
MayRun == (Among({"planned"}) # {} /\ ~MissingTerm) \/ Among({"failed"}) # {}

\* The order of the list, which is that of the paths here.
InListOrder(S) == {e \in Enumerations(S) : \A m, n \in DOMAIN e : m < n => e[m] < e[n]}

\* run: the queue, the collection and the sidecar are those of the moment it is pressed.
Run ==
    /\ pool = None /\ chosen # None /\ MayRun /\ Act
    /\ \E todo \in InListOrder(Among({"planned", "failed"})) :
           pool' = [coll |-> chosen,
                    field |-> IF shown = None THEN None ELSE Vocab[shown], term |-> term,
                    queue |-> [i \in DOMAIN todo |-> [path |-> todo[i], ver |-> list[todo[i]].ver]],
                    cursor |-> 1]
    /\ UNCHANGED <<chosen, shown, fetching, term, list, picks, hands, paused, held, accepted, sent>>

\* Mutant: the cursor moves on only when the file has been sent.
TakeLate(w) ==
    /\ pool # None /\ hands[w] = None /\ ~paused /\ pool.cursor <= Len(pool.queue)
    /\ LET it == pool.queue[pool.cursor]
       IN  /\ hands' = [hands EXCEPT ![w] = [path |-> it.path, ver |-> it.ver, attempt |-> 1,
                                             reply |-> None]]
           /\ list' = RowPatch(list, it.path, "uploading")
    /\ pool' = [pool EXCEPT !.cursor = IF \E u \in Pool : hands[u] # None THEN @ + 1 ELSE @]
    /\ UNCHANGED <<chosen, shown, fetching, term, picks, paused, held, accepted, sent, budget>>

\* A worker takes the next file of the shared queue; while paused nobody takes one.
Take(w) ==
    /\ pool # None /\ hands[w] = None /\ ~paused /\ pool.cursor <= Len(pool.queue)
    /\ LET it == pool.queue[pool.cursor]
       IN  /\ hands' = [hands EXCEPT ![w] = [path |-> it.path, ver |-> it.ver, attempt |-> 1,
                                             reply |-> None]]
           /\ list' = RowPatch(list, it.path, "uploading")
    /\ pool' = [pool EXCEPT !.cursor = @ + 1]
    /\ UNCHANGED <<chosen, shown, fetching, term, picks, paused, held, accepted, sent, budget>>

\* The term a file gets: its own frontmatter wins, the sidecar fills in what it does not say.
TermFor(c, v) ==
    IF Carries[v] # None THEN Carries[v]
    ELSE IF pool.field = Vocab[c] THEN pool.term ELSE None

\* ingestFile refuses a file that lacks a term of the bound vocabulary.
Acceptable(c, v) == Vocab[c] # None => TermFor(c, v) # None

\* The same text is skipped, with the bytes and the term it already has; any other is a revision.
AfterUpload(c, p, v) ==
    IF p \in DOMAIN held[c] /\ TextOf[held[c][p].ver] = TextOf[v] THEN held[c]
    ELSE [q \in DOMAIN held[c] \cup {p} |->
             IF q = p THEN [ver |-> v, term |-> IF Vocab[c] = None THEN None ELSE TermFor(c, v)]
             ELSE held[c][q]]

\* POST /api/admin/documents: stored or refused; or a failure, before or after it was stored.
Serve(w) ==
    /\ hands[w] # None /\ hands[w].reply = None
    /\ LET c == pool.coll
           p == hands[w].path
           v == hands[w].ver
           Stores == /\ Acceptable(c, v)
                     /\ held' = [held EXCEPT ![c] = AfterUpload(c, p, v)]
       IN  \/ /\ Stores /\ UNCHANGED budget
              /\ accepted' = accepted \cup {<<c, p, v>>}
              /\ hands' = [hands EXCEPT ![w].reply = "ok"]
           \/ /\ ~Acceptable(c, v)
              /\ hands' = [hands EXCEPT ![w].reply = "refused"]
              /\ UNCHANGED <<held, accepted, budget>>
           \/ /\ Stores \/ UNCHANGED held
              /\ \E r \in {"5xx", "thrown"} : hands' = [hands EXCEPT ![w].reply = r]
              /\ Trouble /\ UNCHANGED accepted
    /\ sent' = sent \cup {<<pool.coll, hands[w].path, TextOf[hands[w].ver], TermFor(pool.coll, hands[w].ver)>>}
    /\ UNCHANGED <<chosen, shown, fetching, term, list, picks, pool, paused>>

\* What an answer makes of an item: only a 5xx is tried again, so a fetch that throws is not.
Settled(reply, attempt) ==
    IF reply = "ok" THEN "done"
    ELSE IF reply = "5xx" /\ attempt < MaxAttempts THEN None
    ELSE "failed"

Answered(w) ==
    /\ hands[w] # None /\ hands[w].reply # None
    /\ LET s == Settled(hands[w].reply, hands[w].attempt)
       IN  IF s = None
           THEN /\ hands' = [hands EXCEPT ![w].attempt = @ + 1, ![w].reply = None]
                /\ UNCHANGED list
           ELSE /\ hands' = [hands EXCEPT ![w] = None]
                /\ list' = RowPatch(list, hands[w].path, s)
    /\ UNCHANGED <<chosen, shown, fetching, term, picks, pool, paused, held, accepted, sent, budget>>

\* Promise.all: the queue is empty and every worker has come back.
RunEnds ==
    /\ pool # None /\ pool.cursor > Len(pool.queue) /\ \A w \in Pool : hands[w] = None
    /\ pool' = None
    /\ UNCHANGED <<chosen, shown, fetching, term, list, picks, hands, paused, held, accepted, sent, budget>>

\* The pause button, which is there while a run is on.
Pause ==
    /\ pool # None /\ Act
    /\ paused' = TRUE /\ ~paused
    /\ UNCHANGED <<chosen, shown, fetching, term, list, picks, pool, hands, held, accepted, sent>>
Resume ==
    /\ pool # None /\ paused
    /\ paused' = FALSE
    /\ UNCHANGED <<chosen, shown, fetching, term, list, picks, pool, hands, held, accepted, sent, budget>>

\* Somebody else deletes a stored document.
Elsewhere ==
    \E c \in Collections : \E p \in DOMAIN held[c] :
        /\ Trouble
        /\ held' = [held EXCEPT ![c] = [q \in DOMAIN held[c] \ {p} |-> held[c][q]]]
        /\ UNCHANGED <<chosen, shown, fetching, term, list, picks, pool, hands, paused, accepted, sent>>

UplNext ==
    \/ \E c \in Collections : Choose(c) \/ DetailArrives(c)
    \/ \E t \in Slugs : ChooseTerm(t)
    \/ \E f \in Folders : Pick(f)
    \/ \E k \in picks : Hash(k) \/ PlanPick(k)
    \/ Run \/ RunEnds \/ Pause \/ Resume \/ Elsewhere
    \/ \E w \in Pool : Take(w) \/ Serve(w) \/ Answered(w)

UplSpec == UplInit /\ [][UplNext]_uplvars

-----------------------------------------------------------------------------
(* Properties. *)

\* Every variable has its type; what is stored is a file with at most one term.
UplTypeOK ==
    /\ chosen \in Collections \cup {None} /\ shown \in Collections \cup {None}
    /\ \A p \in DOMAIN list : list[p] \in Item
    /\ hands \in [Pool -> Hand \cup {None}] /\ pool \in Pools \cup {None}
    /\ \A c \in Collections : \A p \in DOMAIN held[c] : held[c][p] \in StoredFile

\* UploadQueue.tsx "an unscoped document would be reachable by a grant approved on the assumption
\* it carried one": no document of a collection with a bound vocabulary is without a term, though
\* the button that retries does not ask for one and the form may be another collection's.
NoneUnscoped ==
    \A c \in Collections : Vocab[c] # None => \A p \in DOMAIN held[c] : held[c][p].term # None

\* "A fixed pool of workers pulling from one queue": no file is in two hands, and what has been
\* taken is what the cursor has passed.
OneHandEach ==
    /\ \A u, w \in Pool : (u # w /\ hands[u] # None /\ hands[w] # None)
                          => hands[u].path # hands[w].path
    /\ \A w \in Pool : hands[w] # None =>
          pool # None /\ \E i \in 1..(pool.cursor - 1) : pool.queue[i].path = hands[w].path

\* When no run is on nothing is left uploading: whatever was picked, paused or answered in
\* between, every file that a worker took is done or failed, or the list no longer has it.
RunSettles == pool = None => Among({"uploading"}) = {}

\* Until files are picked while a run is on, an item that says done was accepted by the server,
\* in some collection, with these bytes.
DoneWasAccepted ==
    \A p \in Among({"done"}) :
        budget.picks <= 1 => \E c \in Collections : <<c, p, list[p].ver>> \in accepted

\* plan/route.ts "Which of these do you already have?": a plan skips only a file that the picked
\* collection holds byte for byte as it answers.
SkipsWhatIsHeld ==
    [][\A k \in picks :
          (k.at = "plan" /\ k \notin picks' /\ list' # list)
          => \A p \in DOMAIN list' : list'[p].state = "skip" =>
                p \in DOMAIN held[k.coll] /\ held[k.coll][p].ver = list'[p].ver]_uplvars

\* ingestFile decides by the text alone whether to write: whatever is sent again, skipped or
\* lost, the term a grant is scoped by came with the text it is on, never with another.
TermsCameWithTheText ==
    \A c \in Collections : Vocab[c] # None =>
        \A p \in DOMAIN held[c] : <<c, p, TextOf[held[c][p].ver], held[c][p].term>> \in sent

-----------------------------------------------------------------------------
(* Not kept by the code, see README. *)

\* UploadQueue.tsx "Applied to every file in this batch, exactly as a sidecar .yml would be": a
\* file the server accepts has the term it came with.
BatchTermsApplied ==
    [][\A w \in Pool :
          (hands[w] # None /\ hands[w].reply = None /\ hands'[w] # None /\ hands'[w].reply = "ok"
           /\ Vocab[pool.coll] # None)
          => held'[pool.coll][hands[w].path].term = TermFor(pool.coll, hands[w].ver)]_uplvars

\* A file that is skipped is one the chosen collection holds.
SkipIsHere ==
    \A p \in Among({"skip"}) :
        budget.troubles = 0 => chosen # None /\ p \in DOMAIN held[chosen]

\* An item that says done has been uploaded, however often files were picked.
DoneIsThisFile ==
    \A p \in Among({"done"}) : \E c \in Collections : <<c, p, list[p].ver>> \in accepted

\* The promises of the upload queue, together: no file twice, none forgotten, none called stored
\* that was not accepted, and none without the term its collection asks for.
UploadsCorrect ==
  /\ []( /\ UplTypeOK
        /\ NoneUnscoped
        /\ OneHandEach
        /\ RunSettles
        /\ DoneWasAccepted
        /\ TermsCameWithTheText )
  /\ SkipsWhatIsHeld
=============================================================================
