----------------------------- MODULE FileIndex -----------------------------
(***************************************************************************)
(* The documents of a file collection: the indexer that mirrors a source   *)
(* directory, upload sessions, documents created over the API, deletions   *)
(* and the embedding sweep (packages/broker/src: indexing/ingest.ts,       *)
(* sync.ts, upload.ts; embedding/sync.ts; verbs/mutate.ts mutateFile).     *)
(*                                                                         *)
(* ingestFile runs every statement in a transaction of its own.  A file is *)
(* a row (its checksum, its original) and the chunks that search reads;    *)
(* between two statements anything else may happen, or the process stop.   *)
(***************************************************************************)
EXTENDS Integers, FiniteSets, Functions, Absent

CONSTANTS
  Paths,       \* numbers: the walk is sorted
  Mirror,      \* the paths the source directory may have files at
  Versions,    \* what a file may hold, byte for byte
  Texts,
  Text,        \* Text[v]: what is extracted from v, and what the checksum is taken over
  Size,        \* Size[t]: the chunks of a text
  Rejected,    \* the versions that cannot be extracted or lack a required term
  Indexers, Uploaders, Sweepers,
  Corpus,      \* Corpus[u]: the files uploader u means to have in the collection
  Embedding,   \* the ingesting processes that were given an embedder
  Failing,     \* the ingesting processes a statement of which may fail, or that may die
  Batch,       \* the chunks of one call of the embedder
  Keys,        \* BOUND: row ids alive at once
  MaxCalls     \* BOUND: index runs, plans, creations, deletions and edits of the directory

Jobs == Indexers \cup Uploaders
Maps(f, S) == DOMAIN f \subseteq Paths /\ f \in [DOMAIN f -> S]

ASSUME IndexAssumption ==
  /\ Paths \subseteq Int /\ Mirror \subseteq Paths /\ Keys \subseteq Nat \ {0}
  /\ Text \in [Versions -> Texts] /\ Size \in [Texts -> Nat]
  /\ Rejected \subseteq Versions /\ None \notin Versions
  /\ Indexers \cap Uploaders = {}
  /\ DOMAIN Corpus = Uploaders /\ \A u \in Uploaders : Maps(Corpus[u], Versions)
  /\ Embedding \subseteq Jobs /\ Failing \subseteq Jobs
  /\ Batch \in Nat \ {0} /\ MaxCalls \in Nat

Contents == Texts \X Nat
File == [id : Keys, sum : Texts, blob : Versions \cup {None}, origin : {"index", "upload", "api"}]
\* The ids of a file's chunks are drawn together: draw and seq are the id of a chunk.
Chunk == [draw : Keys, file : Keys, seq : Nat, text : Texts, emb : Contents \cup {<<>>}]

VARIABLES
  dir,      \* the source directory: path to version
  files,    \* path to row; (workspace_id, path) is unique
  chunks,
  job,      \* what each ingesting process is doing
  sweep,    \* sweep[e]: the chunks whose embeddings e has asked for
  torn,     \* history: the files one of whose ingests stopped or met another
  calls     \* the calls made so far

vars == <<dir, files, chunks, job, sweep, torn, calls>>

\* existing and seen belong to an index run; calm is history: the paths that only
\* this run has touched since it began.
Idle ==
  [pc |-> "idle", todo |-> {}, existing |-> <<>>, seen |-> {}, calm |-> {},
   path |-> 0, ver |-> None, prev |-> 0, id |-> 0, draw |-> 0, n |-> 0]

Init ==
  /\ dir \in UNION {[D -> Versions] : D \in SUBSET Mirror}
  /\ files = <<>> /\ chunks = {}
  /\ job = [j \in Jobs |-> Idle]
  /\ sweep = [e \in Sweepers |-> {}]
  /\ torn = {} /\ calls = 0

Call == calls < MaxCalls /\ calls' = calls + 1

Stored == {files[p].id : p \in DOMAIN files}
ChunksOf(id) == {c \in chunks : c.file = id}

\* randomUUID: an id nothing holds; the least one, which is as good as any.
InUse ==
  Stored \cup torn
  \cup (UNION {{c.draw, c.file} : c \in chunks \cup (UNION {sweep[e] : e \in Sweepers})})
  \cup (UNION {{job[j].prev, job[j].id, job[j].draw} \cup Range(job[j].existing) : j \in Jobs})
Fresh(k) == k \in Keys \ InUse /\ \A x \in Keys \ InUse : k <= x

\* A file at p is written or edited by somebody other than j.
Disturb(p, j) == [i \in Jobs |-> IF i = j THEN job[i] ELSE [job[i] EXCEPT !.calm = @ \ {p}]]

With(p, row) == [q \in DOMAIN files \cup {p} |-> IF q = p THEN row ELSE files[q]]

\* on delete cascade: the chunks go with the row.
Erase(id) ==
  /\ files' = [q \in {p \in DOMAIN files : files[p].id # id} |-> files[q]]
  /\ chunks' = chunks \ ChunksOf(id)
  /\ torn' = torn \ {id}

---------------------------------------------------------------------------
(* An index run: the rows, then the directory, then a file at a time. *)

\* where origin = 'index'
Indexed == {p \in DOMAIN files : files[p].origin = "index"}

BeginIndex(i) ==
  /\ job[i].pc = "idle" /\ Call
  /\ job' = [job EXCEPT ![i] = [Idle EXCEPT !.pc = "list", !.calm = Mirror,
                                !.existing = [p \in Indexed |-> files[p].id]]]
  /\ UNCHANGED <<dir, files, chunks, sweep, torn>>

\* walk: one synchronous pass over the directory.
Walk(i) ==
  /\ i \in Indexers /\ job[i].pc = "list"
  /\ job' = [job EXCEPT ![i].pc = "file", ![i].todo = DOMAIN dir, ![i].seen = DOMAIN dir]
  /\ UNCHANGED <<dir, files, chunks, sweep, torn, calls>>

\* readFileSync throws on a file that has gone since: the run ends there.
FileGone(i) ==
  /\ i \in Indexers /\ job[i].pc = "file"
  /\ \E p \in job[i].todo : (\A q \in job[i].todo : p <= q) /\ p \notin DOMAIN dir
  /\ job' = [job EXCEPT ![i] = Idle]
  /\ UNCHANGED <<dir, files, chunks, sweep, torn, calls>>

\* delete where id = $1: whatever the row has become since it was listed.
Prune(i) ==
  /\ i \in Indexers /\ job[i].pc = "file" /\ job[i].todo = {}
  /\ \E p \in DOMAIN job[i].existing \ job[i].seen :
       /\ Erase(job[i].existing[p])
       /\ job' = [Disturb(p, i) EXCEPT ![i].existing = Restrict(@, DOMAIN @ \ {p})]
  /\ UNCHANGED <<dir, sweep, calls>>

EndIndex(i) ==
  /\ i \in Indexers /\ job[i].pc = "file" /\ job[i].todo = {}
  /\ DOMAIN job[i].existing \subseteq job[i].seen
  /\ job' = [job EXCEPT ![i] = Idle]
  /\ UNCHANGED <<dir, files, chunks, sweep, torn, calls>>

---------------------------------------------------------------------------
(* An upload session: the plan, then a request per file that is not there. *)

\* planUpload compares the bytes that are stored, not the text.
Unchanged(p, v) == p \in DOMAIN files /\ files[p].blob = v
ToTransfer(u) == {p \in DOMAIN Corpus[u] : ~Unchanged(p, Corpus[u][p])}

Plan(u) ==
  /\ job[u].pc = "idle" /\ Call
  /\ job' = [job EXCEPT ![u] = [Idle EXCEPT !.pc = "file", !.todo = ToTransfer(u)]]
  /\ UNCHANGED <<dir, files, chunks, sweep, torn>>

\* The queue is empty, or the tab is closed with files left.
EndUpload(u) ==
  /\ u \in Uploaders /\ job[u].pc = "file"
  /\ job' = [job EXCEPT ![u] = Idle]
  /\ UNCHANGED <<dir, files, chunks, sweep, torn, calls>>

---------------------------------------------------------------------------
(* ingestFile, a statement at a time *)

\* The bytes at hand: an upload carries them, a run reads the directory.
Bytes(j, p) == IF j \in Uploaders THEN Corpus[j][p] ELSE dir[p]
Origin(j) == IF j \in Uploaders THEN "upload" ELSE "index"

\* On to the next file; what a run remembers of the directory stays.
NextFile(j) == [job[j] EXCEPT !.pc = "file", !.todo = @ \ {job[j].path},
                              !.path = 0, !.ver = None, !.prev = 0, !.id = 0, !.draw = 0, !.n = 0]

\* ingestFile throws.  A run ends there; a client tries the request again, or gives it up.
Throws(j) ==
  \/ j \in Indexers /\ job' = [job EXCEPT ![j] = Idle]
  \/ j \in Uploaders /\ job' = [job EXCEPT ![j] = NextFile(j)]
  \/ /\ j \in Uploaders
     /\ job' = [job EXCEPT ![j] = [NextFile(j) EXCEPT !.todo = job[j].todo]]

\* Mutant: a path that is known is not read again.
AnyText(p, t) == p \in DOMAIN files
\* prev.checksum = file.checksum
SameText(p, t) == p \in DOMAIN files /\ files[p].sum = t

\* The file is extracted and the row of its path is selected.
Select(j) ==
  /\ job[j].pc = "file"
  /\ \E p \in job[j].todo :
       /\ \A q \in job[j].todo : p <= q
       /\ j \in Indexers => p \in DOMAIN dir
       /\ LET v == Bytes(j, p)
              at == [job[j] EXCEPT !.path = p]
          IN \/ v \in Rejected /\ j \in Indexers /\ job' = [job EXCEPT ![j] = Idle]
             \/ /\ v \in Rejected /\ j \in Uploaders
                /\ job' = [job EXCEPT ![j].todo = @ \ {p}]
             \/ /\ v \notin Rejected /\ SameText(p, Text[v])
                /\ job' = [job EXCEPT ![j].todo = @ \ {p}]
             \/ /\ v \notin Rejected /\ ~SameText(p, Text[v])
                /\ job' = [job EXCEPT ![j] =
                     [at EXCEPT !.pc = "store", !.ver = v,
                                !.prev = IF p \in DOMAIN files THEN files[p].id ELSE 0]]
  /\ UNCHANGED <<dir, files, chunks, sweep, torn, calls>>

\* An ingest is between its first write to a file and its last chunk; the others that are.
AtWork(j, id) == job[j].id = id /\ job[j].pc \in {"clear", "chunk"}
Rewriting(id, j) == {k \in Jobs \ {j} : AtWork(k, id)}

\* update ... where id = prev.id; a row deleted since is not there to be updated.
StoreUpdate(j) ==
  /\ job[j].pc = "store" /\ job[j].prev # 0
  /\ \E k \in Keys :
       /\ Fresh(k)
       /\ job' = [Disturb(job[j].path, j) EXCEPT
                    ![j].pc = "clear", ![j].id = job[j].prev, ![j].draw = k, ![j].prev = 0]
  /\ files' = [p \in DOMAIN files |->
       IF files[p].id = job[j].prev
       THEN [files[p] EXCEPT !.sum = Text[job[j].ver], !.blob = job[j].ver, !.origin = Origin(j)]
       ELSE files[p]]
  /\ torn' = IF Rewriting(job[j].prev, j) # {} THEN torn \cup {job[j].prev} ELSE torn
  /\ UNCHANGED <<dir, chunks, sweep, calls>>

\* insert; (workspace_id, path) is unique.
StoreInsert(j) ==
  /\ job[j].pc = "store" /\ job[j].prev = 0
  /\ \/ /\ job[j].path \in DOMAIN files
        /\ Throws(j) /\ UNCHANGED files
     \/ /\ job[j].path \notin DOMAIN files
        /\ \E k \in Keys :
             /\ Fresh(k)
             /\ files' = With(job[j].path, [id |-> k, sum |-> Text[job[j].ver],
                                            blob |-> job[j].ver, origin |-> Origin(j)])
             /\ job' = [Disturb(job[j].path, j) EXCEPT
                          ![j].pc = "chunk", ![j].id = k, ![j].draw = k]
  /\ UNCHANGED <<dir, chunks, sweep, torn, calls>>

\* Mutant: the chunks are left where they are.
Keep(id) == {}
\* delete from documents where file_id = $1
Derived(id) == ChunksOf(id)

Clear(j) ==
  /\ job[j].pc = "clear"
  /\ chunks' = chunks \ Derived(job[j].id)
  /\ torn' = IF /\ Rewriting(job[j].id, j) = {}
                /\ \E p \in DOMAIN files : files[p].id = job[j].id /\ files[p].sum = Text[job[j].ver]
             THEN torn \ {job[j].id} ELSE torn
  /\ job' = [job EXCEPT ![j].pc = "chunk"]
  /\ UNCHANGED <<dir, files, sweep, calls>>

\* One chunk; it needs its file, and its place in it must be free.
AddChunk(j) ==
  /\ job[j].pc = "chunk" /\ job[j].n < Size[Text[job[j].ver]]
  /\ LET new == [draw |-> job[j].draw, file |-> job[j].id, seq |-> job[j].n,
                 text |-> Text[job[j].ver], emb |-> <<>>]
         fits == new.file \in Stored /\ \A c \in ChunksOf(new.file) : c.seq # new.seq
     IN \/ ~fits /\ Throws(j) /\ UNCHANGED chunks
        \/ /\ fits /\ chunks' = chunks \cup {new}
           /\ job' = [job EXCEPT ![j].n = @ + 1]
  /\ UNCHANGED <<dir, files, sweep, torn, calls>>

\* embedChunks sets the embeddings by the ids it has just drawn; the call may fail.
Embed(j) ==
  /\ job[j].pc = "chunk" /\ job[j].n = Size[Text[job[j].ver]]
  /\ \/ /\ j \in Embedding /\ job[j].n > 0
        /\ chunks' = {IF c.draw = job[j].draw
                      THEN [c EXCEPT !.emb = <<Text[job[j].ver], c.seq>>] ELSE c : c \in chunks}
        /\ job' = [job EXCEPT ![j] = NextFile(j)]
     \/ /\ j \in Embedding /\ job[j].n > 0
        /\ Throws(j) /\ UNCHANGED chunks
     \/ /\ j \in Embedding => job[j].n = 0
        /\ job' = [job EXCEPT ![j] = NextFile(j)]
        /\ UNCHANGED chunks
  /\ UNCHANGED <<dir, files, sweep, torn, calls>>

\* A statement fails, or the process stops, with the ones before it committed.
Break(j) ==
  /\ j \in Failing /\ job[j].pc \in {"store", "clear", "chunk"}
  /\ torn' = IF /\ job[j].id \in Stored
                /\ job[j].pc = "clear" \/ job[j].n < Size[Text[job[j].ver]]
             THEN torn \cup {job[j].id} ELSE torn
  /\ Throws(j)
  /\ UNCHANGED <<dir, files, chunks, sweep, calls>>

Ingest(j) == Select(j) \/ StoreUpdate(j) \/ StoreInsert(j) \/ Clear(j) \/ AddChunk(j) \/ Embed(j)

---------------------------------------------------------------------------
(* The other writers *)

\* mutateFile: the row and its chunks in one transaction; a path that is taken is a conflict.
Create(p, v) ==
  /\ p \notin DOMAIN files /\ v \notin Rejected /\ Size[Text[v]] > 0 /\ Call
  /\ \E k \in Keys :
       /\ Fresh(k)
       /\ files' = With(p, [id |-> k, sum |-> Text[v], blob |-> None, origin |-> "api"])
       /\ chunks' = chunks \cup {[draw |-> k, file |-> k, seq |-> n, text |-> Text[v], emb |-> <<>>] :
                                 n \in 0 .. Size[Text[v]] - 1}
  /\ job' = [j \in Jobs |-> [job[j] EXCEPT !.calm = @ \ {p}]]
  /\ UNCHANGED <<dir, sweep, torn>>

\* deleteUploadedFile: any document, wherever it came from.
Delete(p) ==
  /\ p \in DOMAIN files /\ Call
  /\ Erase(files[p].id)
  /\ job' = [j \in Jobs |-> [job[j] EXCEPT !.calm = @ \ {p}]]
  /\ UNCHANGED <<dir, sweep>>

\* Somebody saves or removes a file of the source directory.
Edit(p) ==
  /\ Call
  /\ \/ \E v \in Versions : dir' = [q \in DOMAIN dir \cup {p} |-> IF q = p THEN v ELSE dir[q]]
     \/ p \in DOMAIN dir /\ dir' = Restrict(dir, DOMAIN dir \ {p})
  /\ job' = [j \in Jobs |-> [job[j] EXCEPT !.calm = @ \ {p}]]
  /\ UNCHANGED <<files, chunks, sweep, torn>>

---------------------------------------------------------------------------
(* embedCollection *)

\* Mutant: the chunks of uploaded and created documents are passed over.
OfIndexed == {c \in chunks : c.emb = <<>> /\ \E p \in Indexed : files[p].id = c.file}
\* where embedding is null
Pending == {c \in chunks : c.emb = <<>>}

\* order by id limit $2: the ids are random, so the first of them are any.
Ask(e) ==
  /\ sweep[e] = {} /\ Pending # {}
  /\ \E S \in SUBSET Pending :
       /\ Cardinality(S) = Batch \/ (S = Pending /\ Cardinality(S) < Batch)
       /\ sweep' = [sweep EXCEPT ![e] = S]
  /\ UNCHANGED <<dir, files, chunks, job, torn, calls>>

\* where d.id = v.id
SameId(c, b) == c.draw = b.draw /\ c.seq = b.seq

\* The embedder answers, and the answer is stored.
Answer(e) ==
  /\ sweep[e] # {}
  /\ chunks' = {IF \E b \in sweep[e] : SameId(c, b)
                THEN [c EXCEPT !.emb = LET b == CHOOSE b \in sweep[e] : SameId(c, b)
                                       IN <<b.text, b.seq>>] ELSE c : c \in chunks}
  /\ sweep' = [sweep EXCEPT ![e] = {}]
  /\ UNCHANGED <<dir, files, job, torn, calls>>

\* The embedder refuses (a rate limit), or the process stops.
NoAnswer(e) ==
  /\ sweep[e] # {}
  /\ sweep' = [sweep EXCEPT ![e] = {}]
  /\ UNCHANGED <<dir, files, chunks, job, torn, calls>>

---------------------------------------------------------------------------

\* Nothing under way and no call left.
Done == calls = MaxCalls /\ (\A j \in Jobs : job[j].pc = "idle") /\ UNCHANGED vars

Next ==
  \/ \E i \in Indexers : BeginIndex(i) \/ Walk(i) \/ FileGone(i) \/ Prune(i) \/ EndIndex(i)
  \/ \E u \in Uploaders : Plan(u) \/ EndUpload(u)
  \/ \E j \in Jobs : Ingest(j) \/ Break(j)
  \/ \E p \in Paths : (\E v \in Versions : Create(p, v)) \/ Delete(p)
  \/ \E p \in Mirror : Edit(p)
  \/ \E e \in Sweepers : Ask(e) \/ Answer(e) \/ NoAnswer(e)
  \/ Done

Spec == Init /\ [][Next]_vars

\* An operator runs `embed` again until nothing is left ("safe to re-run"), and the
\* embedder does not refuse for ever.
FairSpec == Spec /\ \A e \in Sweepers : WF_vars(Ask(e)) /\ SF_vars(Answer(e))
---------------------------------------------------------------------------
(* Properties *)

IsJob(r) ==
  /\ Maps(r.existing, Keys)
  /\ r \in [pc : {"idle", "list", "file", "store", "clear", "chunk"}, todo : SUBSET Paths,
             existing : {r.existing}, seen : SUBSET Paths, calm : SUBSET Paths,
             path : Paths \cup {0}, ver : Versions \cup {None}, prev : Keys \cup {0},
             id : Keys \cup {0}, draw : Keys \cup {0}, n : Nat]

\* Row ids are unique, a chunk has a file, and a place in a file holds one chunk.
TypeOK ==
  /\ Maps(dir, Versions) /\ Maps(files, File) /\ chunks \subseteq Chunk
  /\ DOMAIN job = Jobs /\ \A j \in Jobs : IsJob(job[j])
  /\ sweep \in [Sweepers -> SUBSET Chunk]
  /\ torn \subseteq Keys /\ calls \in 0 .. MaxCalls
  /\ \A p, q \in DOMAIN files : files[p].id = files[q].id => p = q
  /\ \A c \in chunks : c.file \in Stored
  /\ \A c, d \in chunks : c.file = d.file /\ c.seq = d.seq => c = d

\* ingest.ts: "an embedding can never outlive the text it describes" - whatever the
\* sweep asked for and was answered late, an embedding is that of its own chunk.
EmbeddingMatches == \A c \in chunks : c.emb \in {<<>>, <<c.text, c.seq>>}

\* The chunks search reads are those of the text the row's checksum names.
Whole(p) ==
  {<<c.text, c.seq>> : c \in ChunksOf(files[p].id)} = {files[p].sum} \X (0 .. Size[files[p].sum] - 1)

\* The only ways to a document that search sees other than it was stored: an ingest is
\* rewriting it now, one broke off between its first write and its last chunk, or two met.
OnlyTornDiffers ==
  \A p \in DOMAIN files :
    files[p].id \notin torn /\ (\A j \in Jobs : ~AtWork(j, files[p].id)) => Whole(p)

\* cli.md: "Documents that were never in that directory are left alone" - an index run
\* removes or rewrites no document at a path the directory never had a file at.
NeverTheirs ==
  [][\A i \in Indexers : job'[i] # job[i] /\ calls' = calls =>
       \A p \in DOMAIN files \ Mirror :
         p \in DOMAIN files' /\ files'[p] = files[p] /\ ChunksOf(files[p].id) \subseteq chunks']_vars

\* cli.md: "Indexing mirrors the directory" - when a run ends, each path that only it has
\* touched holds what the directory holds, and no row of the indexer's if there is nothing.
Mirrors ==
  [][\A i \in Indexers : EndIndex(i) =>
       \A p \in job[i].calm :
         IF p \in DOMAIN dir THEN p \in DOMAIN files /\ files[p].sum = Text[dir[p]]
                             ELSE p \notin Indexed]_vars

\* upload.ts: "Re-running it after any interruption is the whole resume mechanism, and it
\* is correct" - a session that is told there is nothing left to transfer has every file
\* of its corpus in the collection, whole.
ResumeIsComplete ==
  [][\A u \in Uploaders : Plan(u) /\ ToTransfer(u) = {} =>
       \A p \in DOMAIN Corpus[u] : Whole(p)]_vars

\* embedding/sync.ts: "it selects the rows that have no embedding yet and stops when there
\* are none" - no chunk stays without one for good.
Embedded ==
  \A k \in Keys :
    (\E c \in chunks : c.draw = k /\ c.emb = <<>>) ~> ~(\E c \in chunks : c.draw = k /\ c.emb = <<>>)

\* What search may find: chunks of rows that are there, embedded for their own text, and the
\* text of the row, whole, unless its ingest is at work, broke off or met another.
SearchSeesTheText == TypeOK /\ EmbeddingMatches /\ OnlyTornDiffers

\* What an index run may do: it leaves what was never in its directory, and mirrors the rest.
RunMirrors == NeverTheirs /\ Mirrors
=============================================================================
