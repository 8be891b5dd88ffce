--------------------------- MODULE FileIndexProofs ---------------------------
(***************************************************************************)
(* Theorems about the documents of a file collection: for any number of    *)
(* index runs, upload sessions and sweeps, what search finds is text of    *)
(* the row it belongs to, and a run mirrors its directory and leaves the   *)
(* rest alone.  And of the page that uploads files: no file twice, none    *)
(* forgotten, none without the term its collection asks for.               *)
(***************************************************************************)
EXTENDS FileIndex, Uploads, FiniteSetTheorems, SequenceTheorems, TLAPS

---------------------------------------------------------------------------
(* The inductive invariant *)

\* The chunks of a file are the first n of text t.
Held(id, t, n) ==
  /\ \A c \in chunks : c.file = id => c.text = t /\ c.seq < n
  /\ \A i \in Nat : i < n => \E c \in chunks : c.file = id /\ c.seq = i

\* What an ingest has in hand.
JobOK(j) ==
  LET r == job[j]
  IN /\ r.pc \in {"store", "clear", "chunk"} => r.ver \in Versions /\ r.path \in Paths
     /\ IF r.pc \in {"clear", "chunk"} THEN r.id \in Keys /\ r.draw \in Keys ELSE r.id = 0
     /\ j \in Uploaders => r.todo \subseteq DOMAIN Corpus[j]
     /\ IF r.pc = "chunk" THEN r.n <= Size[Text[r.ver]] ELSE r.n = 0

\* A file that is not torn has one ingest at work on it at most, and what that has not yet
\* cleared or inserted is all that is wrong with its chunks.
Sound(id, t) ==
  id \notin torn =>
    /\ \A j, k \in Jobs : AtWork(j, id) /\ AtWork(k, id) => j = k
    /\ (\A j \in Jobs : ~AtWork(j, id)) => Held(id, t, Size[t])
    /\ \A j \in Jobs : AtWork(j, id) => t = Text[job[j].ver]
    /\ \A j \in Jobs, n \in Nat : AtWork(j, id) /\ job[j].pc = "chunk" /\ n = job[j].n => Held(id, t, n)
FileOK(p) == \A id \in Keys, t \in Texts : id = files[p].id /\ t = files[p].sum => Sound(id, t)

\* A draw of ids is spent on one text: in the table, in what a sweep has asked for, and in
\* what an ingest is about to insert.
Drawn(d, t) ==
  \/ \E c \in chunks : c.draw = d /\ c.text = t
  \/ \E e \in Sweepers : \E c \in sweep[e] : c.draw = d /\ c.text = t
  \/ \E j \in Jobs : job[j].pc \in {"clear", "chunk"} /\ job[j].draw = d /\ Text[job[j].ver] = t
OneText == \A d, t, u : Drawn(d, t) /\ Drawn(d, u) => t = u

Tables ==
  /\ Maps(dir, Versions) /\ Maps(files, File) /\ chunks \subseteq Chunk
  /\ sweep \in [Sweepers -> SUBSET Chunk]
  /\ torn \subseteq Keys /\ calls \in 0 .. MaxCalls
  /\ \A p, q \in DOMAIN files : files[p].id = files[q].id => p = q
  /\ \A c \in chunks : c.file \in Stored
  /\ \A c, d \in chunks : c.file = d.file /\ c.seq = d.seq => c = d

IndexInv ==
  /\ Tables
  /\ DOMAIN job = Jobs /\ \A j \in Jobs : IsJob(job[j]) /\ JobOK(j)
  /\ \A p \in DOMAIN files : FileOK(p)
  /\ OneText /\ EmbeddingMatches

---------------------------------------------------------------------------
(* What it says, and how it begins *)

LEMMA FileTyped ==
  ASSUME Tables, NEW p \in DOMAIN files
  PROVE  /\ p \in Paths /\ files[p] \in File
         /\ files[p].id \in Keys /\ files[p].id # 0 /\ files[p].sum \in Texts /\ Size[files[p].sum] \in Nat
         /\ files[p].id \in Stored
BY IndexAssumption DEF Tables, Maps, File, Stored

LEMMA ChunkTyped ==
  ASSUME NEW c \in Chunk
  PROVE  /\ c.draw \in Keys /\ c.file \in Keys /\ c.seq \in Nat /\ c.text \in Texts /\ c.emb \in Contents \cup {<<>>}
         /\ c = [draw |-> c.draw, file |-> c.file, seq |-> c.seq, text |-> c.text, emb |-> c.emb]
BY DEF Chunk

LEMMA InvSees == IndexInv => SearchSeesTheText
<1> SUFFICES ASSUME IndexInv PROVE SearchSeesTheText
  OBVIOUS
<1>1. TypeOK
  BY DEF IndexInv, Tables, TypeOK
<1>2. ASSUME NEW p \in DOMAIN files, files[p].id \notin torn, \A j \in Jobs : ~AtWork(j, files[p].id)
      PROVE  Whole(p)
  <2> DEFINE id == files[p].id
             t == files[p].sum
  <2>1. t \in Texts /\ Size[t] \in Nat
    BY FileTyped DEF IndexInv
  <2>3. Held(id, t, Size[t])
    BY <1>2, FileTyped DEF IndexInv, FileOK, Sound
  <2> HIDE DEF id, t
  <2> QED
    <3>1. \A c \in ChunksOf(id) : c.text = t /\ c.seq \in 0 .. Size[t] - 1
      BY <2>1, <2>3, ChunkTyped DEF ChunksOf, Held, IndexInv, Tables
    <3>2. \A i \in 0 .. Size[t] - 1 : \E c \in ChunksOf(id) : c.text = t /\ c.seq = i
      BY <2>1, <2>3 DEF ChunksOf, Held
    <3> QED BY <3>1, <3>2 DEF Whole, id, t
<1> QED BY <1>1, <1>2 DEF SearchSeesTheText, OnlyTornDiffers, IndexInv

LEMMA NoMap == \A S : <<>> \in [{} -> S] /\ DOMAIN <<>> = {}
OBVIOUS

LEMMA IdleTyped == IsJob(Idle) /\ Idle.pc = "idle" /\ Idle.id = 0 /\ Idle.n = 0 /\ Idle.todo = {}
BY NoMap DEF Idle, IsJob, Maps

LEMMA InvInit == Init => IndexInv
<1> SUFFICES ASSUME Init PROVE IndexInv
  OBVIOUS
<1>1. Tables
  <2>1. Maps(dir, Versions)
    BY IndexAssumption DEF Init, Maps
  <2>2. Maps(files, File) /\ DOMAIN files = {}
    BY NoMap DEF Init, Maps
  <2> QED BY <2>1, <2>2, IndexAssumption DEF Init, Tables
<1>2. DOMAIN job = Jobs /\ \A j \in Jobs : job[j] = Idle
  BY DEF Init
<1>3. \A j \in Jobs : IsJob(job[j]) /\ JobOK(j)
  BY <1>2, IdleTyped DEF JobOK
<1>4. \A p \in DOMAIN files : FileOK(p)
  BY NoMap DEF Init
<1>5. \A d, t : ~Drawn(d, t)
  BY <1>2, IdleTyped DEF Init, Drawn
<1> QED BY <1>1, <1>2, <1>3, <1>4, <1>5 DEF IndexInv, OneText, EmbeddingMatches, Init

---------------------------------------------------------------------------
(* What most steps leave alone *)

\* Nothing has drawn a fresh id.
LEMMA FreshFacts ==
  ASSUME NEW k, Fresh(k)
  PROVE  /\ k \in Keys /\ k \notin Stored /\ k \notin torn
         /\ \A c \in chunks : c.draw # k /\ c.file # k
         /\ \A e \in Sweepers : \A c \in sweep[e] : c.draw # k
         /\ \A j \in Jobs : job[j].prev # k /\ job[j].id # k /\ job[j].draw # k
<1>1. k \in Keys /\ k \notin InUse
  BY DEF Fresh
<1>2. \A c \in chunks \cup (UNION {sweep[e] : e \in Sweepers}) : c.draw \in InUse /\ c.file \in InUse
  BY DEF InUse
<1>3. \A j \in Jobs : job[j].prev \in InUse /\ job[j].id \in InUse /\ job[j].draw \in InUse
  BY DEF InUse
<1>4. Stored \subseteq InUse /\ torn \subseteq InUse
  BY DEF InUse
<1>5. \A e \in Sweepers : \A c \in sweep[e] : c.draw \in InUse
  BY <1>2
<1> QED BY <1>1, <1>2, <1>3, <1>4, <1>5

\* The chunks of a file may get embeddings, and nothing else.
Alike(id) ==
  /\ \A c \in chunks : c.file = id => \E d \in chunks' : d.file = id /\ d.seq = c.seq /\ d.text = c.text
  /\ \A d \in chunks' : d.file = id => \E c \in chunks : c.file = id /\ c.seq = d.seq /\ c.text = d.text

LEMMA HeldKeeps ==
  ASSUME NEW id, NEW t, NEW n, Alike(id), Held(id, t, n)
  PROVE  Held(id, t, n)'
BY DEF Alike, Held

\* What j does to the file id stays as it is.
SameAt(j, id) ==
  /\ AtWork(j, id)' <=> AtWork(j, id)
  /\ AtWork(j, id) => job'[j].pc = job[j].pc /\ job'[j].ver = job[j].ver /\ job'[j].n = job[j].n

LEMMA SoundKeeps ==
  ASSUME NEW id, NEW t, Sound(id, t), id \in torn => id \in torn', Alike(id), \A j \in Jobs : SameAt(j, id)
  PROVE  Sound(id, t)'
<1>1. \A n : Held(id, t, n) => Held(id, t, n)'
  BY HeldKeeps
<1> QED BY <1>1 DEF Sound, SameAt

LEMMA FileKeeps ==
  ASSUME NEW p, FileOK(p), files'[p].id = files[p].id, files'[p].sum = files[p].sum,
         files[p].id \in torn => files[p].id \in torn', Alike(files[p].id), \A j \in Jobs : SameAt(j, files[p].id)
  PROVE  FileOK(p)'
BY SoundKeeps DEF FileOK

\* A draw stays with its text when nothing is drawn, and when the draw is fresh.
LEMMA DrawsKept ==
  ASSUME OneText, \A d, t : Drawn(d, t)' => Drawn(d, t)
  PROVE  OneText'
BY DEF OneText

LEMMA DrawsFresh ==
  ASSUME OneText, NEW k, NEW u, Fresh(k), \A d, t : Drawn(d, t)' => Drawn(d, t) \/ (d = k /\ t = u)
  PROVE  OneText'
<1>1. \A t : ~Drawn(k, t)
  BY FreshFacts DEF Drawn
<1> QED BY <1>1 DEF OneText

\* The part of a process that files and chunks depend on.
SameWork(j) ==
  \/ job[j].pc \notin {"clear", "chunk"} /\ job'[j].pc \notin {"clear", "chunk"}
  \/ /\ job'[j].pc = job[j].pc /\ job'[j].id = job[j].id /\ job'[j].ver = job[j].ver
     /\ job'[j].n = job[j].n /\ job'[j].draw = job[j].draw

LEMMA WorkAt == ASSUME NEW j, NEW id, SameWork(j) PROVE SameAt(j, id)
BY DEF SameWork, SameAt, AtWork

\* A step of processes that are not at work on a file.
LEMMA QuietStep ==
  ASSUME IndexInv, UNCHANGED <<files, chunks, sweep, torn>>, Maps(dir', Versions), calls' \in 0 .. MaxCalls,
         \A j \in Jobs : SameWork(j), DOMAIN job' = Jobs, \A j \in Jobs : IsJob(job'[j]) /\ JobOK(j)'
  PROVE  IndexInv'
<1>1. Tables'
  BY DEF IndexInv, Tables, Stored
<1>2. \A id : Alike(id)
  BY DEF Alike
<1>3. ASSUME NEW p \in DOMAIN files' PROVE FileOK(p)'
  BY <1>2, <1>3, FileKeeps, WorkAt DEF IndexInv
<1>4. \A d, t : Drawn(d, t)' => Drawn(d, t)
  BY DEF Drawn, SameWork
<1>5. OneText'
  BY <1>4, DrawsKept DEF IndexInv
<1>6. EmbeddingMatches'
  BY DEF IndexInv, EmbeddingMatches
<1> QED BY <1>1, <1>3, <1>5, <1>6 DEF IndexInv

---------------------------------------------------------------------------
(* Steps of processes that are not at work on a file *)

LEMMA JobFacts ==
  ASSUME IndexInv, NEW j \in Jobs
  PROVE  /\ IsJob(job[j]) /\ JobOK(j) /\ DOMAIN job = Jobs
         /\ job[j].pc \notin {"clear", "chunk"} => job[j].id = 0 /\ job[j].n = 0
BY DEF IndexInv, JobOK

\* j puts down the file it has in hand.
PutsDown(j) ==
  /\ DOMAIN job' = Jobs /\ \A k \in Jobs \ {j} : job'[k] = job[k]
  /\ IsJob(job'[j]) /\ job'[j].pc \notin {"store", "clear", "chunk"} /\ job'[j].id = 0 /\ job'[j].n = 0
  /\ j \in Uploaders => job'[j].todo \subseteq DOMAIN Corpus[j]

LEMMA PutDownOK ==
  ASSUME IndexInv, NEW j \in Jobs, PutsDown(j)
  PROVE  DOMAIN job' = Jobs /\ \A k \in Jobs : IsJob(job'[k]) /\ JobOK(k)'
BY DEF IndexInv, PutsDown, JobOK

LEMMA NextFileTyped ==
  ASSUME NEW j, IsJob(job[j])
  PROVE  /\ IsJob(NextFile(j)) /\ NextFile(j).pc = "file" /\ NextFile(j).id = 0 /\ NextFile(j).n = 0
         /\ NextFile(j).todo \subseteq job[j].todo
         /\ LET r == [NextFile(j) EXCEPT !.todo = job[j].todo]
            IN IsJob(r) /\ r.pc = "file" /\ r.id = 0 /\ r.n = 0 /\ r.todo = job[j].todo
BY DEF NextFile, IsJob

LEMMA ThrowsPutsDown ==
  ASSUME IndexInv, NEW j \in Jobs, Throws(j)
  PROVE  PutsDown(j)
<1>1. IsJob(job[j]) /\ DOMAIN job = Jobs /\ (j \in Uploaders => job[j].todo \subseteq DOMAIN Corpus[j])
  BY JobFacts DEF JobOK
<1>2. CASE job' = [job EXCEPT ![j] = Idle]
  BY <1>1, <1>2, IdleTyped DEF PutsDown
<1>3. CASE job' = [job EXCEPT ![j] = NextFile(j)]
  BY <1>1, <1>3, NextFileTyped DEF PutsDown
<1>4. CASE job' = [job EXCEPT ![j] = [NextFile(j) EXCEPT !.todo = job[j].todo]]
  BY <1>1, <1>4, NextFileTyped DEF PutsDown
<1> QED BY <1>2, <1>3, <1>4 DEF Throws

\* A process at a place between two files goes to another such place, or gives up.
LEMMA Unemployed ==
  ASSUME IndexInv, NEW j \in Jobs, PutsDown(j), job[j].pc \notin {"clear", "chunk"},
         UNCHANGED <<dir, files, chunks, sweep, torn>>, calls' \in 0 .. MaxCalls
  PROVE  IndexInv'
<1>1. DOMAIN job' = Jobs /\ \A k \in Jobs : IsJob(job'[k]) /\ JobOK(k)'
  BY PutDownOK
<1>2. \A k \in Jobs : SameWork(k)
  BY DEF PutsDown, SameWork
<1>3. Maps(dir', Versions)
  BY DEF IndexInv, Tables
<1> QED BY <1>1, <1>2, <1>3, QuietStep

LEMMA CallTyped == ASSUME IndexInv, Call PROVE calls' \in 0 .. MaxCalls
BY IndexAssumption DEF IndexInv, Tables, Call

LEMMA SameCalls == ASSUME IndexInv, calls' = calls PROVE calls' \in 0 .. MaxCalls
BY DEF IndexInv, Tables

LEMMA BeginKeeps == ASSUME IndexInv, NEW i \in Jobs, BeginIndex(i) PROVE IndexInv'
<1> DEFINE e == [p \in Indexed |-> files[p].id]
<1>1. Maps(e, Keys)
  BY FileTyped DEF Indexed, Maps, IndexInv
<1>2. IsJob(Idle) /\ DOMAIN job = Jobs
  BY IdleTyped DEF IndexInv
<1>3. job' = [job EXCEPT ![i] = [Idle EXCEPT !.pc = "list", !.calm = Mirror, !.existing = e]]
  BY DEF BeginIndex
<1> HIDE DEF e
<1>4. IsJob([Idle EXCEPT !.pc = "list", !.calm = Mirror, !.existing = e])
  BY <1>1, <1>2, IndexAssumption DEF IsJob
<1>5. LET r == [Idle EXCEPT !.pc = "list", !.calm = Mirror, !.existing = e]
      IN r.pc = "list" /\ r.id = 0 /\ r.n = 0 /\ r.todo = {}
  BY <1>2, IdleTyped DEF IsJob
<1>7. PutsDown(i)
  BY <1>2, <1>3, <1>4, <1>5 DEF PutsDown
<1> QED BY <1>7, Unemployed, CallTyped DEF BeginIndex

LEMMA WalkKeeps == ASSUME IndexInv, NEW i \in Jobs, Walk(i) PROVE IndexInv'
<1>1. DOMAIN dir \subseteq Paths
  BY DEF IndexInv, Tables, Maps
<1>2. i \notin Uploaders
  BY IndexAssumption DEF Walk
<1>3. PutsDown(i)
  <2>1. /\ IsJob(job[i]) /\ DOMAIN job = Jobs /\ job[i].id = 0 /\ job[i].n = 0
        /\ job' = [job EXCEPT ![i].pc = "file", ![i].todo = DOMAIN dir, ![i].seen = DOMAIN dir]
    BY JobFacts DEF Walk
  <2>2. job'[i] = [job[i] EXCEPT !.pc = "file", !.todo = DOMAIN dir, !.seen = DOMAIN dir]
    BY <2>1
  <2>3. IsJob(job'[i]) /\ job'[i].pc = "file" /\ job'[i].id = 0 /\ job'[i].n = 0
    BY <1>1, <2>1, <2>2 DEF IsJob
  <2> QED BY <1>2, <2>1, <2>3 DEF PutsDown
<1> QED BY <1>3, Unemployed, SameCalls DEF Walk

LEMMA EndsKeep == ASSUME IndexInv, NEW j \in Jobs, FileGone(j) \/ EndIndex(j) \/ EndUpload(j) PROVE IndexInv'
<1>1. PutsDown(j)
  BY IdleTyped, JobFacts DEF PutsDown, FileGone, EndIndex, EndUpload
<1> QED BY <1>1, Unemployed, SameCalls DEF FileGone, EndIndex, EndUpload

LEMMA PlanKeeps == ASSUME IndexInv, NEW u \in Uploaders, Plan(u) PROVE IndexInv'
<1>1. ToTransfer(u) \subseteq Paths /\ ToTransfer(u) \subseteq DOMAIN Corpus[u] /\ u \in Jobs
  BY IndexAssumption DEF ToTransfer, Maps, Jobs
<1>2. IsJob(Idle) /\ DOMAIN job = Jobs
  BY IdleTyped DEF IndexInv
<1>3. PutsDown(u)
  BY <1>1, <1>2, IdleTyped DEF PutsDown, IsJob, Idle, Plan
<1> QED BY <1>1, <1>3, Unemployed, CallTyped DEF Plan

LEMMA SelectKeeps == ASSUME IndexInv, NEW j \in Jobs, Select(j) PROVE IndexInv'
<1>1. /\ UNCHANGED <<dir, files, chunks, sweep, torn, calls>> /\ job[j].pc = "file"
      /\ IsJob(job[j]) /\ DOMAIN job = Jobs /\ job[j].id = 0 /\ job[j].n = 0
      /\ j \in Uploaders => job[j].todo \subseteq DOMAIN Corpus[j]
  BY JobFacts DEF Select, JobOK
<1>2. CASE job' = [job EXCEPT ![j] = Idle] \/ \E p : job' = [job EXCEPT ![j].todo = @ \ {p}]
  <2>1. PutsDown(j)
    BY <1>1, <1>2, IdleTyped DEF PutsDown, IsJob
  <2> QED BY <1>1, <2>1, Unemployed, SameCalls
<1>3. ASSUME NEW p \in job[j].todo, NEW v, v = Bytes(j, p), j \in Indexers => p \in DOMAIN dir,
             job' = [job EXCEPT ![j] = [[job[j] EXCEPT !.path = p] EXCEPT
                       !.pc = "store", !.ver = v, !.prev = IF p \in DOMAIN files THEN files[p].id ELSE 0]]
      PROVE  IndexInv'
  <2>1. v \in Versions
    BY <1>1, <1>3, IndexAssumption DEF Bytes, Maps, IndexInv, Tables, Jobs
  <2>2. p \in Paths /\ (p \in DOMAIN files => files[p].id \in Keys)
    BY <1>1, FileTyped DEF IsJob, IndexInv
  <2>3. IsJob(job'[j]) /\ job'[j].pc = "store" /\ job'[j].ver \in Versions /\ job'[j].path \in Paths
        /\ job'[j].id = 0 /\ job'[j].n = 0 /\ job'[j].todo = job[j].todo
    BY <1>1, <1>3, <2>1, <2>2 DEF IsJob
  <2>4. DOMAIN job' = Jobs /\ \A k \in Jobs \ {j} : job'[k] = job[k]
    BY <1>1, <1>3
  <2>5. \A k \in Jobs : IsJob(job'[k]) /\ JobOK(k)'
    BY <1>1, <2>3, <2>4 DEF IndexInv, JobOK
  <2>6. \A k \in Jobs : SameWork(k)
    BY <1>1, <2>3, <2>4 DEF SameWork
  <2> QED BY <1>1, <2>4, <2>5, <2>6, QuietStep, SameCalls DEF IndexInv, Tables
<1> QED BY <1>2, <1>3 DEF Select

LEMMA CalmTyped ==
  ASSUME NEW r, IsJob(r), NEW p
  PROVE  LET q == [r EXCEPT !.calm = @ \ {p}]
         IN /\ IsJob(q) /\ q.pc = r.pc /\ q.id = r.id /\ q.ver = r.ver /\ q.n = r.n /\ q.draw = r.draw
            /\ q.path = r.path /\ q.prev = r.prev /\ q.todo = r.todo
BY DEF IsJob

\* Somebody else has touched a path.
LEMMA CalmJobs ==
  ASSUME IndexInv, NEW p, job' = [j \in Jobs |-> [job[j] EXCEPT !.calm = @ \ {p}]]
  PROVE  DOMAIN job' = Jobs /\ \A j \in Jobs : IsJob(job'[j]) /\ JobOK(j)' /\ SameWork(j)
<1>1. DOMAIN job' = Jobs
  OBVIOUS
<1>2. ASSUME NEW j \in Jobs PROVE IsJob(job'[j]) /\ JobOK(j)' /\ SameWork(j)
  <2>1. IsJob(job[j]) /\ JobOK(j)
    BY DEF IndexInv
  <2>2. job'[j] = [job[j] EXCEPT !.calm = @ \ {p}]
    OBVIOUS
  <2>3. /\ IsJob(job'[j]) /\ job'[j].pc = job[j].pc /\ job'[j].id = job[j].id /\ job'[j].ver = job[j].ver
        /\ job'[j].n = job[j].n /\ job'[j].draw = job[j].draw /\ job'[j].path = job[j].path /\ job'[j].todo = job[j].todo
    <3>1. LET q == [job[j] EXCEPT !.calm = @ \ {p}]
          IN /\ IsJob(q) /\ q.pc = job[j].pc /\ q.id = job[j].id /\ q.ver = job[j].ver /\ q.n = job[j].n
             /\ q.draw = job[j].draw /\ q.path = job[j].path /\ q.todo = job[j].todo
      BY <2>1, CalmTyped
    <3> QED BY <2>2, <3>1
  <2> QED BY <2>1, <2>3 DEF JobOK, SameWork
<1> QED BY <1>1, <1>2

LEMMA EditKeeps == ASSUME IndexInv, NEW p \in Mirror, Edit(p) PROVE IndexInv'
<1>1. Maps(dir, Versions) /\ p \in Paths
  BY IndexAssumption DEF IndexInv, Tables
<1>2. Maps(dir', Versions)
  <2>1. CASE \E v \in Versions : dir' = [q \in DOMAIN dir \cup {p} |-> IF q = p THEN v ELSE dir[q]]
    BY <1>1, <2>1 DEF Maps
  <2>2. CASE dir' = Restrict(dir, DOMAIN dir \ {p})
    BY <1>1, <2>2 DEF Maps, Restrict
  <2> QED BY <2>1, <2>2 DEF Edit
<1>3. calls' \in 0 .. MaxCalls
  BY CallTyped DEF Edit
<1>4. DOMAIN job' = Jobs /\ \A j \in Jobs : IsJob(job'[j]) /\ JobOK(j)' /\ SameWork(j)
  BY CalmJobs DEF Edit
<1> QED BY <1>2, <1>3, <1>4, QuietStep DEF Edit

---------------------------------------------------------------------------
(* Rows that go *)

LEMMA EraseKeeps ==
  ASSUME IndexInv, NEW id, Erase(id), UNCHANGED <<dir, sweep>>, calls' \in 0 .. MaxCalls,
         DOMAIN job' = Jobs, \A j \in Jobs : IsJob(job'[j]) /\ JobOK(j)' /\ SameWork(j)
  PROVE  IndexInv'
<1>1. /\ files' = [q \in {p \in DOMAIN files : files[p].id # id} |-> files[q]]
      /\ chunks' = chunks \ ChunksOf(id) /\ torn' = torn \ {id}
  BY DEF Erase
<1>2. \A q : q \in DOMAIN files' <=> q \in DOMAIN files /\ files[q].id # id
  BY <1>1
<1>3. \A q \in DOMAIN files' : files'[q] = files[q]
  BY <1>1
<1>4. Maps(files', File)
  BY <1>1, <1>2, <1>3 DEF IndexInv, Tables, Maps
<1>5. chunks' \subseteq chunks /\ \A c \in chunks : c.file # id => c \in chunks'
  BY <1>1 DEF ChunksOf
<1>6. \A c \in chunks' : c \in chunks /\ c.file # id
  BY <1>1 DEF ChunksOf
<1>7. \A c \in chunks' : c.file \in Stored'
  BY <1>2, <1>3, <1>6 DEF IndexInv, Tables, Stored
<1>8. Tables'
  BY <1>1, <1>2, <1>3, <1>4, <1>5, <1>7 DEF IndexInv, Tables
<1>9. ASSUME NEW p \in DOMAIN files' PROVE FileOK(p)'
  <2>1. p \in DOMAIN files /\ files[p].id # id /\ files'[p] = files[p] /\ FileOK(p)
    BY <1>2, <1>3 DEF IndexInv
  <2>2. Alike(files[p].id)
    BY <1>5, <2>1 DEF Alike
  <2>3. \A j \in Jobs : SameAt(j, files[p].id)
    BY WorkAt
  <2>4. files[p].id \in torn => files[p].id \in torn'
    BY <1>1, <2>1
  <2> QED BY <2>1, <2>2, <2>3, <2>4, FileKeeps
<1>10. \A d, t : Drawn(d, t)' => Drawn(d, t)
  BY <1>5 DEF Drawn, SameWork
<1>11. OneText'
  BY <1>10, DrawsKept DEF IndexInv
<1>12. EmbeddingMatches'
  BY <1>5 DEF IndexInv, EmbeddingMatches
<1> QED BY <1>8, <1>9, <1>11, <1>12 DEF IndexInv

LEMMA DeleteKeeps == ASSUME IndexInv, NEW p \in Paths, Delete(p) PROVE IndexInv'
<1>1. DOMAIN job' = Jobs /\ \A j \in Jobs : IsJob(job'[j]) /\ JobOK(j)' /\ SameWork(j)
  BY CalmJobs DEF Delete
<1>2. calls' \in 0 .. MaxCalls
  BY CallTyped DEF Delete
<1> QED BY <1>1, <1>2, EraseKeeps DEF Delete

LEMMA DisturbFacts ==
  ASSUME IndexInv, NEW p, NEW j \in Jobs
  PROVE  /\ DOMAIN Disturb(p, j) = Jobs /\ Disturb(p, j)[j] = job[j]
         /\ \A k \in Jobs \ {j} :
              LET q == Disturb(p, j)[k]
              IN /\ IsJob(q) /\ q.pc = job[k].pc /\ q.id = job[k].id /\ q.ver = job[k].ver /\ q.n = job[k].n
                 /\ q.draw = job[k].draw /\ q.path = job[k].path /\ q.todo = job[k].todo
<1>1. DOMAIN Disturb(p, j) = Jobs /\ Disturb(p, j)[j] = job[j]
  BY DEF Disturb
<1>2. ASSUME NEW k \in Jobs \ {j}
      PROVE  LET q == Disturb(p, j)[k]
             IN /\ IsJob(q) /\ q.pc = job[k].pc /\ q.id = job[k].id /\ q.ver = job[k].ver /\ q.n = job[k].n
                /\ q.draw = job[k].draw /\ q.path = job[k].path /\ q.todo = job[k].todo
  <2>1. Disturb(p, j)[k] = [job[k] EXCEPT !.calm = @ \ {p}] /\ IsJob(job[k])
    BY DEF Disturb, IndexInv
  <2> QED BY <2>1, CalmTyped
<1> QED BY <1>1, <1>2

\* The others keep what they have in hand, and only their calm paths change.
OthersSame(j) ==
  /\ DOMAIN job' = Jobs
  /\ \A k \in Jobs \ {j} :
       /\ IsJob(job'[k]) /\ job'[k].pc = job[k].pc /\ job'[k].id = job[k].id /\ job'[k].ver = job[k].ver
       /\ job'[k].n = job[k].n /\ job'[k].draw = job[k].draw /\ job'[k].path = job[k].path /\ job'[k].todo = job[k].todo

LEMMA OthersOK ==
  ASSUME IndexInv, NEW j \in Jobs, OthersSame(j)
  PROVE  \A k \in Jobs \ {j} : IsJob(job'[k]) /\ JobOK(k)' /\ SameWork(k)
BY DEF IndexInv, OthersSame, JobOK, SameWork

LEMMA DisturbStep ==
  ASSUME IndexInv, NEW p, NEW j \in Jobs, NEW r, DOMAIN job' = Jobs, job'[j] = r,
         \A k \in Jobs \ {j} : job'[k] = Disturb(p, j)[k]
  PROVE  OthersSame(j) /\ job'[j] = r
<1>1. PICK D : D = Disturb(p, j)
  OBVIOUS
<1>2. \A k \in Jobs \ {j} :
        /\ IsJob(D[k]) /\ D[k].pc = job[k].pc /\ D[k].id = job[k].id /\ D[k].ver = job[k].ver /\ D[k].n = job[k].n
        /\ D[k].draw = job[k].draw /\ D[k].path = job[k].path /\ D[k].todo = job[k].todo
  BY <1>1, DisturbFacts
<1> QED BY <1>1, <1>2 DEF OthersSame

LEMMA PruneKeeps == ASSUME IndexInv, NEW i \in Jobs, Prune(i) PROVE IndexInv'
<1>1. PICK p \in DOMAIN job[i].existing :
        /\ Erase(job[i].existing[p])
        /\ job' = [Disturb(p, i) EXCEPT ![i].existing = Restrict(@, DOMAIN @ \ {p})]
  BY DEF Prune
<1>2. /\ i \in Indexers /\ job[i].pc = "file" /\ UNCHANGED <<dir, sweep, calls>> /\ i \notin Uploaders
      /\ IsJob(job[i]) /\ JobOK(i) /\ DOMAIN job = Jobs
  BY JobFacts, IndexAssumption DEF Prune
<1>3. OthersSame(i)
  BY <1>1, DisturbFacts DEF OthersSame
<1>4. job'[i] = [job[i] EXCEPT !.existing = Restrict(@, DOMAIN @ \ {p})]
  BY <1>1, DisturbFacts
<1>5. Maps(Restrict(job[i].existing, DOMAIN job[i].existing \ {p}), Keys)
  BY <1>2 DEF IsJob, Maps, Restrict
<1>6. /\ IsJob(job'[i]) /\ job'[i].pc = "file" /\ job'[i].id = job[i].id /\ job'[i].n = job[i].n
  BY <1>2, <1>4, <1>5 DEF IsJob
<1>7. JobOK(i)' /\ SameWork(i)
  BY <1>2, <1>6 DEF JobOK, SameWork
<1>8. DOMAIN job' = Jobs /\ \A k \in Jobs : IsJob(job'[k]) /\ JobOK(k)' /\ SameWork(k)
  BY <1>3, <1>6, <1>7, OthersOK DEF OthersSame
<1> QED BY <1>1, <1>2, <1>8, EraseKeeps, SameCalls

---------------------------------------------------------------------------
(* Embeddings *)

\* The chunks of a table get embeddings, of their own text or none.
Recast ==
  /\ \A c \in chunks : \E d \in chunks' : d.draw = c.draw /\ d.file = c.file /\ d.seq = c.seq /\ d.text = c.text
  /\ \A d \in chunks' : d \in Chunk /\ d.emb \in {<<>>, <<d.text, d.seq>>}
  /\ \A d \in chunks' : \E c \in chunks : d.draw = c.draw /\ d.file = c.file /\ d.seq = c.seq /\ d.text = c.text
  /\ \A c, d \in chunks' : c.file = d.file /\ c.seq = d.seq => c = d

LEMMA RecastSame == ASSUME IndexInv, chunks' = chunks PROVE Recast
BY DEF IndexInv, Tables, EmbeddingMatches, Recast

LEMMA RecastBy ==
  ASSUME IndexInv, NEW F, \A c \in chunks : F[c] \in Chunk, chunks' = {F[c] : c \in chunks},
         \A c \in chunks : /\ F[c].draw = c.draw /\ F[c].file = c.file /\ F[c].seq = c.seq /\ F[c].text = c.text
                           /\ F[c].emb \in {<<>>, <<c.text, c.seq>>}
  PROVE  Recast
<1>1. \A d \in chunks' : \E c \in chunks : d = F[c]
  OBVIOUS
<1>2. \A c \in chunks : F[c] \in chunks'
  OBVIOUS
<1>3. \A c, d \in chunks' : c.file = d.file /\ c.seq = d.seq => c = d
  <2> SUFFICES ASSUME NEW c \in chunks', NEW d \in chunks', c.file = d.file, c.seq = d.seq PROVE c = d
    OBVIOUS
  <2>1. PICK b \in chunks, e \in chunks : c = F[b] /\ d = F[e]
    BY <1>1
  <2>2. b = e
    BY <2>1 DEF IndexInv, Tables
  <2> QED BY <2>1, <2>2
<1> QED BY <1>1, <1>2, <1>3 DEF Recast

LEMMA RecastFacts ==
  ASSUME IndexInv, Recast, files' = files
  PROVE  /\ chunks' \subseteq Chunk /\ \A c \in chunks' : c.file \in Stored'
         /\ \A id : Alike(id)
         /\ EmbeddingMatches'
         /\ \A d \in chunks' : \E c \in chunks : c.draw = d.draw /\ c.text = d.text
         /\ \A c, d \in chunks' : c.file = d.file /\ c.seq = d.seq => c = d
<1>1. \A d \in chunks' : \E c \in chunks : d.draw = c.draw /\ d.file = c.file /\ d.seq = c.seq /\ d.text = c.text
  BY DEF Recast
<1>2. \A c \in chunks' : c.file \in Stored'
  BY <1>1 DEF IndexInv, Tables, Stored
<1>3. \A id : Alike(id)
  BY DEF Recast, Alike
<1>4. EmbeddingMatches'
  BY DEF Recast, EmbeddingMatches
<1> QED BY <1>1, <1>2, <1>3, <1>4 DEF Recast

\* An ingest puts down its file when the file is whole, torn or gone.
LEMMA LeaveKeeps ==
  ASSUME IndexInv, NEW j \in Jobs, PutsDown(j), Recast, UNCHANGED <<dir, files, sweep, calls>>,
         torn \subseteq torn', torn' \subseteq Keys,
         \A id \in Keys, t \in Texts :
           AtWork(j, id) /\ Sound(id, t) /\ id \in Stored /\ id \notin torn' => Held(id, t, Size[t])
  PROVE  IndexInv'
<1>1. DOMAIN job' = Jobs /\ \A k \in Jobs : IsJob(job'[k]) /\ JobOK(k)'
  BY PutDownOK
<1>2. /\ chunks' \subseteq Chunk /\ \A c \in chunks' : c.file \in Stored'
      /\ \A id : Alike(id)
      /\ EmbeddingMatches'
      /\ \A d \in chunks' : \E c \in chunks : c.draw = d.draw /\ c.text = d.text
      /\ \A c, d \in chunks' : c.file = d.file /\ c.seq = d.seq => c = d
  BY RecastFacts
<1>3. Tables'
  BY <1>2 DEF IndexInv, Tables
<1>4. /\ \A id \in Keys : ~AtWork(j, id)'
      /\ \A k \in Jobs \ {j}, id \in Keys : SameAt(k, id)
  BY DEF PutsDown, AtWork, SameAt
<1>5. ASSUME NEW p \in DOMAIN files' PROVE FileOK(p)'
  <2> SUFFICES ASSUME NEW id \in Keys, NEW t \in Texts, id = files'[p].id, t = files'[p].sum
               PROVE  Sound(id, t)'
    BY DEF FileOK
  <2>1. p \in DOMAIN files /\ id = files[p].id /\ t = files[p].sum /\ id \in Stored
    BY DEF Stored
  <2>2. Sound(id, t)
    BY <2>1 DEF IndexInv, FileOK
  <2>3. CASE ~AtWork(j, id)
    <3>1. \A k \in Jobs : SameAt(k, id)
      BY <1>4, <2>3 DEF SameAt
    <3> QED BY <1>2, <2>2, <3>1, SoundKeeps
  <2>4. CASE AtWork(j, id) /\ id \notin torn'
    <3>1. Held(id, t, Size[t])'
      BY <1>2, <2>1, <2>2, <2>4, HeldKeeps
    <3>2. \A k \in Jobs : ~AtWork(k, id)'
      <4>1. \A k \in Jobs : AtWork(k, id) => k = j
        BY <2>2, <2>4 DEF Sound
      <4> QED BY <1>4, <4>1 DEF SameAt
    <3> QED BY <3>1, <3>2 DEF Sound
  <2>5. CASE id \in torn'
    BY <2>5 DEF Sound
  <2> QED BY <2>3, <2>4, <2>5
<1>6. \A d, t : Drawn(d, t)' => Drawn(d, t)
  BY <1>2 DEF Drawn, PutsDown
<1>7. OneText'
  BY <1>6, DrawsKept DEF IndexInv
<1> QED BY <1>1, <1>2, <1>3, <1>5, <1>7 DEF IndexInv

LEMMA BreakKeeps == ASSUME IndexInv, NEW j \in Jobs, Break(j) PROVE IndexInv'
<1>1. /\ PutsDown(j) /\ UNCHANGED <<dir, files, chunks, sweep, calls>> /\ IsJob(job[j]) /\ JobOK(j)
      /\ torn' = IF /\ job[j].id \in Stored
                    /\ job[j].pc = "clear" \/ job[j].n < Size[Text[job[j].ver]]
                 THEN torn \cup {job[j].id} ELSE torn
  BY ThrowsPutsDown, JobFacts DEF Break
<1>2. torn \subseteq torn' /\ torn' \subseteq Keys
  <2>1. job[j].id \in Stored => job[j].id \in Keys
    BY FileTyped DEF Stored, IndexInv
  <2> QED BY <1>1, <2>1 DEF IndexInv, Tables
<1>3. ASSUME NEW id \in Keys, NEW t \in Texts, AtWork(j, id), Sound(id, t), id \in Stored, id \notin torn'
      PROVE  Held(id, t, Size[t])
  <2>1. id = job[j].id /\ id \notin torn /\ job[j].pc = "chunk" /\ ~(job[j].n < Size[Text[job[j].ver]])
    BY <1>1, <1>3 DEF AtWork
  <2>2. t = Text[job[j].ver]
    BY <1>3, <2>1 DEF Sound
  <2>3. job[j].n = Size[t] /\ Size[t] \in Nat
    BY <1>1, <2>1, <2>2, IndexAssumption DEF IsJob, JobOK
  <2> QED BY <1>3, <2>1, <2>3 DEF Sound
<1> QED BY <1>1, <1>2, <1>3, LeaveKeeps, RecastSame

\* What an ingest at work inserts is typed, and drawn.
LEMMA WorkTyped ==
  ASSUME IndexInv, NEW j \in Jobs, job[j].pc \in {"clear", "chunk"}
  PROVE  /\ job[j].ver \in Versions /\ Text[job[j].ver] \in Texts /\ Size[Text[job[j].ver]] \in Nat
         /\ job[j].id \in Keys /\ job[j].draw \in Keys /\ job[j].n \in Nat /\ job[j].path \in Paths
         /\ AtWork(j, job[j].id) /\ Drawn(job[j].draw, Text[job[j].ver])
<1>1. IsJob(job[j]) /\ JobOK(j)
  BY JobFacts
<1> QED BY <1>1, IndexAssumption DEF IsJob, JobOK, AtWork, Drawn

LEMMA EmbedKeeps == ASSUME IndexInv, NEW j \in Jobs, Embed(j) PROVE IndexInv'
<1> DEFINE t == Text[job[j].ver]
           F == [c \in chunks |-> IF c.draw = job[j].draw THEN [c EXCEPT !.emb = <<t, c.seq>>] ELSE c]
<1>1. /\ job[j].pc = "chunk" /\ job[j].n = Size[t] /\ UNCHANGED <<dir, files, sweep, torn, calls>>
      /\ IsJob(job[j]) /\ JobOK(j) /\ DOMAIN job = Jobs
  BY JobFacts DEF Embed
<1>2. /\ t \in Texts /\ Drawn(job[j].draw, t) /\ torn \subseteq Keys
  BY <1>1, WorkTyped DEF IndexInv, Tables
<1>3. PutsDown(j)
  <2>1. ASSUME job' = [job EXCEPT ![j] = NextFile(j)] PROVE PutsDown(j)
    BY <1>1, <2>1, NextFileTyped DEF PutsDown, JobOK
  <2> QED BY <2>1, ThrowsPutsDown DEF Embed
<1>4. Recast
  <2>1. CASE chunks' = {IF c.draw = job[j].draw THEN [c EXCEPT !.emb = <<t, c.seq>>] ELSE c : c \in chunks}
    <3>1. chunks' = {F[c] : c \in chunks}
      BY <2>1
    <3>2. ASSUME NEW c \in chunks
          PROVE  /\ F[c] \in Chunk /\ F[c].draw = c.draw /\ F[c].file = c.file /\ F[c].seq = c.seq /\ F[c].text = c.text
                 /\ F[c].emb \in {<<>>, <<c.text, c.seq>>}
      <4>1. c \in Chunk /\ c.emb \in {<<>>, <<c.text, c.seq>>}
        BY DEF IndexInv, Tables, EmbeddingMatches
      <4>2. CASE c.draw = job[j].draw
        <5>1. c.text = t
          <6>1. Drawn(c.draw, c.text)
            BY DEF Drawn
          <6> QED BY <1>2, <4>2, <6>1 DEF IndexInv, OneText
        <5>2. F[c] = [c EXCEPT !.emb = <<t, c.seq>>]
          BY <4>2
        <5>3. <<t, c.seq>> \in Contents \cup {<<>>}
          BY <1>2, <4>1, ChunkTyped DEF Contents
        <5> HIDE DEF F, t
        <5> QED BY <4>1, <5>1, <5>2, <5>3 DEF Chunk
      <4>3. CASE c.draw # job[j].draw
        BY <4>1, <4>3
      <4> QED BY <4>2, <4>3
    <3> HIDE DEF F
    <3> QED BY <3>1, <3>2, RecastBy
  <2>2. CASE chunks' = chunks
    BY <2>2, RecastSame
  <2> QED BY <2>1, <2>2 DEF Embed
<1>5. ASSUME NEW id \in Keys, NEW u \in Texts, AtWork(j, id), Sound(id, u), id \in Stored, id \notin torn'
      PROVE  Held(id, u, Size[u])
  <2>1. u = t /\ job[j].n \in Nat /\ id \notin torn
    BY <1>1, <1>5, WorkTyped DEF Sound
  <2> QED BY <1>1, <1>5, <2>1 DEF Sound
<1> HIDE DEF F, t
<1> QED BY <1>1, <1>2, <1>3, <1>4, <1>5, LeaveKeeps

LEMMA AddChunkKeeps == ASSUME IndexInv, NEW j \in Jobs, AddChunk(j) PROVE IndexInv'
<1> DEFINE t == Text[job[j].ver]
           f == job[j].id
           n == job[j].n
           new == [draw |-> job[j].draw, file |-> f, seq |-> n, text |-> t, emb |-> <<>>]
           fits == f \in Stored /\ \A c \in ChunksOf(f) : c.seq # n
<1>1. /\ job[j].pc = "chunk" /\ n < Size[t] /\ UNCHANGED <<dir, files, sweep, torn, calls>>
      /\ IsJob(job[j]) /\ JobOK(j) /\ DOMAIN job = Jobs
  BY JobFacts DEF AddChunk
<1>2. /\ t \in Texts /\ Size[t] \in Nat /\ f \in Keys /\ n \in Nat /\ job[j].draw \in Keys
      /\ AtWork(j, f) /\ Drawn(job[j].draw, t) /\ torn \subseteq Keys
  BY <1>1, WorkTyped DEF IndexInv, Tables
<1>3. CASE ~fits /\ Throws(j) /\ UNCHANGED chunks
  <2>1. ASSUME NEW id \in Keys, NEW u \in Texts, AtWork(j, id), Sound(id, u), id \in Stored, id \notin torn'
        PROVE  Held(id, u, Size[u])
    <3>1. id = f /\ id \notin torn
      BY <1>1, <2>1 DEF AtWork
    <3>2. Held(f, u, n)
      BY <1>1, <1>2, <2>1, <3>1 DEF Sound
    <3>3. PICK c \in chunks : c.file = f /\ c.seq = n
      BY <1>3, <2>1, <3>1 DEF ChunksOf
    <3> QED BY <1>2, <3>2, <3>3 DEF Held
  <2> QED BY <1>1, <1>2, <1>3, <2>1, LeaveKeeps, RecastSame, ThrowsPutsDown
<1>4. CASE fits /\ chunks' = chunks \cup {new} /\ job' = [job EXCEPT ![j].n = @ + 1]
  <2>1. /\ new \in Chunk /\ new.file = f /\ new.seq = n /\ new.text = t /\ new.draw = job[j].draw /\ new.emb = <<>>
    BY <1>2 DEF Chunk
  <2> HIDE DEF new
  <2>2. Tables'
    BY <1>1, <1>4, <2>1 DEF IndexInv, Tables, Stored, ChunksOf
  <2>3. job'[j] = [job[j] EXCEPT !.n = @ + 1] /\ DOMAIN job' = Jobs /\ \A k \in Jobs \ {j} : job'[k] = job[k]
    BY <1>1, <1>4
  <2>4. /\ IsJob(job'[j]) /\ job'[j].pc = job[j].pc /\ job'[j].id = job[j].id /\ job'[j].ver = job[j].ver
        /\ job'[j].n = n + 1 /\ job'[j].draw = job[j].draw /\ job'[j].path = job[j].path /\ job'[j].todo = job[j].todo
    BY <1>1, <1>2, <2>3 DEF IsJob
  <2> HIDE DEF t, f, n
  <2>5. \A k \in Jobs : IsJob(job'[k]) /\ JobOK(k)'
    <3>1. JobOK(j)'
      BY <1>1, <1>2, <2>4 DEF JobOK, t, n
    <3> QED BY <2>3, <2>4, <3>1 DEF IndexInv, JobOK
  <2>6. ASSUME NEW p \in DOMAIN files' PROVE FileOK(p)'
    <3> SUFFICES ASSUME NEW id \in Keys, NEW u \in Texts, id = files'[p].id, u = files'[p].sum
                 PROVE  Sound(id, u)'
      BY DEF FileOK
    <3>1. p \in DOMAIN files /\ id = files[p].id /\ u = files[p].sum
      BY <1>1
    <3>2. Sound(id, u)
      BY <3>1 DEF IndexInv, FileOK
    <3>3. CASE id # f
      <4>1. Alike(id)
        BY <1>4, <2>1, <3>3 DEF Alike
      <4>2. \A k \in Jobs : SameAt(k, id)
        BY <2>3, <2>4, <3>3 DEF SameAt, AtWork, f
      <4> QED BY <1>1, <3>2, <4>1, <4>2, SoundKeeps
    <3>4. CASE id = f /\ id \notin torn
      <4>1. /\ \A k \in Jobs : AtWork(k, id) => k = j
            /\ u = t /\ Held(id, u, n)
        BY <1>1, <1>2, <3>2, <3>4 DEF Sound, t, n
      <4>2. PICK m \in Nat : m = n
        BY <1>2
      <4>3. Held(id, u, m + 1)'
        <5>1. \A c \in chunks' : c.file = id => c.text = u /\ c.seq < m + 1
          BY <1>4, <2>1, <4>1, <4>2, ChunkTyped DEF Held, IndexInv, Tables
        <5>2. ASSUME NEW i \in Nat, i < m + 1 PROVE \E c \in chunks' : c.file = id /\ c.seq = i
          <6>1. CASE i = m
            BY <1>4, <2>1, <3>4, <4>2, <6>1
          <6>2. CASE i < m
            BY <1>4, <4>1, <4>2, <6>2 DEF Held
          <6> QED BY <4>2, <5>2, <6>1, <6>2
        <5>3. \A i \in Nat : i < m + 1 => \E c \in chunks' : c.file = id /\ c.seq = i
          BY <5>2
        <5> QED BY <5>1, <5>3 DEF Held
      <4>4. \A k \in Jobs : AtWork(k, id)' => k = j
        BY <2>3, <4>1 DEF AtWork
      <4>5. AtWork(j, id)' /\ u = Text[job'[j].ver] /\ job'[j].n = m + 1
        BY <1>2, <2>4, <3>4, <4>1, <4>2 DEF AtWork, t, f
      <4> QED BY <4>3, <4>4, <4>5 DEF Sound
    <3>5. CASE id \in torn
      BY <1>1, <3>5 DEF Sound
    <3> QED BY <3>3, <3>4, <3>5
  <2>7. \A d, u : Drawn(d, u)' => Drawn(d, u)
    BY <1>1, <1>2, <1>4, <2>1, <2>3, <2>4 DEF Drawn
  <2>8. OneText'
    BY <2>7, DrawsKept DEF IndexInv
  <2>9. EmbeddingMatches'
    BY <1>4, <2>1 DEF IndexInv, EmbeddingMatches
  <2> QED BY <2>2, <2>3, <2>5, <2>6, <2>8, <2>9 DEF IndexInv
<1> QED BY <1>3, <1>4 DEF AddChunk

LEMMA SweepStep ==
  ASSUME IndexInv, Recast, UNCHANGED <<dir, files, job, torn, calls>>, sweep' \in [Sweepers -> SUBSET Chunk],
         \A e \in Sweepers : \A c \in sweep'[e] : Drawn(c.draw, c.text)
  PROVE  IndexInv'
<1>1. /\ chunks' \subseteq Chunk /\ \A c \in chunks' : c.file \in Stored'
      /\ \A id : Alike(id)
      /\ EmbeddingMatches'
      /\ \A d \in chunks' : \E c \in chunks : c.draw = d.draw /\ c.text = d.text
      /\ \A c, d \in chunks' : c.file = d.file /\ c.seq = d.seq => c = d
  BY RecastFacts
<1>2. Tables'
  BY <1>1 DEF IndexInv, Tables
<1>3. \A j \in Jobs : IsJob(job'[j]) /\ JobOK(j)' /\ SameWork(j)
  BY DEF IndexInv, JobOK, SameWork
<1>4. ASSUME NEW p \in DOMAIN files' PROVE FileOK(p)'
  BY <1>1, <1>3, FileKeeps, WorkAt DEF IndexInv
<1>5. \A d, t : Drawn(d, t)' => Drawn(d, t)
  BY <1>1 DEF Drawn
<1>6. OneText'
  BY <1>5, DrawsKept DEF IndexInv
<1> QED BY <1>1, <1>2, <1>3, <1>4, <1>6 DEF IndexInv

LEMMA AskKeeps == ASSUME IndexInv, NEW e \in Sweepers, Ask(e) PROVE IndexInv'
<1>1. PICK S \in SUBSET Pending : sweep' = [sweep EXCEPT ![e] = S]
  BY DEF Ask
<1>2. S \subseteq chunks /\ S \subseteq Chunk
  BY DEF Pending, IndexInv, Tables
<1>3. sweep \in [Sweepers -> SUBSET Chunk]
  BY DEF IndexInv, Tables
<1>4. sweep' \in [Sweepers -> SUBSET Chunk]
  BY <1>1, <1>2, <1>3
<1>5. \A d \in Sweepers : \A c \in sweep'[d] : Drawn(c.draw, c.text)
  BY <1>1, <1>2, <1>3 DEF Drawn
<1>6. UNCHANGED <<dir, files, chunks, job, torn, calls>>
  BY DEF Ask
<1> QED BY <1>4, <1>5, <1>6, SweepStep, RecastSame

LEMMA NoAnswerKeeps == ASSUME IndexInv, NEW e \in Sweepers, NoAnswer(e) PROVE IndexInv'
<1>1. sweep \in [Sweepers -> SUBSET Chunk] /\ sweep' = [sweep EXCEPT ![e] = {}]
  BY DEF NoAnswer, IndexInv, Tables
<1>2. sweep' \in [Sweepers -> SUBSET Chunk]
  BY <1>1
<1>3. \A d \in Sweepers : \A c \in sweep'[d] : Drawn(c.draw, c.text)
  BY <1>1 DEF Drawn
<1>4. UNCHANGED <<dir, files, chunks, job, torn, calls>>
  BY DEF NoAnswer
<1> QED BY <1>2, <1>3, <1>4, SweepStep, RecastSame

LEMMA AnswerKeeps == ASSUME IndexInv, NEW e \in Sweepers, Answer(e) PROVE IndexInv'
<1> DEFINE F == [c \in chunks |->
                   IF \E b \in sweep[e] : SameId(c, b)
                   THEN [c EXCEPT !.emb = LET b == CHOOSE b \in sweep[e] : SameId(c, b) IN <<b.text, b.seq>>] ELSE c]
<1>1. /\ sweep \in [Sweepers -> SUBSET Chunk] /\ sweep' = [sweep EXCEPT ![e] = {}]
      /\ UNCHANGED <<dir, files, job, torn, calls>> /\ chunks' = {F[c] : c \in chunks}
  BY DEF Answer, IndexInv, Tables
<1>2. ASSUME NEW c \in chunks
      PROVE  /\ F[c] \in Chunk /\ F[c].draw = c.draw /\ F[c].file = c.file /\ F[c].seq = c.seq /\ F[c].text = c.text
             /\ F[c].emb \in {<<>>, <<c.text, c.seq>>}
  <2>1. c \in Chunk /\ c.emb \in {<<>>, <<c.text, c.seq>>}
    BY DEF IndexInv, Tables, EmbeddingMatches
  <2>2. CASE \E b \in sweep[e] : SameId(c, b)
    <3>1. PICK b \in sweep[e] : SameId(c, b) /\ F[c] = [c EXCEPT !.emb = <<b.text, b.seq>>]
      BY <2>2
    <3>2. b.draw = c.draw /\ b.seq = c.seq
      BY <3>1 DEF SameId
    <3>3. b.text = c.text
      <4>1. Drawn(c.draw, c.text) /\ Drawn(b.draw, b.text)
        BY DEF Drawn
      <4> QED BY <3>2, <4>1 DEF IndexInv, OneText
    <3>4. <<c.text, c.seq>> \in Contents \cup {<<>>}
      BY <2>1, ChunkTyped DEF Contents
    <3>5. F[c] = [c EXCEPT !.emb = <<c.text, c.seq>>]
      BY <3>1, <3>2, <3>3
    <3> HIDE DEF F
    <3> QED BY <2>1, <3>4, <3>5 DEF Chunk
  <2>3. CASE ~\E b \in sweep[e] : SameId(c, b)
    BY <2>1, <2>3
  <2> QED BY <2>2, <2>3
<1> HIDE DEF F
<1>3. Recast
  BY <1>1, <1>2, RecastBy
<1>4. sweep' \in [Sweepers -> SUBSET Chunk]
  BY <1>1
<1>5. \A d \in Sweepers : \A c \in sweep'[d] : Drawn(c.draw, c.text)
  BY <1>1 DEF Drawn
<1> QED BY <1>1, <1>3, <1>4, <1>5, SweepStep

---------------------------------------------------------------------------
(* Steps that write a row or clear its chunks *)

LEMMA ClearKeeps == ASSUME IndexInv, NEW j \in Jobs, Clear(j) PROVE IndexInv'
<1> DEFINE t == Text[job[j].ver]
           f == job[j].id
<1>1. /\ job[j].pc = "clear" /\ UNCHANGED <<dir, files, sweep, calls>> /\ chunks' = chunks \ ChunksOf(f)
      /\ torn' = IF Rewriting(f, j) = {} /\ \E p \in DOMAIN files : files[p].id = f /\ files[p].sum = t
                 THEN torn \ {f} ELSE torn
      /\ job' = [job EXCEPT ![j].pc = "chunk"]
      /\ IsJob(job[j]) /\ JobOK(j) /\ DOMAIN job = Jobs
  BY JobFacts DEF Clear, Derived
<1>2. t \in Texts /\ Size[t] \in Nat /\ f \in Keys /\ AtWork(j, f) /\ job[j].n = 0
  BY <1>1, WorkTyped DEF JobOK
<1>3. /\ DOMAIN job' = Jobs /\ \A k \in Jobs \ {j} : job'[k] = job[k]
      /\ job'[j] = [job[j] EXCEPT !.pc = "chunk"]
  BY <1>1
<1>4. /\ IsJob(job'[j]) /\ job'[j].pc = "chunk" /\ job'[j].id = f /\ job'[j].ver = job[j].ver
      /\ job'[j].n = 0 /\ job'[j].draw = job[j].draw /\ job'[j].path = job[j].path /\ job'[j].todo = job[j].todo
  BY <1>1, <1>2, <1>3 DEF IsJob
<1> HIDE DEF t, f
<1>5. \A k \in Jobs : IsJob(job'[k]) /\ JobOK(k)'
  <2>1. JobOK(j)'
    BY <1>1, <1>2, <1>4 DEF JobOK, t, f
  <2> QED BY <1>3, <1>4, <2>1 DEF IndexInv, JobOK
<1>6. chunks' \subseteq chunks /\ (\A c \in chunks : c.file # f => c \in chunks') /\ \A c \in chunks' : c.file # f
  BY <1>1 DEF ChunksOf
<1>7. torn' \subseteq torn /\ torn \subseteq torn' \cup {f}
  BY <1>1
<1>8. Tables'
  BY <1>1, <1>6, <1>7 DEF IndexInv, Tables, Stored
<1>9. ASSUME NEW p \in DOMAIN files' PROVE FileOK(p)'
  <2> SUFFICES ASSUME NEW id \in Keys, NEW u \in Texts, id = files'[p].id, u = files'[p].sum
               PROVE  Sound(id, u)'
    BY DEF FileOK
  <2>1. p \in DOMAIN files /\ id = files[p].id /\ u = files[p].sum
    BY <1>1
  <2>2. Sound(id, u)
    BY <2>1 DEF IndexInv, FileOK
  <2>3. CASE id # f
    <3>1. Alike(id)
      BY <1>6, <2>3 DEF Alike
    <3>2. \A k \in Jobs : SameAt(k, id)
      BY <1>3, <1>4, <2>3 DEF SameAt, AtWork, f
    <3>3. id \in torn => id \in torn'
      BY <1>7, <2>3
    <3> QED BY <2>2, <3>1, <3>2, <3>3, SoundKeeps
  <2>4. CASE id = f /\ id \notin torn'
    <3>1. (\A k \in Jobs : AtWork(k, id) => k = j) /\ u = t
      <4>1. CASE id \notin torn
        BY <1>2, <2>2, <2>4, <4>1 DEF Sound, t
      <4>2. CASE id \in torn
        <5>1. Rewriting(f, j) = {} /\ \E q \in DOMAIN files : files[q].id = f /\ files[q].sum = t
          BY <1>1, <2>4, <4>2
        <5>2. u = t
          BY <2>1, <2>4, <5>1 DEF IndexInv, Tables
        <5> QED BY <2>4, <5>1, <5>2 DEF Rewriting
      <4> QED BY <4>1, <4>2
    <3>2. Held(id, u, 0)'
      <4>1. \A i \in Nat : ~(i < 0)
        OBVIOUS
      <4> QED BY <1>6, <2>4, <4>1 DEF Held
    <3>3. \A k \in Jobs : AtWork(k, id)' => k = j
      BY <1>3, <3>1 DEF AtWork
    <3>4. AtWork(j, id)' /\ u = Text[job'[j].ver] /\ job'[j].n = 0
      BY <1>4, <2>4, <3>1 DEF AtWork, t
    <3> QED BY <3>2, <3>3, <3>4 DEF Sound
  <2>5. CASE id \in torn'
    BY <2>5 DEF Sound
  <2> QED BY <2>3, <2>4, <2>5
<1>10. \A d, u : Drawn(d, u)' => Drawn(d, u)
  BY <1>1, <1>3, <1>4, <1>6 DEF Drawn
<1>11. OneText'
  BY <1>10, DrawsKept DEF IndexInv
<1>12. EmbeddingMatches'
  BY <1>6 DEF IndexInv, EmbeddingMatches
<1> QED BY <1>3, <1>5, <1>8, <1>9, <1>11, <1>12 DEF IndexInv

LEMMA UpdateKeeps == ASSUME IndexInv, NEW j \in Jobs, StoreUpdate(j) PROVE IndexInv'
<1> DEFINE v == job[j].ver
           f == job[j].prev
<1>1. /\ job[j].pc = "store" /\ f # 0 /\ UNCHANGED <<dir, chunks, sweep, calls>>
      /\ files' = [p \in DOMAIN files |-> IF files[p].id = f
                                          THEN [files[p] EXCEPT !.sum = Text[v], !.blob = v, !.origin = Origin(j)]
                                          ELSE files[p]]
      /\ torn' = IF Rewriting(f, j) # {} THEN torn \cup {f} ELSE torn
      /\ IsJob(job[j]) /\ JobOK(j) /\ DOMAIN job = Jobs
  BY JobFacts DEF StoreUpdate
<1>2. PICK k \in Keys :
        /\ Fresh(k)
        /\ job' = [Disturb(job[j].path, j) EXCEPT ![j].pc = "clear", ![j].id = f, ![j].draw = k, ![j].prev = 0]
  BY DEF StoreUpdate
<1>3. v \in Versions /\ Text[v] \in Texts /\ f \in Keys /\ job[j].n = 0 /\ job[j].path \in Paths
  BY <1>1, IndexAssumption DEF IsJob, JobOK
<1>4. OthersSame(j) /\ job'[j] = [job[j] EXCEPT !.pc = "clear", !.id = f, !.draw = k, !.prev = 0]
  <2>1. PICK D : D = Disturb(job[j].path, j)
    OBVIOUS
  <2>2. DOMAIN D = Jobs /\ D[j] = job[j]
    BY <2>1, DisturbFacts
  <2>3. job' = [D EXCEPT ![j].pc = "clear", ![j].id = f, ![j].draw = k, ![j].prev = 0]
    BY <1>2, <2>1
  <2>4. /\ DOMAIN job' = Jobs /\ \A i \in Jobs \ {j} : job'[i] = D[i]
        /\ job'[j] = [job[j] EXCEPT !.pc = "clear", !.id = f, !.draw = k, !.prev = 0]
    BY <2>2, <2>3
  <2> QED BY <2>1, <2>4, DisturbStep
<1>5. /\ IsJob(job'[j]) /\ job'[j].pc = "clear" /\ job'[j].id = f /\ job'[j].ver = v /\ job'[j].n = 0
      /\ job'[j].draw = k /\ job'[j].path = job[j].path /\ job'[j].todo = job[j].todo
  BY <1>1, <1>3, <1>4 DEF IsJob
<1> HIDE DEF v, f
<1>6. \A i \in Jobs : IsJob(job'[i]) /\ JobOK(i)'
  <2>1. JobOK(j)'
    BY <1>1, <1>3, <1>5 DEF JobOK, v
  <2> QED BY <1>4, <1>5, <2>1, OthersOK
<1>7. DOMAIN files' = DOMAIN files
  BY <1>1
<1>8. ASSUME NEW p \in DOMAIN files
      PROVE  /\ files'[p] \in File /\ files'[p].id = files[p].id
             /\ files'[p].sum = IF files[p].id = f THEN Text[v] ELSE files[p].sum
  <2>1. files[p] \in File
    BY FileTyped DEF IndexInv
  <2>2. CASE files[p].id = f
    <3>1. files'[p] = [files[p] EXCEPT !.sum = Text[v], !.blob = v, !.origin = Origin(j)]
      BY <1>1, <2>2
    <3>2. Origin(j) \in {"index", "upload", "api"}
      BY DEF Origin
    <3> QED BY <1>3, <2>1, <2>2, <3>1, <3>2 DEF File
  <2>3. CASE files[p].id # f
    BY <1>1, <2>1, <2>3
  <2> QED BY <2>2, <2>3
<1>9. Tables'
  <2>1. files' = [p \in DOMAIN files' |-> files'[p]]
    BY <1>1
  <2>2. Maps(files', File)
    BY <1>7, <1>8, <2>1 DEF IndexInv, Tables, Maps
  <2>3. Stored' = Stored
    BY <1>7, <1>8 DEF Stored
  <2>4. torn' \subseteq Keys
    BY <1>1, <1>3 DEF IndexInv, Tables
  <2>5. \A p, q \in DOMAIN files' : files'[p].id = files'[q].id => p = q
    BY <1>7, <1>8 DEF IndexInv, Tables
  <2>6. /\ Maps(dir', Versions) /\ chunks' \subseteq Chunk /\ sweep' \in [Sweepers -> SUBSET Chunk]
        /\ calls' \in 0 .. MaxCalls /\ (\A c \in chunks' : c.file \in Stored)
        /\ \A c, d \in chunks' : c.file = d.file /\ c.seq = d.seq => c = d
    BY <1>1 DEF IndexInv, Tables
  <2>7. \A c \in chunks' : c.file \in Stored'
    BY <2>3, <2>6
  <2> QED BY <2>2, <2>4, <2>5, <2>6, <2>7 DEF Tables
<1>10. torn \subseteq torn'
  BY <1>1
<1>11. ASSUME NEW p \in DOMAIN files' PROVE FileOK(p)'
  <2> SUFFICES ASSUME NEW id \in Keys, NEW u \in Texts, id = files'[p].id, u = files'[p].sum
               PROVE  Sound(id, u)'
    BY DEF FileOK
  <2>1. p \in DOMAIN files /\ id = files[p].id
    BY <1>7, <1>8
  <2>2. CASE id # f
    <3>1. u = files[p].sum /\ Sound(id, u)
      BY <1>8, <2>1, <2>2 DEF IndexInv, FileOK
    <3>2. Alike(id)
      BY <1>1 DEF Alike
    <3>3. \A i \in Jobs : SameAt(i, id)
      BY <1>1, <1>4, <1>5, <2>2 DEF OthersSame, SameAt, AtWork
    <3>4. id \in torn => id \in torn'
      BY <1>10
    <3> QED BY <3>1, <3>2, <3>3, <3>4, SoundKeeps
  <2>3. CASE id = f /\ id \notin torn'
    <3>1. Rewriting(f, j) = {}
      BY <1>1, <2>3
    <3>2. \A i \in Jobs : AtWork(i, id)' => i = j
      BY <1>4, <2>3, <3>1 DEF OthersSame, AtWork, Rewriting
    <3>3. AtWork(j, id)' /\ u = Text[job'[j].ver] /\ job'[j].pc = "clear"
      BY <1>5, <1>8, <2>1, <2>3 DEF AtWork
    <3> QED BY <3>2, <3>3 DEF Sound
  <2>4. CASE id \in torn'
    BY <2>4 DEF Sound
  <2> QED BY <2>2, <2>3, <2>4
<1>12. \A d, u : Drawn(d, u)' => Drawn(d, u) \/ (d = k /\ u = Text[v])
  <2>1. /\ chunks' = chunks /\ sweep' = sweep
        /\ \A i \in Jobs \ {j} : job'[i].pc = job[i].pc /\ job'[i].ver = job[i].ver /\ job'[i].draw = job[i].draw
        /\ job'[j].draw = k /\ job'[j].ver = v
    BY <1>1, <1>4, <1>5 DEF OthersSame
  <2> QED BY <2>1 DEF Drawn
<1>13. OneText'
  BY <1>2, <1>12, DrawsFresh DEF IndexInv
<1>14. EmbeddingMatches'
  BY <1>1 DEF IndexInv, EmbeddingMatches
<1> QED BY <1>4, <1>6, <1>9, <1>11, <1>13, <1>14 DEF IndexInv, OthersSame

\* A row at a path that was free, with the chunks of its text or none of them yet.
Adds(p, k, row, u, S) ==
  /\ p \notin DOMAIN files /\ Fresh(k) /\ row.id = k /\ row.sum = u
  /\ files' = With(p, row) /\ chunks' = chunks \cup S /\ UNCHANGED <<dir, sweep, torn>> /\ calls' \in 0 .. MaxCalls
  /\ \A c \in S : c.draw = k /\ c.file = k /\ c.text = u /\ c.emb = <<>>
  /\ \A c, d \in S : c.seq = d.seq => c = d
  /\ DOMAIN job' = Jobs /\ \A j \in Jobs : IsJob(job'[j]) /\ JobOK(j)'
  /\ \A j \in Jobs, id \in Keys : id # k => SameAt(j, id)
  /\ Sound(k, u)'
  /\ \A j \in Jobs : job'[j].pc \in {"clear", "chunk"} =>
       \/ job[j].pc \in {"clear", "chunk"} /\ job'[j].draw = job[j].draw /\ job'[j].ver = job[j].ver
       \/ job'[j].draw = k /\ Text[job'[j].ver] = u

LEMMA NewRow ==
  ASSUME IndexInv, NEW p \in Paths, NEW k, NEW row \in File, NEW u, NEW S \in SUBSET Chunk, Adds(p, k, row, u, S)
  PROVE  IndexInv'
<1> USE DEF Adds
<1>1. /\ k \in Keys /\ k \notin Stored /\ k \notin torn
      /\ \A c \in chunks : c.draw # k /\ c.file # k
  BY FreshFacts
<1>2. /\ DOMAIN files' = DOMAIN files \cup {p} /\ files'[p] = row
      /\ \A q \in DOMAIN files : files'[q] = files[q] /\ files[q].id # k
  BY <1>1 DEF With, Stored
<1>3. Maps(files', File)
  BY <1>2 DEF With, IndexInv, Tables, Maps
<1>4. Stored' = Stored \cup {k}
  BY <1>2 DEF Stored
<1>5. \A c \in chunks' : c.file \in Stored'
  BY <1>4 DEF IndexInv, Tables
<1>6. \A c, d \in chunks' : c.file = d.file /\ c.seq = d.seq => c = d
  BY <1>1 DEF IndexInv, Tables
<1>7. \A q, r \in DOMAIN files' : files'[q].id = files'[r].id => q = r
  BY <1>2 DEF IndexInv, Tables
<1>8. Tables'
  BY <1>3, <1>5, <1>6, <1>7 DEF IndexInv, Tables
<1>9. ASSUME NEW q \in DOMAIN files' PROVE FileOK(q)'
  <2>1. CASE q = p
    BY <1>2, <2>1 DEF FileOK
  <2>2. CASE q \in DOMAIN files
    <3>1. FileOK(q) /\ files'[q] = files[q] /\ files[q].id # k /\ files[q].id \in Keys
      BY <1>2, <2>2, FileTyped DEF IndexInv
    <3>2. Alike(files[q].id)
      BY <3>1 DEF Alike
    <3> QED BY <3>1, <3>2, FileKeeps
  <2> QED BY <1>2, <2>1, <2>2
<1>10. \A d, t : Drawn(d, t)' => Drawn(d, t) \/ (d = k /\ t = u)
  BY DEF Drawn
<1>11. OneText'
  BY <1>10, DrawsFresh DEF IndexInv
<1>12. EmbeddingMatches'
  BY DEF IndexInv, EmbeddingMatches
<1> QED BY <1>8, <1>9, <1>11, <1>12 DEF IndexInv

LEMMA InsertKeeps == ASSUME IndexInv, NEW j \in Jobs, StoreInsert(j) PROVE IndexInv'
<1> DEFINE v == job[j].ver
           p == job[j].path
<1>1. /\ job[j].pc = "store" /\ UNCHANGED <<dir, chunks, sweep, torn, calls>>
      /\ IsJob(job[j]) /\ JobOK(j) /\ DOMAIN job = Jobs
  BY JobFacts DEF StoreInsert
<1>2. v \in Versions /\ Text[v] \in Texts /\ Size[Text[v]] \in Nat /\ p \in Paths /\ job[j].id = 0 /\ job[j].n = 0
  BY <1>1, IndexAssumption DEF IsJob, JobOK
<1>3. CASE Throws(j) /\ UNCHANGED files
  <2>1. \A id \in Keys : ~AtWork(j, id)
    BY <1>1 DEF AtWork
  <2>2. torn \subseteq Keys
    BY DEF IndexInv, Tables
  <2> QED BY <1>1, <1>3, <2>1, <2>2, LeaveKeeps, RecastSame, ThrowsPutsDown
<1>4. ASSUME p \notin DOMAIN files, NEW k \in Keys, Fresh(k),
             files' = With(p, [id |-> k, sum |-> Text[v], blob |-> v, origin |-> Origin(j)]),
             job' = [Disturb(p, j) EXCEPT ![j].pc = "chunk", ![j].id = k, ![j].draw = k]
      PROVE  IndexInv'
  <2> DEFINE row == [id |-> k, sum |-> Text[v], blob |-> v, origin |-> Origin(j)]
  <2>1. row \in File /\ row.id = k /\ row.sum = Text[v]
    BY <1>2 DEF File, Origin
  <2>2. OthersSame(j) /\ job'[j] = [job[j] EXCEPT !.pc = "chunk", !.id = k, !.draw = k]
    <3>1. PICK D : D = Disturb(p, j)
      OBVIOUS
    <3>2. DOMAIN D = Jobs /\ D[j] = job[j]
      BY <3>1, DisturbFacts
    <3>3. job' = [D EXCEPT ![j].pc = "chunk", ![j].id = k, ![j].draw = k]
      BY <1>4, <3>1
    <3>4. /\ DOMAIN job' = Jobs /\ \A i \in Jobs \ {j} : job'[i] = D[i]
          /\ job'[j] = [job[j] EXCEPT !.pc = "chunk", !.id = k, !.draw = k]
      BY <3>2, <3>3
    <3> QED BY <3>1, <3>4, DisturbStep
  <2>3. /\ IsJob(job'[j]) /\ job'[j].pc = "chunk" /\ job'[j].id = k /\ job'[j].ver = v /\ job'[j].n = 0
        /\ job'[j].draw = k /\ job'[j].path = p /\ job'[j].todo = job[j].todo
    BY <1>1, <1>2, <2>2 DEF IsJob
  <2>4. files' = With(p, row)
    BY <1>4
  <2>5. PICK u \in Texts : u = Text[v]
    BY <1>2
  <2> HIDE DEF v, p, row
  <2>6. \A i \in Jobs : IsJob(job'[i]) /\ JobOK(i)'
    <3>1. JobOK(j)'
      BY <1>1, <1>2, <2>3 DEF JobOK, v, p
    <3> QED BY <2>2, <2>3, <3>1, OthersOK
  <2>7. \A i \in Jobs, id \in Keys : id # k => SameAt(i, id)
    BY <1>1, <2>2, <2>3 DEF OthersSame, SameAt, AtWork
  <2>8. /\ \A i \in Jobs : AtWork(i, k)' => i = j
        /\ AtWork(j, k)'
    BY <1>4, <2>2, <2>3, FreshFacts DEF OthersSame, AtWork
  <2>9. Held(k, u, 0)'
    <3>1. \A c \in chunks' : c.file # k
      BY <1>1, <1>4, FreshFacts
    <3>2. \A i \in Nat : ~(i < 0)
      OBVIOUS
    <3> QED BY <3>1, <3>2 DEF Held
  <2>10. Sound(k, u)'
    BY <2>3, <2>5, <2>8, <2>9 DEF Sound
  <2>11. \A i \in Jobs : job'[i].pc \in {"clear", "chunk"} =>
              \/ job[i].pc \in {"clear", "chunk"} /\ job'[i].draw = job[i].draw /\ job'[i].ver = job[i].ver
              \/ job'[i].draw = k /\ Text[job'[i].ver] = u
    BY <2>2, <2>3, <2>5 DEF OthersSame
  <2>12. chunks' = chunks \cup {} /\ {} \in SUBSET Chunk /\ calls' \in 0 .. MaxCalls
    BY <1>1, SameCalls
  <2>13. DOMAIN job' = Jobs
    BY <2>2 DEF OthersSame
  <2>14. row.sum = u
    BY <2>1, <2>5
  <2>15. p \in Paths /\ p \notin DOMAIN files /\ Fresh(k) /\ UNCHANGED <<dir, sweep, torn>>
    BY <1>1, <1>2, <1>4
  <2>16. PICK r \in File : r = row
    BY <2>1
  <2>17. PICK q \in Paths : q = p
    BY <2>15
  <2>18. files' = With(q, r) /\ r.id = k /\ r.sum = u /\ q \notin DOMAIN files
    BY <2>1, <2>4, <2>14, <2>15, <2>16, <2>17
  <2>19. PICK S \in SUBSET Chunk : S = {}
    OBVIOUS
  <2>20. /\ chunks' = chunks \cup S
         /\ \A c \in S : c.draw = k /\ c.file = k /\ c.text = u /\ c.emb = <<>>
         /\ \A c, d \in S : c.seq = d.seq => c = d
    BY <2>12, <2>19
  <2>21. Adds(q, k, r, u, S)
    BY <2>6, <2>7, <2>10, <2>11, <2>12, <2>13, <2>15, <2>18, <2>20 DEF Adds
  <2> QED BY <2>21, NewRow
<1> QED BY <1>3, <1>4 DEF StoreInsert

LEMMA CreateKeeps == ASSUME IndexInv, NEW p \in Paths, NEW v \in Versions, Create(p, v) PROVE IndexInv'
<1> DEFINE t == Text[v]
<1>1. /\ p \notin DOMAIN files /\ UNCHANGED <<dir, sweep, torn>> /\ t \in Texts /\ Size[t] \in Nat
      /\ job' = [j \in Jobs |-> [job[j] EXCEPT !.calm = @ \ {p}]] /\ calls' \in 0 .. MaxCalls
  BY CallTyped, IndexAssumption DEF Create
<1>2. PICK k \in Keys :
        /\ Fresh(k)
        /\ files' = With(p, [id |-> k, sum |-> t, blob |-> None, origin |-> "api"])
        /\ chunks' = chunks \cup {[draw |-> k, file |-> k, seq |-> n, text |-> t, emb |-> <<>>] : n \in 0 .. Size[t] - 1}
  BY DEF Create
<1> DEFINE row == [id |-> k, sum |-> t, blob |-> None, origin |-> "api"]
           S == {[draw |-> k, file |-> k, seq |-> n, text |-> t, emb |-> <<>>] : n \in 0 .. Size[t] - 1}
<1>3. DOMAIN job' = Jobs /\ \A j \in Jobs : IsJob(job'[j]) /\ JobOK(j)' /\ SameWork(j)
  BY <1>1, CalmJobs
<1>4. row \in File /\ row.id = k /\ row.sum = t
  BY <1>1 DEF File
<1>5. /\ S \in SUBSET Chunk /\ \A c \in S : c.draw = k /\ c.file = k /\ c.text = t /\ c.emb = <<>>
      /\ \A c, d \in S : c.seq = d.seq => c = d
      /\ \A c \in S : c.seq < Size[t]
      /\ \A i \in Nat : i < Size[t] => \E c \in S : c.file = k /\ c.seq = i
  <2> HIDE DEF t
  <2> DEFINE new(n) == [draw |-> k, file |-> k, seq |-> n, text |-> t, emb |-> <<>>]
  <2>1. \A n : new(n).draw = k /\ new(n).file = k /\ new(n).seq = n /\ new(n).text = t /\ new(n).emb = <<>>
    OBVIOUS
  <2>2. \A n \in 0 .. Size[t] - 1 : n \in Nat /\ n < Size[t]
    BY <1>1
  <2>3. \A n \in 0 .. Size[t] - 1 : new(n) \in Chunk
    BY <1>1, <2>2 DEF Chunk
  <2>4. S = {new(n) : n \in 0 .. Size[t] - 1}
    OBVIOUS
  <2>5. \A i \in Nat : i < Size[t] => i \in 0 .. Size[t] - 1
    BY <1>1
  <2> HIDE DEF new, S
  <2>6. S \in SUBSET Chunk
    BY <2>3, <2>4
  <2>7. \A c \in S : \E n \in 0 .. Size[t] - 1 : c = new(n)
    BY <2>4
  <2>8. \A c \in S : c.draw = k /\ c.file = k /\ c.text = t /\ c.emb = <<>> /\ c.seq < Size[t] /\ c = new(c.seq)
    BY <2>1, <2>2, <2>7
  <2>9. \A c, d \in S : c.seq = d.seq => c = d
    BY <2>8
  <2>10. \A i \in Nat : i < Size[t] => \E c \in S : c.file = k /\ c.seq = i
    BY <2>1, <2>4, <2>5
  <2> QED BY <2>6, <2>8, <2>9, <2>10
<1>6. files' = With(p, row) /\ chunks' = chunks \cup S
  BY <1>2
<1> HIDE DEF row, S, t
<1>7. Sound(k, t)'
  <2>1. PICK n \in Nat : n = Size[t]
    BY <1>1
  <2>2. Held(k, t, n)'
    <3>1. \A c \in chunks' : c.file = k => c \in S
      BY <1>2, <1>6, FreshFacts
    <3>2. \A c \in chunks' : c.file = k => c.text = t /\ c.seq < n
      BY <1>5, <2>1, <3>1
    <3>3. \A i \in Nat : i < n => \E c \in chunks' : c.file = k /\ c.seq = i
      BY <1>5, <1>6, <2>1
    <3> QED BY <3>2, <3>3 DEF Held, t
  <2>3. \A j \in Jobs : ~AtWork(j, k)'
    BY <1>2, <1>3, FreshFacts DEF SameWork, AtWork
  <2> QED BY <2>1, <2>2, <2>3 DEF Sound, t
<1>8. \A j \in Jobs, id \in Keys : id # k => SameAt(j, id)
  BY <1>3, WorkAt
<1>9. \A j \in Jobs : job'[j].pc \in {"clear", "chunk"} =>
        job[j].pc \in {"clear", "chunk"} /\ job'[j].draw = job[j].draw /\ job'[j].ver = job[j].ver
  BY <1>3 DEF SameWork
<1>10. PICK r \in File : r = row
  BY <1>4
<1>11. PICK A \in SUBSET Chunk : A = S
  BY <1>5
<1>12. PICK u : u = t
  OBVIOUS
<1>13. Sound(k, u)'
  BY <1>7, <1>12 DEF t
<1>14. files' = With(p, r) /\ r.id = k /\ r.sum = u /\ chunks' = chunks \cup A
  BY <1>4, <1>6, <1>10, <1>11, <1>12
<1>15. /\ \A c \in A : c.draw = k /\ c.file = k /\ c.text = u /\ c.emb = <<>>
       /\ \A c, d \in A : c.seq = d.seq => c = d
  BY <1>5, <1>11, <1>12
<1>16. Adds(p, k, r, u, A)
  BY <1>1, <1>2, <1>3, <1>8, <1>9, <1>13, <1>14, <1>15 DEF Adds
<1> QED BY <1>16, NewRow

---------------------------------------------------------------------------
(* What search sees *)

LEMMA IndexInvStep == IndexInv /\ [Next]_vars => IndexInv'
<1> SUFFICES ASSUME IndexInv, [Next]_vars PROVE IndexInv'
  OBVIOUS
<1>1. \A j \in Indexers \cup Uploaders : j \in Jobs
  BY DEF Jobs
<1>2. ASSUME NEW i \in Indexers, BeginIndex(i) \/ Walk(i) \/ FileGone(i) \/ Prune(i) \/ EndIndex(i) PROVE IndexInv'
  BY <1>1, <1>2, BeginKeeps, WalkKeeps, EndsKeep, PruneKeeps
<1>3. ASSUME NEW u \in Uploaders, Plan(u) \/ EndUpload(u) PROVE IndexInv'
  BY <1>1, <1>3, PlanKeeps, EndsKeep
<1>4. ASSUME NEW j \in Jobs, Ingest(j) \/ Break(j) PROVE IndexInv'
  BY <1>4, SelectKeeps, UpdateKeeps, InsertKeeps, ClearKeeps, AddChunkKeeps, EmbedKeeps, BreakKeeps DEF Ingest
<1>5. ASSUME NEW p \in Paths, (\E v \in Versions : Create(p, v)) \/ Delete(p) PROVE IndexInv'
  BY <1>5, CreateKeeps, DeleteKeeps
<1>6. ASSUME NEW p \in Mirror, Edit(p) PROVE IndexInv'
  BY <1>6, EditKeeps
<1>7. ASSUME NEW e \in Sweepers, Ask(e) \/ Answer(e) \/ NoAnswer(e) PROVE IndexInv'
  BY <1>7, AskKeeps, AnswerKeeps, NoAnswerKeeps
<1>8. ASSUME UNCHANGED vars PROVE IndexInv'
  <2>1. UNCHANGED <<dir, files, chunks, job, sweep, torn, calls>>
    BY <1>8 DEF vars
  <2>2. \A j \in Jobs : IsJob(job'[j]) /\ JobOK(j)' /\ SameWork(j)
    BY <2>1 DEF IndexInv, JobOK, SameWork
  <2>3. Maps(dir', Versions) /\ calls' \in 0 .. MaxCalls /\ DOMAIN job' = Jobs
    BY <2>1 DEF IndexInv, Tables
  <2> QED BY <2>1, <2>2, <2>3, QuietStep
<1> QED BY <1>2, <1>3, <1>4, <1>5, <1>6, <1>7, <1>8 DEF Next, Done

\* Whatever index runs, upload sessions, creations, deletions, edits of the directory and
\* embedding sweeps do between each other's statements (indexing/ingest.ts:195-280,
\* sync.ts:125-146, embedding/sync.ts:35-82): each chunk has a row and a place of its own in it,
\* an embedding is that of the text it stands at, and a document that is not being rewritten is
\* whole, unless an ingest of it broke off or met another.
THEOREM SearchSeesTheTextAlways == Spec => []SearchSeesTheText
<1>1. Spec => []IndexInv
  BY InvInit, IndexInvStep, PTL DEF Spec
<1> QED BY <1>1, InvSees, PTL

---------------------------------------------------------------------------
(* What an index run may do: what it has in hand belongs to its directory *)

\* A row with this id is at this path, if there is one.
Names(id, p) == \A q \in DOMAIN files : files[q].id = id => q = p
NamesOK(r) == Names(r.prev, r.path) /\ Names(r.id, r.path) /\ \A p \in DOMAIN r.existing : Names(r.existing[p], p)

\* A draw of ids is spent on one file.
Placed(d, id) ==
  \/ \E c \in chunks : c.draw = d /\ c.file = id
  \/ \E j \in Jobs : job[j].pc \in {"clear", "chunk"} /\ job[j].draw = d /\ job[j].id = id
OneFile == \A d, id, f : Placed(d, id) /\ Placed(d, f) => id = f

\* What a run has seen and done of a path that nobody else has touched since it began.
Listed(r, p) == p \in Indexed => p \in DOMAIN r.existing /\ r.existing[p] = files[p].id
CalmOK(r, p) ==
  /\ r.pc = "list" => Listed(r, p)
  /\ r.pc \in {"file", "store", "clear", "chunk"} =>
       /\ p \in r.seen <=> p \in DOMAIN dir
       /\ p \in DOMAIN dir \ r.todo => p \in DOMAIN files /\ files[p].sum = Text[dir[p]]
       /\ p \notin DOMAIN dir => Listed(r, p)
  /\ r.pc \in {"store", "clear", "chunk"} /\ p = r.path => p \in DOMAIN dir /\ r.ver = dir[p]
  /\ r.pc = "store" /\ p = r.path => r.prev = IF p \in DOMAIN files THEN files[p].id ELSE 0
  /\ r.pc \in {"clear", "chunk"} /\ p = r.path => p \in DOMAIN files /\ files[p].sum = Text[r.ver]
RunOK(r) ==
  /\ r.calm \subseteq Mirror /\ r.todo \subseteq Mirror /\ DOMAIN r.existing \subseteq Mirror
  /\ r.pc \in {"store", "clear", "chunk"} => r.path \in Mirror
  /\ \A p \in r.calm : CalmOK(r, p)

MirrorInv ==
  /\ DOMAIN dir \subseteq Mirror /\ Indexed \subseteq Mirror
  /\ OneFile
  /\ \A j \in Jobs : NamesOK(job[j])
  /\ \A i \in Indexers : RunOK(job[i])

LEMMA MirrorInit == Init => MirrorInv
<1> SUFFICES ASSUME Init PROVE MirrorInv
  OBVIOUS
<1>1. DOMAIN files = {} /\ chunks = {} /\ \A j \in Jobs : job[j] = Idle
  BY NoMap DEF Init
<1>2. DOMAIN dir \subseteq Mirror
  BY DEF Init
<1>3. \A d, id : ~Placed(d, id)
  BY <1>1, IdleTyped DEF Placed
<1>4. NamesOK(Idle)
  BY <1>1, NoMap DEF NamesOK, Names, Idle
<1>5. RunOK(Idle)
  BY NoMap DEF RunOK, Idle
<1> QED BY <1>1, <1>2, <1>3, <1>4, <1>5 DEF MirrorInv, OneFile, Indexed, Jobs

---------------------------------------------------------------------------
(* What the steps of others leave of it *)

\* No row has come but those with these ids, and none has moved.
RowsBut(K) == \A q \in DOMAIN files' : files'[q].id \in K \/ (q \in DOMAIN files /\ files'[q].id = files[q].id)

\* The directory and the table say of p what they said.
SameHere(p) ==
  /\ p \in DOMAIN dir' <=> p \in DOMAIN dir
  /\ p \in DOMAIN dir => dir'[p] = dir[p]
  /\ p \in DOMAIN files' <=> p \in DOMAIN files
  /\ p \in DOMAIN files => files'[p] = files[p]

\* The calm paths may be fewer.
Calmer(s, r) ==
  /\ s.pc = r.pc /\ s.prev = r.prev /\ s.path = r.path /\ s.id = r.id /\ s.ver = r.ver /\ s.draw = r.draw
  /\ s.existing = r.existing /\ s.seen = r.seen /\ s.todo = r.todo /\ s.calm \subseteq r.calm

LEMMA NamesKept ==
  ASSUME NEW K, RowsBut(K), NEW r, NamesOK(r),
         r.prev \notin K, r.id \notin K, \A q \in DOMAIN r.existing : r.existing[q] \notin K
  PROVE  NamesOK(r)'
BY DEF RowsBut, NamesOK, Names

LEMMA CalmKept ==
  ASSUME NEW r, NEW s, NEW p, CalmOK(r, p), Calmer(s, r), SameHere(p)
  PROVE  CalmOK(s, p)'
<1>1. Listed(r, p) => Listed(s, p)'
  BY DEF Listed, Indexed, SameHere, Calmer
<1>2. p \in DOMAIN files => files'[p].id = files[p].id /\ files'[p].sum = files[p].sum
  BY DEF SameHere
<1> QED BY <1>1, <1>2 DEF CalmOK, SameHere, Calmer

\* The others keep theirs.
LEMMA OthersMirror ==
  ASSUME MirrorInv, NEW K, RowsBut(K), NEW k \in Jobs, Calmer(job'[k], job[k]),
         job[k].prev \notin K, job[k].id \notin K, \A q \in DOMAIN job[k].existing : job[k].existing[q] \notin K,
         \A p \in job'[k].calm : SameHere(p)
  PROVE  NamesOK(job[k])' /\ (k \in Indexers => RunOK(job[k])')
<1> PICK r, s : r = job[k] /\ s = job'[k]
  OBVIOUS
<1>1. Calmer(s, r) /\ NamesOK(r) /\ \A p \in s.calm : SameHere(p)
  BY DEF MirrorInv
<1>2. NamesOK(r)'
  BY <1>1, NamesKept
<1>3. NamesOK(s)'
  BY <1>1, <1>2 DEF NamesOK, Names, Calmer
<1>4. ASSUME k \in Indexers PROVE RunOK(s)'
  <2>1. RunOK(r)
    BY <1>4 DEF MirrorInv
  <2>2. \A p \in s.calm : CalmOK(r, p)
    BY <1>1, <2>1 DEF RunOK, Calmer
  <2>3. \A p \in s.calm : CalmOK(s, p)'
    BY <1>1, <2>2, CalmKept
  <2> QED BY <1>1, <2>1, <2>3 DEF RunOK, Calmer
<1> QED BY <1>3, <1>4

LEMMA FilesKept == ASSUME OneFile, \A d, id : Placed(d, id)' => Placed(d, id) PROVE OneFile'
BY DEF OneFile

LEMMA FilesFresh ==
  ASSUME OneFile, NEW k, NEW f, Fresh(k), \A d, id : Placed(d, id)' => Placed(d, id) \/ (d = k /\ id = f)
  PROVE  OneFile'
<1>1. \A id : ~Placed(k, id)
  BY FreshFacts DEF Placed
<1> QED BY <1>1 DEF OneFile

\* A step of j that leaves the directory and the rows as they are.
LEMMA QuietMirror ==
  ASSUME MirrorInv, UNCHANGED <<dir, files>>, NEW j \in Jobs, \A k \in Jobs \ {j} : job'[k] = job[k],
         \A d, id : Placed(d, id)' => Placed(d, id),
         NamesOK(job'[j]), j \in Indexers => RunOK(job'[j])
  PROVE  MirrorInv'
<1>1. RowsBut({}) /\ \A p : SameHere(p)
  BY DEF RowsBut, SameHere
<1>2. ASSUME NEW k \in Jobs \ {j} PROVE NamesOK(job[k])' /\ (k \in Indexers => RunOK(job[k])')
  <2>1. Calmer(job'[k], job[k])
    BY DEF Calmer
  <2> QED BY <1>1, <2>1, OthersMirror
<1>3. NamesOK(job[j])' /\ (j \in Indexers => RunOK(job[j])')
  <2> PICK s : s = job'[j]
    OBVIOUS
  <2>1. NamesOK(s) => NamesOK(s)'
    BY DEF NamesOK, Names
  <2>2. RunOK(s) => RunOK(s)'
    BY DEF RunOK, CalmOK, Listed, Indexed
  <2> QED BY <2>1, <2>2
<1>4. OneFile'
  BY FilesKept DEF MirrorInv
<1>5. DOMAIN dir' \subseteq Mirror /\ Indexed' \subseteq Mirror
  BY DEF MirrorInv, Indexed
<1>6. \A k \in Jobs : NamesOK(job[k])' /\ (k \in Indexers => RunOK(job[k])')
  BY <1>2, <1>3
<1> QED BY <1>4, <1>5, <1>6 DEF MirrorInv, Jobs

---------------------------------------------------------------------------
(* Steps between two files, and the chunks of one *)

LEMMA IdleOK == IndexInv => NamesOK(Idle) /\ RunOK(Idle)
<1>1. IndexInv => \A p \in DOMAIN files : files[p].id # 0
  BY FileTyped DEF IndexInv
<1>2. DOMAIN Idle.existing = {} /\ Idle.prev = 0 /\ Idle.id = 0 /\ Idle.calm = {} /\ Idle.todo = {} /\ Idle.pc = "idle"
  BY NoMap DEF Idle
<1> QED BY <1>1, <1>2 DEF NamesOK, Names, RunOK

LEMMA NextOK ==
  ASSUME IndexInv, MirrorInv, NEW j \in Jobs, job[j].pc \in {"store", "clear", "chunk"}, NEW r,
         r = NextFile(j) \/ (j \in Uploaders /\ r = [NextFile(j) EXCEPT !.todo = job[j].todo]),
         j \in Indexers => job[j].pc # "store"
  PROVE  NamesOK(r) /\ (j \in Indexers => RunOK(r))
<1>1. IsJob(job[j])
  BY JobFacts
<1>2. /\ r.pc = "file" /\ r.prev = 0 /\ r.id = 0 /\ r.existing = job[j].existing /\ r.calm = job[j].calm
      /\ r.seen = job[j].seen
      /\ j \in Indexers => r.todo = job[j].todo \ {job[j].path}
  <2>1. LET q == NextFile(j)
        IN /\ q.pc = "file" /\ q.prev = 0 /\ q.id = 0 /\ q.existing = job[j].existing /\ q.calm = job[j].calm
           /\ q.seen = job[j].seen /\ q.todo = job[j].todo \ {job[j].path} /\ IsJob(q)
    BY <1>1 DEF NextFile, IsJob
  <2>2. CASE r = NextFile(j)
    BY <2>1, <2>2
  <2>3. CASE j \in Uploaders /\ r = [NextFile(j) EXCEPT !.todo = job[j].todo]
    <3>1. j \notin Indexers
      BY <2>3, IndexAssumption
    <3> PICK q : q = NextFile(j)
      OBVIOUS
    <3>2. r = [q EXCEPT !.todo = job[j].todo]
      BY <2>3
    <3> QED BY <2>1, <3>1, <3>2 DEF IsJob
  <2> QED BY <2>2, <2>3
<1>3. NamesOK(r)
  <2>1. \A p \in DOMAIN files : files[p].id # 0
    BY FileTyped DEF IndexInv
  <2> QED BY <1>2, <2>1 DEF MirrorInv, NamesOK, Names
<1>4. ASSUME j \in Indexers PROVE RunOK(r)
  <2>1. RunOK(job[j]) /\ job[j].pc \in {"clear", "chunk"}
    BY <1>4 DEF MirrorInv
  <2>2. ASSUME NEW p \in r.calm PROVE CalmOK(r, p)
    <3>1. CalmOK(job[j], p)
      BY <1>2, <2>1 DEF RunOK
    <3> QED BY <1>2, <1>4, <2>1, <3>1 DEF CalmOK, Listed
  <2> QED BY <1>2, <1>4, <2>1, <2>2 DEF RunOK
<1> QED BY <1>3, <1>4

LEMMA ThrowMirrors ==
  ASSUME IndexInv, MirrorInv, NEW j \in Jobs, Throws(j), job[j].pc \in {"store", "clear", "chunk"}
  PROVE  /\ DOMAIN job' = Jobs /\ \A k \in Jobs \ {j} : job'[k] = job[k]
         /\ NamesOK(job'[j]) /\ (j \in Indexers => RunOK(job'[j]))
<1>1. DOMAIN job = Jobs
  BY DEF IndexInv
<1>2. CASE j \in Indexers /\ job' = [job EXCEPT ![j] = Idle]
  BY <1>1, <1>2, IdleOK
<1>3. CASE j \in Uploaders
  <2>1. j \notin Indexers
    BY <1>3, IndexAssumption
  <2>2. PICK r : /\ r = NextFile(j) \/ (j \in Uploaders /\ r = [NextFile(j) EXCEPT !.todo = job[j].todo])
                 /\ job' = [job EXCEPT ![j] = r]
    BY <2>1 DEF Throws
  <2>3. NamesOK(r)
    BY <2>1, <2>2, NextOK
  <2> QED BY <1>1, <2>1, <2>2, <2>3
<1> QED BY <1>2, <1>3 DEF Throws
\* A step of j that draws no ids.
LEMMA PlacedKept ==
  ASSUME NEW j, \A k \in Jobs \ {j} : job'[k] = job[k],
         \/ job'[j].pc \notin {"clear", "chunk"}
         \/ job[j].pc \in {"clear", "chunk"} /\ job'[j].draw = job[j].draw /\ job'[j].id = job[j].id,
         \A d \in chunks' : \/ \E c \in chunks : d.draw = c.draw /\ d.file = c.file
                            \/ d.draw = job[j].draw /\ d.file = job[j].id /\ job[j].pc \in {"clear", "chunk"} /\ j \in Jobs
  PROVE  \A d, id : Placed(d, id)' => Placed(d, id)
BY DEF Placed

\* A step of j that draws x, if any, for the file y.
LEMMA PlacedNew ==
  ASSUME NEW j, NEW x, NEW y,
         \A k \in Jobs \ {j} : Calmer(job'[k], job[k]),
         \/ job'[j].pc \notin {"clear", "chunk"}
         \/ job'[j].draw = x /\ job'[j].id = y
         \/ job'[j].pc = job[j].pc /\ job'[j].draw = job[j].draw /\ job'[j].id = job[j].id,
         \A c \in chunks' : c \in chunks \/ (c.draw = x /\ c.file = y)
  PROVE  \A d, f : Placed(d, f)' => Placed(d, f) \/ (d = x /\ f = y)
<1> SUFFICES ASSUME NEW d, NEW f, Placed(d, f)', ~(d = x /\ f = y) PROVE Placed(d, f)
  OBVIOUS
<1>1. CASE \E c \in chunks' : c.draw = d /\ c.file = f
  BY <1>1 DEF Placed
<1>2. ASSUME NEW k \in Jobs, job'[k].pc \in {"clear", "chunk"}, job'[k].draw = d, job'[k].id = f PROVE Placed(d, f)
  <2>1. job[k].pc \in {"clear", "chunk"} /\ job[k].draw = d /\ job[k].id = f
    BY <1>2 DEF Calmer
  <2> QED BY <2>1 DEF Placed
<1> QED BY <1>1, <1>2 DEF Placed

\* ... or none.
LEMMA PlacedCalm ==
  ASSUME \A k \in Jobs : job'[k].pc = job[k].pc /\ job'[k].draw = job[k].draw /\ job'[k].id = job[k].id,
         chunks' \subseteq chunks
  PROVE  \A d, f : Placed(d, f)' => Placed(d, f)
<1> SUFFICES ASSUME NEW d, NEW f, Placed(d, f)' PROVE Placed(d, f)
  OBVIOUS
<1>1. CASE \E c \in chunks' : c.draw = d /\ c.file = f
  BY <1>1 DEF Placed
<1>2. CASE \E k \in Jobs : job'[k].pc \in {"clear", "chunk"} /\ job'[k].draw = d /\ job'[k].id = f
  BY <1>2 DEF Placed
<1> QED BY <1>1, <1>2 DEF Placed

LEMMA BeginMirrors == ASSUME IndexInv, MirrorInv, NEW i \in Jobs, BeginIndex(i) PROVE MirrorInv'
<1> DEFINE e == [p \in Indexed |-> files[p].id]
           r == [Idle EXCEPT !.pc = "list", !.calm = Mirror, !.existing = e]
<1>1. job' = [job EXCEPT ![i] = r] /\ DOMAIN job = Jobs /\ UNCHANGED <<dir, files, chunks>>
  BY DEF BeginIndex, IndexInv
<1>2. r.pc = "list" /\ r.calm = Mirror /\ r.existing = e /\ r.prev = 0 /\ r.id = 0 /\ r.todo = {}
  BY DEF Idle
<1>3. DOMAIN e = Indexed /\ Indexed \subseteq Mirror /\ \A p \in Indexed : e[p] = files[p].id
  BY DEF MirrorInv
<1>4. \A p \in DOMAIN files : files[p].id # 0
  BY FileTyped DEF IndexInv
<1>5. \A p, q \in DOMAIN files : files[p].id = files[q].id => p = q
  BY DEF IndexInv, Tables
<1> HIDE DEF e, r
<1>6. NamesOK(r)
  BY <1>2, <1>3, <1>4, <1>5 DEF NamesOK, Names, Indexed
<1>7. RunOK(r)
  BY <1>2, <1>3 DEF RunOK, CalmOK, Listed
<1>8. job'[i] = r /\ \A k \in Jobs \ {i} : job'[k] = job[k]
  BY <1>1
<1>9. \A d, id : Placed(d, id)' => Placed(d, id)
  BY <1>1, <1>2, <1>8, PlacedKept
<1> QED BY <1>1, <1>6, <1>7, <1>8, <1>9, QuietMirror

LEMMA WalkMirrors == ASSUME IndexInv, MirrorInv, NEW i \in Jobs, Walk(i) PROVE MirrorInv'
<1>1. /\ IsJob(job[i]) /\ DOMAIN job = Jobs /\ i \in Indexers /\ job[i].pc = "list" /\ UNCHANGED <<dir, files, chunks>>
      /\ job' = [job EXCEPT ![i].pc = "file", ![i].todo = DOMAIN dir, ![i].seen = DOMAIN dir]
  BY JobFacts DEF Walk
<1>2. /\ job'[i] = [job[i] EXCEPT !.pc = "file", !.todo = DOMAIN dir, !.seen = DOMAIN dir]
      /\ \A k \in Jobs \ {i} : job'[k] = job[k]
  BY <1>1
<1> PICK r, s : r = job[i] /\ s = job'[i]
  OBVIOUS
<1>3. /\ s.pc = "file" /\ s.todo = DOMAIN dir /\ s.seen = DOMAIN dir /\ s.calm = r.calm /\ s.existing = r.existing
      /\ s.prev = r.prev /\ s.id = r.id /\ s.path = r.path
  BY <1>1, <1>2 DEF IsJob
<1>4. NamesOK(s)
  BY <1>3 DEF MirrorInv, NamesOK
<1>5. RunOK(s)
  <2>1. RunOK(r) /\ r.pc = "list"
    BY <1>1 DEF MirrorInv
  <2>2. ASSUME NEW p \in s.calm PROVE CalmOK(s, p)
    <3>1. Listed(r, p)
      BY <1>3, <2>1 DEF RunOK, CalmOK
    <3> QED BY <1>3, <3>1 DEF CalmOK, Listed
  <2> QED BY <1>3, <2>1, <2>2 DEF RunOK, MirrorInv
<1>6. \A d, id : Placed(d, id)' => Placed(d, id)
  BY <1>1, <1>2, <1>3, PlacedKept
<1> QED BY <1>1, <1>2, <1>4, <1>5, <1>6, QuietMirror

LEMMA EndsMirror == ASSUME IndexInv, MirrorInv, NEW j \in Jobs, FileGone(j) \/ EndIndex(j) \/ EndUpload(j) PROVE MirrorInv'
<1>1. job' = [job EXCEPT ![j] = Idle] /\ UNCHANGED <<dir, files, chunks>> /\ DOMAIN job = Jobs
  BY DEF FileGone, EndIndex, EndUpload, IndexInv
<1>2. job'[j] = Idle /\ Idle.pc = "idle" /\ \A k \in Jobs \ {j} : job'[k] = job[k]
  BY <1>1, IdleTyped
<1>3. \A d, id : Placed(d, id)' => Placed(d, id)
  BY <1>1, <1>2, PlacedKept
<1> QED BY <1>1, <1>2, <1>3, QuietMirror, IdleOK

LEMMA PlanMirrors == ASSUME IndexInv, MirrorInv, NEW u \in Uploaders, Plan(u) PROVE MirrorInv'
<1> DEFINE r == [Idle EXCEPT !.pc = "file", !.todo = ToTransfer(u)]
<1>1. u \in Jobs /\ u \notin Indexers
  BY IndexAssumption DEF Jobs
<1>2. job' = [job EXCEPT ![u] = r] /\ UNCHANGED <<dir, files, chunks>> /\ DOMAIN job = Jobs
  BY DEF Plan, IndexInv
<1>3. r.pc = "file" /\ r.prev = Idle.prev /\ r.id = Idle.id /\ r.path = Idle.path /\ r.existing = Idle.existing
  BY DEF Idle
<1> HIDE DEF r
<1>4. NamesOK(r)
  BY <1>3, IdleOK DEF NamesOK
<1>5. job'[u] = r /\ \A k \in Jobs \ {u} : job'[k] = job[k]
  BY <1>1, <1>2
<1>6. \A d, id : Placed(d, id)' => Placed(d, id)
  BY <1>2, <1>3, <1>5, PlacedKept
<1> QED BY <1>1, <1>2, <1>4, <1>5, <1>6, QuietMirror

LEMMA SelectMirrors == ASSUME IndexInv, MirrorInv, NEW j \in Jobs, Select(j) PROVE MirrorInv'
<1>1. /\ IsJob(job[j]) /\ DOMAIN job = Jobs /\ job[j].pc = "file" /\ UNCHANGED <<dir, files, chunks>>
  BY JobFacts DEF Select
<1>2. NamesOK(job[j]) /\ (j \in Indexers => RunOK(job[j]))
  BY DEF MirrorInv
<1>3. CASE job' = [job EXCEPT ![j] = Idle]
  <2>1. job'[j] = Idle /\ Idle.pc = "idle" /\ \A k \in Jobs \ {j} : job'[k] = job[k]
    BY <1>1, <1>3, IdleTyped
  <2>2. \A d, id : Placed(d, id)' => Placed(d, id)
    BY <1>1, <2>1, PlacedKept
  <2> QED BY <1>1, <2>1, <2>2, QuietMirror, IdleOK
<1>4. ASSUME NEW p \in job[j].todo, NEW v, v = Bytes(j, p), j \in Indexers => p \in DOMAIN dir /\ SameText(p, Text[v]),
             job' = [job EXCEPT ![j].todo = @ \ {p}]
      PROVE  MirrorInv'
  <2>1. job'[j] = [job[j] EXCEPT !.todo = @ \ {p}] /\ \A k \in Jobs \ {j} : job'[k] = job[k]
    BY <1>1, <1>4
  <2> PICK r, s : r = job[j] /\ s = job'[j]
    OBVIOUS
  <2>2. /\ s.pc = "file" /\ s.todo = r.todo \ {p} /\ s.seen = r.seen /\ s.calm = r.calm /\ s.existing = r.existing
        /\ s.prev = r.prev /\ s.id = r.id /\ s.path = r.path
    BY <1>1, <2>1 DEF IsJob
  <2>3. NamesOK(s)
    BY <1>2, <2>2 DEF NamesOK
  <2>4. ASSUME j \in Indexers PROVE RunOK(s)
    <3>1. v = dir[p] /\ p \in DOMAIN files /\ files[p].sum = Text[v]
      BY <1>4, <2>4, IndexAssumption DEF Bytes, SameText
    <3>2. RunOK(r)
      BY <1>2, <2>4
    <3>3. ASSUME NEW q \in s.calm PROVE CalmOK(s, q)
      <4>1. CalmOK(r, q)
        BY <2>2, <3>2 DEF RunOK
      <4> QED BY <1>1, <2>2, <3>1, <4>1 DEF CalmOK, Listed
    <3> QED BY <2>2, <3>2, <3>3 DEF RunOK
  <2>5. \A d, id : Placed(d, id)' => Placed(d, id)
    BY <1>1, <2>1, <2>2, PlacedKept
  <2> QED BY <1>1, <2>1, <2>3, <2>4, <2>5, QuietMirror
<1>5. ASSUME NEW p \in job[j].todo, NEW v, v = Bytes(j, p), j \in Indexers => p \in DOMAIN dir,
             job' = [job EXCEPT ![j] = [[job[j] EXCEPT !.path = p] EXCEPT
                       !.pc = "store", !.ver = v, !.prev = IF p \in DOMAIN files THEN files[p].id ELSE 0]]
      PROVE  MirrorInv'
  <2>1. PICK e : e = IF p \in DOMAIN files THEN files[p].id ELSE 0
    OBVIOUS
  <2>2. /\ job'[j] = [[job[j] EXCEPT !.path = p] EXCEPT !.pc = "store", !.ver = v, !.prev = e]
        /\ \A k \in Jobs \ {j} : job'[k] = job[k]
    BY <1>1, <1>5, <2>1
  <2> PICK r, s : r = job[j] /\ s = job'[j]
    OBVIOUS
  <2>3. /\ s.pc = "store" /\ s.todo = r.todo /\ s.seen = r.seen /\ s.calm = r.calm /\ s.existing = r.existing
        /\ s.prev = e /\ s.id = 0 /\ s.path = p /\ s.ver = v
    BY <1>1, <2>2, JobFacts DEF IsJob
  <2>4. NamesOK(s)
    <3>1. \A q \in DOMAIN files : files[q].id # 0
      BY FileTyped DEF IndexInv
    <3>2. \A q \in DOMAIN files : files[q].id = e => q = p
      BY <2>1, <3>1 DEF IndexInv, Tables
    <3> QED BY <1>2, <2>3, <3>1, <3>2 DEF NamesOK, Names
  <2>5. ASSUME j \in Indexers PROVE RunOK(s)
    <3>1. v = dir[p] /\ p \in DOMAIN dir
      BY <1>5, <2>5, IndexAssumption DEF Bytes
    <3>2. RunOK(r)
      BY <1>2, <2>5
    <3>3. ASSUME NEW q \in s.calm PROVE CalmOK(s, q)
      <4>1. CalmOK(r, q)
        BY <2>3, <3>2 DEF RunOK
      <4> QED BY <1>1, <2>1, <2>3, <3>1, <4>1 DEF CalmOK, Listed
    <3> QED BY <1>5, <2>3, <3>1, <3>2, <3>3 DEF RunOK
  <2>6. \A d, id : Placed(d, id)' => Placed(d, id)
    BY <1>1, <2>2, <2>3, PlacedKept
  <2> QED BY <1>1, <2>2, <2>4, <2>5, <2>6, QuietMirror
<1>6. j \in Indexers => j \notin Uploaders
  BY IndexAssumption
<1> QED BY <1>3, <1>4, <1>5, <1>6 DEF Select

LEMMA ClearMirrors == ASSUME IndexInv, MirrorInv, NEW j \in Jobs, Clear(j) PROVE MirrorInv'
<1>1. /\ IsJob(job[j]) /\ DOMAIN job = Jobs /\ job[j].pc = "clear" /\ UNCHANGED <<dir, files>> /\ chunks' \subseteq chunks
      /\ job' = [job EXCEPT ![j].pc = "chunk"]
  BY JobFacts DEF Clear
<1>2. job'[j] = [job[j] EXCEPT !.pc = "chunk"] /\ \A k \in Jobs \ {j} : job'[k] = job[k]
  BY <1>1
<1> PICK r, s : r = job[j] /\ s = job'[j]
  OBVIOUS
<1>3. /\ s.pc = "chunk" /\ s.todo = r.todo /\ s.seen = r.seen /\ s.calm = r.calm /\ s.existing = r.existing
      /\ s.prev = r.prev /\ s.id = r.id /\ s.path = r.path /\ s.ver = r.ver /\ s.draw = r.draw
  BY <1>1, <1>2 DEF IsJob
<1>4. NamesOK(s)
  BY <1>3 DEF MirrorInv, NamesOK
<1>5. ASSUME j \in Indexers PROVE RunOK(s)
  <2>1. RunOK(r)
    BY <1>5 DEF MirrorInv
  <2>2. \A p \in s.calm : CalmOK(r, p) => CalmOK(s, p)
    BY <1>1, <1>3 DEF CalmOK, Listed
  <2> QED BY <1>1, <1>3, <2>1, <2>2 DEF RunOK
<1>6. \A d, id : Placed(d, id)' => Placed(d, id)
  BY <1>1, <1>2, <1>3, PlacedKept
<1> QED BY <1>1, <1>2, <1>4, <1>5, <1>6, QuietMirror

LEMMA AddChunkMirrors == ASSUME IndexInv, MirrorInv, NEW j \in Jobs, AddChunk(j) PROVE MirrorInv'
<1>1. /\ IsJob(job[j]) /\ DOMAIN job = Jobs /\ job[j].pc = "chunk" /\ UNCHANGED <<dir, files>>
  BY JobFacts DEF AddChunk
<1>2. CASE Throws(j) /\ UNCHANGED chunks
  <2>1. /\ \A k \in Jobs \ {j} : job'[k] = job[k]
        /\ NamesOK(job'[j]) /\ (j \in Indexers => RunOK(job'[j]))
    BY <1>1, <1>2, ThrowMirrors
  <2>2. job'[j].pc \notin {"clear", "chunk"}
    BY <1>2, ThrowsPutsDown DEF PutsDown
  <2>3. \A d, id : Placed(d, id)' => Placed(d, id)
    BY <1>2, <2>1, <2>2, PlacedKept
  <2> QED BY <1>1, <2>1, <2>3, QuietMirror
<1>3. ASSUME NEW new, new.draw = job[j].draw, new.file = job[j].id, chunks' = chunks \cup {new},
             job' = [job EXCEPT ![j].n = @ + 1]
      PROVE  MirrorInv'
  <2>1. job'[j] = [job[j] EXCEPT !.n = @ + 1] /\ \A k \in Jobs \ {j} : job'[k] = job[k]
    BY <1>1, <1>3
  <2> PICK r, s : r = job[j] /\ s = job'[j]
    OBVIOUS
  <2>2. Calmer(s, r)
    BY <1>1, <2>1 DEF IsJob, Calmer
  <2>3. NamesOK(s)
    BY <2>2 DEF MirrorInv, NamesOK, Calmer
  <2>4. ASSUME j \in Indexers PROVE RunOK(s)
    <3>1. RunOK(r)
      BY <2>4 DEF MirrorInv
    <3>2. \A p \in s.calm : CalmOK(r, p) => CalmOK(s, p)
      BY <2>2 DEF CalmOK, Listed, Calmer
    <3> QED BY <2>2, <3>1, <3>2 DEF RunOK, Calmer
  <2>5. \A d, id : Placed(d, id)' => Placed(d, id)
    BY <1>1, <1>3, <2>1, <2>2, PlacedKept DEF Calmer
  <2> QED BY <1>1, <2>1, <2>3, <2>4, <2>5, QuietMirror
<1> QED BY <1>2, <1>3 DEF AddChunk

\* An embedding changes nothing else about a chunk.
LEMMA EmbedMoves ==
  ASSUME IndexInv, NEW j, Embed(j)
  PROVE  /\ \A d \in chunks' : \E c \in chunks : d.draw = c.draw /\ d.file = c.file
         /\ \A c \in chunks : c.draw # job[j].draw => c \in chunks'
<1> DEFINE F == [c \in chunks |-> IF c.draw = job[j].draw THEN [c EXCEPT !.emb = <<Text[job[j].ver], c.seq>>] ELSE c]
<1>1. \A c \in chunks : F[c].draw = c.draw /\ F[c].file = c.file /\ (c.draw # job[j].draw => F[c] = c)
  BY DEF IndexInv, Tables, Chunk
<1>2. chunks' = chunks \/ chunks' = {F[c] : c \in chunks}
  BY DEF Embed
<1> HIDE DEF F
<1> QED BY <1>1, <1>2

LEMMA AnswerMoves ==
  ASSUME IndexInv, NEW e, Answer(e)
  PROVE  \A d \in chunks' : \E c \in chunks : d.draw = c.draw /\ d.file = c.file
<1> DEFINE F == [c \in chunks |->
                   IF \E b \in sweep[e] : SameId(c, b)
                   THEN [c EXCEPT !.emb = LET b == CHOOSE b \in sweep[e] : SameId(c, b) IN <<b.text, b.seq>>] ELSE c]
<1>1. ASSUME NEW c \in chunks PROVE F[c].draw = c.draw /\ F[c].file = c.file
  <2>1. \A b : [c EXCEPT !.emb = b].draw = c.draw /\ [c EXCEPT !.emb = b].file = c.file
    BY DEF IndexInv, Tables, Chunk
  <2>2. F[c] = c \/ \E b : F[c] = [c EXCEPT !.emb = <<b.text, b.seq>>]
    OBVIOUS
  <2> HIDE DEF F
  <2> QED BY <2>1, <2>2
<1>2. chunks' = {F[c] : c \in chunks}
  BY DEF Answer
<1> HIDE DEF F
<1> QED BY <1>1, <1>2

LEMMA EmbedMirrors == ASSUME IndexInv, MirrorInv, NEW j \in Jobs, Embed(j) PROVE MirrorInv'
<1>1. /\ DOMAIN job = Jobs /\ job[j].pc = "chunk" /\ UNCHANGED <<dir, files>>
  BY JobFacts DEF Embed
<1>2. /\ \A k \in Jobs \ {j} : job'[k] = job[k]
      /\ NamesOK(job'[j]) /\ (j \in Indexers => RunOK(job'[j]))
      /\ job'[j].pc \notin {"clear", "chunk"}
  <2>1. CASE Throws(j)
    BY <1>1, <2>1, ThrowMirrors, ThrowsPutsDown DEF PutsDown
  <2>2. CASE job' = [job EXCEPT ![j] = NextFile(j)]
    <3> PICK r : r = NextFile(j)
      OBVIOUS
    <3>1. NamesOK(r) /\ (j \in Indexers => RunOK(r)) /\ r.pc = "file"
      BY <1>1, JobFacts, NextOK, NextFileTyped
    <3> QED BY <1>1, <2>2, <3>1
  <2> QED BY <2>1, <2>2 DEF Embed
<1>3. \A d, id : Placed(d, id)' => Placed(d, id)
  BY <1>2, EmbedMoves, PlacedKept
<1> QED BY <1>1, <1>2, <1>3, QuietMirror

LEMMA BreakMirrors == ASSUME IndexInv, MirrorInv, NEW j \in Jobs, Break(j) PROVE MirrorInv'
<1>1. UNCHANGED <<dir, files, chunks>> /\ Throws(j) /\ job[j].pc \in {"store", "clear", "chunk"}
  BY DEF Break
<1>2. /\ \A k \in Jobs \ {j} : job'[k] = job[k]
      /\ NamesOK(job'[j]) /\ (j \in Indexers => RunOK(job'[j]))
      /\ job'[j].pc \notin {"clear", "chunk"}
  BY <1>1, ThrowMirrors, ThrowsPutsDown DEF PutsDown
<1>3. \A d, id : Placed(d, id)' => Placed(d, id)
  BY <1>1, <1>2, PlacedKept
<1> QED BY <1>1, <1>2, <1>3, QuietMirror

\* A sweep touches no process and no row.
LEMMA SweepMirrors == ASSUME IndexInv, MirrorInv, NEW e, Ask(e) \/ Answer(e) \/ NoAnswer(e) PROVE MirrorInv'
<1>1. UNCHANGED <<dir, files, job>>
  BY DEF Ask, Answer, NoAnswer
<1>2. \A d \in chunks' : \E c \in chunks : d.draw = c.draw /\ d.file = c.file
  BY AnswerMoves DEF Ask, NoAnswer
<1>3. OneFile'
  <2>1. \A d, id : Placed(d, id)' => Placed(d, id)
    BY <1>1, <1>2 DEF Placed
  <2> QED BY <2>1, FilesKept DEF MirrorInv
<1> QED BY <1>1, <1>3 DEF MirrorInv, Indexed, NamesOK, Names, RunOK, CalmOK, Listed
---------------------------------------------------------------------------
(* Steps that change the rows or the directory *)

\* A row goes, and with it its chunks.
LEMMA EraseFacts ==
  ASSUME IndexInv, NEW p, NEW id, Names(id, p), Erase(id), dir' = dir
  PROVE  /\ RowsBut({}) /\ \A q : q # p => SameHere(q)
         /\ p \in DOMAIN files' => SameHere(p) /\ files[p].id # id
         /\ Indexed' \subseteq Indexed /\ chunks' \subseteq chunks
         /\ \A q \in DOMAIN files : files[q].id # id =>
              q \in DOMAIN files' /\ files'[q] = files[q] /\ ChunksOf(files[q].id) \subseteq chunks'
<1>1. /\ \A q : q \in DOMAIN files' <=> q \in DOMAIN files /\ files[q].id # id
      /\ \A q \in DOMAIN files' : files'[q] = files[q]
      /\ chunks' = chunks \ ChunksOf(id)
  BY DEF Erase
<1>2. \A q \in DOMAIN files : files[q].id = id => q = p
  BY DEF Names
<1>3. \A q \in DOMAIN files : files[q].id # id => ChunksOf(files[q].id) \subseteq chunks'
  BY <1>1 DEF ChunksOf
<1> QED BY <1>1, <1>2, <1>3 DEF RowsBut, SameHere, Indexed

LEMMA CalmedOthers ==
  ASSUME NEW r, IsJob(r), NEW p
  PROVE  LET s == [r EXCEPT !.calm = @ \ {p}] IN Calmer(s, r) /\ p \notin s.calm
BY DEF IsJob, Calmer

LEMMA DeleteMirrors == ASSUME IndexInv, MirrorInv, NEW p \in Paths, Delete(p) PROVE MirrorInv'
<1>1. /\ p \in DOMAIN files /\ Erase(files[p].id) /\ dir' = dir
      /\ job' = [j \in Jobs |-> [job[j] EXCEPT !.calm = @ \ {p}]]
  BY DEF Delete
<1>2. Names(files[p].id, p)
  BY <1>1 DEF Names, IndexInv, Tables
<1>3. /\ RowsBut({}) /\ \A q : q # p => SameHere(q)
      /\ Indexed' \subseteq Indexed /\ chunks' \subseteq chunks
  BY <1>1, <1>2, EraseFacts
<1>4. ASSUME NEW k \in Jobs PROVE Calmer(job'[k], job[k]) /\ p \notin job'[k].calm
  <2>1. IsJob(job[k]) /\ job'[k] = [job[k] EXCEPT !.calm = @ \ {p}]
    BY <1>1, JobFacts
  <2> QED BY <2>1, CalmedOthers
<1>5. ASSUME NEW k \in Jobs PROVE NamesOK(job[k])' /\ (k \in Indexers => RunOK(job[k])')
  <2>1. \A q \in job'[k].calm : SameHere(q)
    BY <1>3, <1>4
  <2> QED BY <1>3, <1>4, <2>1, OthersMirror
<1>6. \A d, f : Placed(d, f)' => Placed(d, f)
  BY <1>3, <1>4 DEF Placed, Calmer
<1>7. OneFile'
  BY <1>6, FilesKept DEF MirrorInv
<1> QED BY <1>1, <1>3, <1>5, <1>7 DEF MirrorInv, Jobs

LEMMA PruneFacts ==
  ASSUME IndexInv, MirrorInv, NEW i \in Jobs, Prune(i)
  PROVE  \E p \in DOMAIN job[i].existing \ job[i].seen :
           /\ Erase(job[i].existing[p]) /\ Names(job[i].existing[p], p) /\ p \in Mirror
           /\ dir' = dir /\ job[i].pc = "file"
           /\ \A k \in Jobs \ {i} : Calmer(job'[k], job[k]) /\ p \notin job'[k].calm
           /\ job'[i] = [job[i] EXCEPT !.existing = Restrict(@, DOMAIN @ \ {p})]
<1>1. PICK p \in DOMAIN job[i].existing \ job[i].seen :
        /\ Erase(job[i].existing[p])
        /\ job' = [Disturb(p, i) EXCEPT ![i].existing = Restrict(@, DOMAIN @ \ {p})]
  BY DEF Prune
<1>2. Names(job[i].existing[p], p) /\ p \in Mirror
  BY DEF MirrorInv, NamesOK, RunOK, Prune
<1> PICK D : D = Disturb(p, i)
  OBVIOUS
<1>3. DOMAIN D = Jobs /\ D[i] = job[i] /\ \A k \in Jobs \ {i} : D[k] = [job[k] EXCEPT !.calm = @ \ {p}]
  BY DEF Disturb
<1>4. /\ job'[i] = [job[i] EXCEPT !.existing = Restrict(@, DOMAIN @ \ {p})]
      /\ \A k \in Jobs \ {i} : job'[k] = [job[k] EXCEPT !.calm = @ \ {p}]
  BY <1>1, <1>3
<1>5. ASSUME NEW k \in Jobs \ {i} PROVE Calmer(job'[k], job[k]) /\ p \notin job'[k].calm
  <2>1. IsJob(job[k]) /\ job'[k] = [job[k] EXCEPT !.calm = @ \ {p}]
    BY <1>4, JobFacts
  <2> QED BY <2>1, CalmedOthers
<1> QED BY <1>1, <1>2, <1>4, <1>5 DEF Prune

LEMMA PruneMirrors == ASSUME IndexInv, MirrorInv, NEW i \in Jobs, Prune(i) PROVE MirrorInv'
<1>1. PICK p \in DOMAIN job[i].existing \ job[i].seen :
        /\ Erase(job[i].existing[p]) /\ Names(job[i].existing[p], p) /\ p \in Mirror
        /\ dir' = dir /\ job[i].pc = "file"
        /\ \A k \in Jobs \ {i} : Calmer(job'[k], job[k]) /\ p \notin job'[k].calm
        /\ job'[i] = [job[i] EXCEPT !.existing = Restrict(@, DOMAIN @ \ {p})]
  BY PruneFacts
<1>2. /\ RowsBut({}) /\ \A q : q # p => SameHere(q)
      /\ p \in DOMAIN files' => SameHere(p) /\ files[p].id # job[i].existing[p]
      /\ Indexed' \subseteq Indexed /\ chunks' \subseteq chunks
  BY <1>1, EraseFacts
<1>3. ASSUME NEW k \in Jobs \ {i} PROVE NamesOK(job[k])' /\ (k \in Indexers => RunOK(job[k])')
  <2>1. \A q \in job'[k].calm : SameHere(q)
    BY <1>1, <1>2
  <2> QED BY <1>1, <1>2, <2>1, OthersMirror
<1> PICK r, s : r = job[i] /\ s = job'[i]
  OBVIOUS
<1>4. /\ s.pc = r.pc /\ s.todo = r.todo /\ s.seen = r.seen /\ s.calm = r.calm /\ s.prev = r.prev /\ s.id = r.id
      /\ s.path = r.path /\ s.ver = r.ver /\ s.draw = r.draw
      /\ DOMAIN s.existing = DOMAIN r.existing \ {p} /\ \A q \in DOMAIN s.existing : s.existing[q] = r.existing[q]
  <2>1. IsJob(r) /\ s = [r EXCEPT !.existing = Restrict(r.existing, DOMAIN r.existing \ {p})]
    BY <1>1, JobFacts
  <2> QED BY <2>1 DEF IsJob, Restrict
<1>5. NamesOK(r)' /\ NamesOK(s)'
  <2>1. NamesOK(r)'
    BY <1>2, NamesKept DEF MirrorInv
  <2> QED BY <1>4, <2>1 DEF NamesOK, Names
<1>6. ASSUME i \in Indexers PROVE RunOK(s)'
  <2>1. RunOK(r) /\ r.pc = "file"
    BY <1>1, <1>6 DEF MirrorInv
  <2>2. ASSUME NEW q \in s.calm, q # p PROVE CalmOK(s, q)'
    <3>1. CalmOK(r, q) /\ SameHere(q)
      BY <1>2, <1>4, <2>1, <2>2 DEF RunOK
    <3>2. CalmOK(r, q)'
      BY <3>1, CalmKept DEF Calmer
    <3>3. Listed(r, q)' => Listed(s, q)'
      BY <1>4, <2>2 DEF Listed
    <3> QED BY <1>4, <2>1, <3>2, <3>3 DEF CalmOK
  <2>3. ASSUME p \in s.calm PROVE CalmOK(s, p)'
    <3>1. CalmOK(r, p)
      BY <1>4, <2>1, <2>3 DEF RunOK
    <3>2. p \notin r.seen /\ p \notin DOMAIN dir /\ Listed(r, p)
      BY <1>1, <2>1, <3>1 DEF CalmOK
    <3>3. p \notin Indexed'
      BY <1>2, <3>2 DEF Listed, Indexed, SameHere
    <3> QED BY <1>1, <1>4, <2>1, <3>2, <3>3 DEF CalmOK, Listed
  <2>4. \A q \in s.calm : CalmOK(s, q)'
    BY <2>2, <2>3
  <2> QED BY <1>4, <2>1, <2>4 DEF RunOK
<1>7. \A d, f : Placed(d, f)' => Placed(d, f)
  <2>1. \A k \in Jobs : job'[k].pc = job[k].pc /\ job'[k].draw = job[k].draw /\ job'[k].id = job[k].id
    BY <1>1, <1>4 DEF Calmer
  <2> QED BY <1>2, <2>1, PlacedCalm
<1>8. OneFile'
  BY <1>7, FilesKept DEF MirrorInv
<1>9. \A k \in Jobs : NamesOK(job[k])' /\ (k \in Indexers => RunOK(job[k])')
  BY <1>3, <1>5, <1>6
<1> QED BY <1>1, <1>2, <1>8, <1>9 DEF MirrorInv, Jobs

LEMMA FreshListed ==
  ASSUME NEW k, Fresh(k)
  PROVE  \A j \in Jobs : \A q \in DOMAIN job[j].existing : job[j].existing[q] # k
<1>1. \A j \in Jobs : Range(job[j].existing) \subseteq InUse
  BY DEF InUse
<1>2. k \notin InUse
  BY DEF Fresh
<1> QED BY <1>1, <1>2 DEF Range

LEMMA FreshOthers ==
  ASSUME MirrorInv, NEW k, Fresh(k), NEW p, RowsBut({k}), \A q : q # p => SameHere(q),
         NEW j \in Jobs, Calmer(job'[j], job[j]), p \notin job'[j].calm
  PROVE  NamesOK(job[j])' /\ (j \in Indexers => RunOK(job[j])')
<1>1. job[j].prev \notin {k} /\ job[j].id \notin {k} /\ \A q \in DOMAIN job[j].existing : job[j].existing[q] \notin {k}
  BY FreshFacts, FreshListed
<1>2. \A q \in job'[j].calm : SameHere(q)
  OBVIOUS
<1> QED BY <1>1, <1>2, OthersMirror

LEMMA RowFacts ==
  ASSUME NEW p, p \notin DOMAIN files, NEW row, files' = With(p, row), dir' = dir
  PROVE  /\ RowsBut({row.id}) /\ \A q : q # p => SameHere(q)
         /\ DOMAIN files' = DOMAIN files \cup {p} /\ files'[p] = row
         /\ \A q \in DOMAIN files : files'[q] = files[q]
BY DEF RowsBut, With, SameHere

LEMMA CreateMirrors == ASSUME IndexInv, MirrorInv, NEW p \in Paths, NEW v \in Versions, Create(p, v) PROVE MirrorInv'
<1>1. /\ p \notin DOMAIN files /\ dir' = dir /\ job' = [j \in Jobs |-> [job[j] EXCEPT !.calm = @ \ {p}]]
  BY DEF Create
<1>2. PICK k \in Keys :
        /\ Fresh(k)
        /\ files' = With(p, [id |-> k, sum |-> Text[v], blob |-> None, origin |-> "api"])
        /\ chunks' = chunks \cup {[draw |-> k, file |-> k, seq |-> n, text |-> Text[v], emb |-> <<>>] :
                                  n \in 0 .. Size[Text[v]] - 1}
  BY DEF Create
<1> PICK row : row = [id |-> k, sum |-> Text[v], blob |-> None, origin |-> "api"]
  OBVIOUS
<1>3. row.id = k /\ row.origin = "api" /\ files' = With(p, row)
  BY <1>2
<1>4. /\ RowsBut({k}) /\ \A q : q # p => SameHere(q)
      /\ DOMAIN files' = DOMAIN files \cup {p} /\ files'[p] = row
      /\ \A q \in DOMAIN files : files'[q] = files[q]
  BY <1>1, <1>3, RowFacts
<1>5. ASSUME NEW j \in Jobs PROVE Calmer(job'[j], job[j]) /\ p \notin job'[j].calm
  <2>1. IsJob(job[j]) /\ job'[j] = [job[j] EXCEPT !.calm = @ \ {p}]
    BY <1>1, JobFacts
  <2> QED BY <2>1, CalmedOthers
<1>6. \A j \in Jobs : NamesOK(job[j])' /\ (j \in Indexers => RunOK(job[j])')
  BY <1>2, <1>4, <1>5, FreshOthers
<1>7. \A d, f : Placed(d, f)' => Placed(d, f) \/ (d = k /\ f = k)
  <2>1. \A c \in chunks' : c \in chunks \/ (c.draw = k /\ c.file = k)
    BY <1>2
  <2> QED BY <1>5, <2>1 DEF Placed, Calmer
<1>8. OneFile'
  BY <1>2, <1>7, FilesFresh DEF MirrorInv
<1>9. Indexed' \subseteq Mirror
  BY <1>3, <1>4 DEF Indexed, MirrorInv
<1> QED BY <1>1, <1>6, <1>8, <1>9 DEF MirrorInv, Jobs

LEMMA EditMirrors == ASSUME IndexInv, MirrorInv, NEW p \in Mirror, Edit(p) PROVE MirrorInv'
<1>1. /\ UNCHANGED <<files, chunks>> /\ job' = [j \in Jobs |-> [job[j] EXCEPT !.calm = @ \ {p}]]
  BY DEF Edit
<1>2. /\ DOMAIN dir' \subseteq Mirror
      /\ \A q : q # p => (q \in DOMAIN dir' <=> q \in DOMAIN dir) /\ (q \in DOMAIN dir => dir'[q] = dir[q])
  <2>1. CASE \E v \in Versions : dir' = [q \in DOMAIN dir \cup {p} |-> IF q = p THEN v ELSE dir[q]]
    BY <2>1 DEF MirrorInv
  <2>2. CASE dir' = Restrict(dir, DOMAIN dir \ {p})
    BY <2>2 DEF MirrorInv, Restrict
  <2> QED BY <2>1, <2>2 DEF Edit
<1>3. RowsBut({}) /\ \A q : q # p => SameHere(q)
  BY <1>1, <1>2 DEF RowsBut, SameHere
<1>4. ASSUME NEW j \in Jobs PROVE Calmer(job'[j], job[j]) /\ p \notin job'[j].calm
  <2>1. IsJob(job[j]) /\ job'[j] = [job[j] EXCEPT !.calm = @ \ {p}]
    BY <1>1, JobFacts
  <2> QED BY <2>1, CalmedOthers
<1>5. ASSUME NEW j \in Jobs PROVE NamesOK(job[j])' /\ (j \in Indexers => RunOK(job[j])')
  <2>1. \A q \in job'[j].calm : SameHere(q)
    BY <1>3, <1>4
  <2> QED BY <1>3, <1>4, <2>1, OthersMirror
<1>6. \A d, f : Placed(d, f)' => Placed(d, f)
  <2>1. \A k \in Jobs : job'[k].pc = job[k].pc /\ job'[k].draw = job[k].draw /\ job'[k].id = job[k].id
    BY <1>4 DEF Calmer
  <2> QED BY <1>1, <2>1, PlacedCalm
<1>7. OneFile'
  BY <1>6, FilesKept DEF MirrorInv
<1>8. Indexed' \subseteq Mirror
  BY <1>1 DEF Indexed, MirrorInv
<1> QED BY <1>2, <1>5, <1>7, <1>8 DEF MirrorInv, Jobs

\* j writes the row at its path; to the others that path is no longer calm.
LEMMA DisturbOthers ==
  ASSUME IndexInv, NEW p, NEW j \in Jobs, NEW D, D = Disturb(p, j)
  PROVE  /\ DOMAIN D = Jobs /\ D[j] = job[j]
         /\ \A k \in Jobs \ {j} : Calmer(D[k], job[k]) /\ p \notin D[k].calm
<1>1. DOMAIN D = Jobs /\ D[j] = job[j] /\ \A k \in Jobs \ {j} : D[k] = [job[k] EXCEPT !.calm = @ \ {p}]
  BY DEF Disturb
<1>2. ASSUME NEW k \in Jobs \ {j} PROVE Calmer(D[k], job[k]) /\ p \notin D[k].calm
  <2>1. IsJob(job[k]) /\ D[k] = [job[k] EXCEPT !.calm = @ \ {p}]
    BY <1>1, JobFacts
  <2> QED BY <2>1, CalmedOthers
<1> QED BY <1>1, <1>2

LEMMA InsertMirrors == ASSUME IndexInv, MirrorInv, NEW j \in Jobs, StoreInsert(j) PROVE MirrorInv'
<1>1. /\ IsJob(job[j]) /\ JobOK(j) /\ DOMAIN job = Jobs /\ job[j].pc = "store" /\ UNCHANGED <<dir, chunks>>
      /\ job[j].prev = 0 /\ job[j].id = 0
  BY JobFacts DEF StoreInsert
<1>2. CASE Throws(j) /\ UNCHANGED files
  <2>1. /\ \A k \in Jobs \ {j} : job'[k] = job[k]
        /\ NamesOK(job'[j]) /\ (j \in Indexers => RunOK(job'[j]))
        /\ job'[j].pc \notin {"clear", "chunk"}
    BY <1>1, <1>2, ThrowMirrors, ThrowsPutsDown DEF PutsDown
  <2>2. \A d, id : Placed(d, id)' => Placed(d, id)
    BY <1>1, <2>1, PlacedKept
  <2> QED BY <1>1, <1>2, <2>1, <2>2, QuietMirror
<1>3. ASSUME NEW p, p = job[j].path, p \notin DOMAIN files, NEW k \in Keys, Fresh(k), NEW row,
             row = [id |-> k, sum |-> Text[job[j].ver], blob |-> job[j].ver, origin |-> Origin(j)],
             files' = With(p, row),
             job' = [Disturb(p, j) EXCEPT ![j].pc = "chunk", ![j].id = k, ![j].draw = k]
      PROVE  MirrorInv'
  <2>1. row.id = k /\ row.sum = Text[job[j].ver] /\ row.origin = Origin(j)
    BY <1>3
  <2>2. /\ RowsBut({k}) /\ \A q : q # p => SameHere(q)
        /\ DOMAIN files' = DOMAIN files \cup {p} /\ files'[p] = row
        /\ \A q \in DOMAIN files : files'[q] = files[q]
    BY <1>1, <1>3, <2>1, RowFacts
  <2> PICK D : D = Disturb(p, j)
    OBVIOUS
  <2>3. /\ DOMAIN D = Jobs /\ D[j] = job[j]
        /\ \A i \in Jobs \ {j} : Calmer(D[i], job[i]) /\ p \notin D[i].calm
    BY DisturbOthers
  <2>4. /\ \A i \in Jobs \ {j} : job'[i] = D[i]
        /\ job'[j] = [job[j] EXCEPT !.pc = "chunk", !.id = k, !.draw = k]
    BY <1>3, <2>3
  <2>5. \A i \in Jobs \ {j} : NamesOK(job[i])' /\ (i \in Indexers => RunOK(job[i])')
    BY <1>3, <2>2, <2>3, <2>4, FreshOthers
  <2> PICK r, s : r = job[j] /\ s = job'[j]
    OBVIOUS
  <2>6. /\ s.pc = "chunk" /\ s.id = k /\ s.draw = k /\ s.prev = r.prev /\ s.path = r.path /\ s.ver = r.ver
        /\ s.todo = r.todo /\ s.seen = r.seen /\ s.calm = r.calm /\ s.existing = r.existing
    BY <1>1, <2>4 DEF IsJob
  <2>7. NamesOK(s)'
    <3>1. NamesOK(r)
      BY DEF MirrorInv
    <3>2. r.prev \notin {k} /\ r.id \notin {k} /\ \A q \in DOMAIN r.existing : r.existing[q] \notin {k}
      BY <1>3, FreshFacts, FreshListed
    <3>3. NamesOK(r)'
      BY <2>2, <3>1, <3>2, NamesKept
    <3>4. Names(k, p)'
      <4>1. \A q \in DOMAIN files : files[q].id # k
        BY <1>3, FreshFacts DEF Stored
      <4> QED BY <2>2, <4>1 DEF Names
    <3> QED BY <1>3, <2>6, <3>3, <3>4 DEF NamesOK
  <2>8. ASSUME j \in Indexers PROVE RunOK(s)' /\ p \in Mirror
    <3>1. RunOK(r) /\ r.pc = "store"
      BY <1>1, <2>8 DEF MirrorInv
    <3>2. ASSUME NEW q \in s.calm, q # p PROVE CalmOK(s, q)'
      <4>1. CalmOK(r, q) /\ SameHere(q)
        BY <2>2, <2>6, <3>1, <3>2 DEF RunOK
      <4>2. CalmOK(r, q)'
        BY <4>1, CalmKept DEF Calmer
      <4> QED BY <1>3, <2>6, <3>1, <3>2, <4>2 DEF CalmOK, Listed
    <3>3. ASSUME p \in s.calm PROVE CalmOK(s, p)'
      <4>1. CalmOK(r, p)
        BY <2>6, <3>1, <3>3 DEF RunOK
      <4>2. p \in DOMAIN dir /\ r.ver = dir[p] /\ (p \in r.seen <=> p \in DOMAIN dir)
        BY <1>3, <3>1, <4>1 DEF CalmOK
      <4> QED BY <1>1, <1>3, <2>1, <2>2, <2>6, <4>2 DEF CalmOK
    <3>4. \A q \in s.calm : CalmOK(s, q)'
      BY <3>2, <3>3
    <3>5. p \in Mirror
      BY <1>3, <3>1 DEF RunOK
    <3> QED BY <1>3, <2>6, <3>1, <3>4, <3>5 DEF RunOK
  <2>9. Indexed' \subseteq Mirror
    <3>1. row.origin = "index" => j \in Indexers
      BY <2>1 DEF Origin, Jobs
    <3> QED BY <2>2, <2>8, <3>1 DEF Indexed, MirrorInv
  <2>10. \A d, f : Placed(d, f)' => Placed(d, f) \/ (d = k /\ f = k)
    <3>1. \A i \in Jobs \ {j} : Calmer(job'[i], job[i])
      BY <2>3, <2>4
    <3> QED BY <1>1, <2>6, <3>1, PlacedNew
  <2>11. OneFile'
    BY <1>3, <2>10, FilesFresh DEF MirrorInv
  <2>12. \A i \in Jobs : NamesOK(job[i])' /\ (i \in Indexers => RunOK(job[i])')
    BY <2>5, <2>7, <2>8
  <2> QED BY <1>1, <2>9, <2>11, <2>12 DEF MirrorInv, Jobs
<1> QED BY <1>2, <1>3 DEF StoreInsert

LEMMA UpdateMirrors == ASSUME IndexInv, MirrorInv, NEW j \in Jobs, StoreUpdate(j) PROVE MirrorInv'
<1> PICK r, s, p, f, v : r = job[j] /\ s = job'[j] /\ p = r.path /\ f = r.prev /\ v = r.ver
  OBVIOUS
<1>1. /\ IsJob(r) /\ DOMAIN job = Jobs /\ r.pc = "store" /\ f # 0 /\ UNCHANGED <<dir, chunks>>
      /\ files' = [q \in DOMAIN files |-> IF files[q].id = f
                                          THEN [files[q] EXCEPT !.sum = Text[v], !.blob = v, !.origin = Origin(j)]
                                          ELSE files[q]]
  BY JobFacts DEF StoreUpdate
<1>2. PICK k \in Keys :
        /\ Fresh(k)
        /\ job' = [Disturb(p, j) EXCEPT ![j].pc = "clear", ![j].id = f, ![j].draw = k, ![j].prev = 0]
  BY DEF StoreUpdate
<1> PICK D : D = Disturb(p, j)
  OBVIOUS
<1>3. /\ DOMAIN D = Jobs /\ D[j] = r
      /\ \A i \in Jobs \ {j} : Calmer(D[i], job[i]) /\ p \notin D[i].calm
  BY DisturbOthers
<1>4. /\ \A i \in Jobs \ {j} : job'[i] = D[i]
      /\ s = [r EXCEPT !.pc = "clear", !.id = f, !.draw = k, !.prev = 0]
  BY <1>2, <1>3
<1>5. /\ s.pc = "clear" /\ s.id = f /\ s.draw = k /\ s.prev = 0 /\ s.path = p /\ s.ver = v
      /\ s.todo = r.todo /\ s.seen = r.seen /\ s.calm = r.calm /\ s.existing = r.existing
  BY <1>1, <1>4 DEF IsJob
<1>6. NamesOK(r) /\ \A q \in DOMAIN files : files[q].id = f => q = p
  BY DEF MirrorInv, NamesOK, Names
<1>7. /\ DOMAIN files' = DOMAIN files
      /\ \A q \in DOMAIN files : files[q].id # f => files'[q] = files[q]
      /\ \A q \in DOMAIN files : files[q].id = f =>
           files'[q].id = f /\ files'[q].sum = Text[v] /\ files'[q].origin = Origin(j)
  <2>1. \A q \in DOMAIN files : files[q] \in File
    BY FileTyped DEF IndexInv
  <2>2. \A q \in DOMAIN files : files[q].id = f =>
           files'[q] = [files[q] EXCEPT !.sum = Text[v], !.blob = v, !.origin = Origin(j)]
    BY <1>1
  <2>3. \A q \in DOMAIN files : files[q].id = f =>
           files'[q].id = f /\ files'[q].sum = Text[v] /\ files'[q].origin = Origin(j)
    BY <2>1, <2>2 DEF File
  <2> QED BY <1>1, <2>3
<1>8. RowsBut({}) /\ \A q : q # p => SameHere(q)
  BY <1>1, <1>6, <1>7 DEF RowsBut, SameHere
<1>9. ASSUME NEW i \in Jobs \ {j} PROVE NamesOK(job[i])' /\ (i \in Indexers => RunOK(job[i])')
  <2>1. Calmer(job'[i], job[i]) /\ \A q \in job'[i].calm : SameHere(q)
    BY <1>3, <1>4, <1>8
  <2> QED BY <1>8, <2>1, OthersMirror
<1>10. NamesOK(s)'
  <2>1. NamesOK(r)'
    BY <1>6, <1>8, NamesKept
  <2>2. \A q \in DOMAIN files' : files'[q].id # 0
    BY <1>1, <1>7, FileTyped DEF IndexInv
  <2> QED BY <1>5, <2>1, <2>2 DEF NamesOK, Names
<1>11. ASSUME j \in Indexers PROVE RunOK(s)' /\ p \in Mirror
  <2>1. RunOK(r)
    BY <1>11 DEF MirrorInv
  <2>2. ASSUME NEW q \in s.calm, q # p PROVE CalmOK(s, q)'
    <3>1. CalmOK(r, q) /\ SameHere(q)
      BY <1>5, <1>8, <2>1, <2>2 DEF RunOK
    <3>2. CalmOK(r, q)'
      BY <3>1, CalmKept DEF Calmer
    <3> QED BY <1>1, <1>5, <2>2, <3>2 DEF CalmOK, Listed
  <2>3. ASSUME p \in s.calm PROVE CalmOK(s, p)'
    <3>1. CalmOK(r, p)
      BY <1>5, <2>1, <2>3 DEF RunOK
    <3>2. /\ p \in DOMAIN dir /\ v = dir[p] /\ (p \in r.seen <=> p \in DOMAIN dir)
          /\ p \in DOMAIN files /\ files[p].id = f
      BY <1>1, <3>1 DEF CalmOK
    <3> QED BY <1>1, <1>5, <1>7, <3>2 DEF CalmOK
  <2>4. \A q \in s.calm : CalmOK(s, q)'
    BY <2>2, <2>3
  <2>5. p \in Mirror
    BY <1>1, <2>1 DEF RunOK
  <2> QED BY <1>5, <2>1, <2>4, <2>5 DEF RunOK
<1>12. Indexed' \subseteq Mirror
  <2>1. Origin(j) = "index" => j \in Indexers
    BY DEF Origin, Jobs
  <2> QED BY <1>6, <1>7, <1>11, <2>1 DEF Indexed, MirrorInv
<1>13. \A d, g : Placed(d, g)' => Placed(d, g) \/ (d = k /\ g = f)
  <2>1. \A i \in Jobs \ {j} : Calmer(job'[i], job[i])
    BY <1>3, <1>4
  <2>2. job'[j].draw = k /\ job'[j].id = f /\ \A c \in chunks' : c \in chunks
    BY <1>1, <1>5
  <2> QED BY <2>1, <2>2, PlacedNew
<1>14. OneFile'
  BY <1>2, <1>13, FilesFresh DEF MirrorInv
<1>15. \A i \in Jobs : NamesOK(job[i])' /\ (i \in Indexers => RunOK(job[i])')
  BY <1>9, <1>10, <1>11
<1> QED BY <1>1, <1>12, <1>14, <1>15 DEF MirrorInv, Jobs
LEMMA MirrorStep == IndexInv /\ MirrorInv /\ [Next]_vars => MirrorInv'
<1> SUFFICES ASSUME IndexInv, MirrorInv, [Next]_vars PROVE MirrorInv'
  OBVIOUS
<1>1. \A j \in Indexers \cup Uploaders : j \in Jobs
  BY DEF Jobs
<1>2. ASSUME NEW i \in Indexers, BeginIndex(i) \/ Walk(i) \/ FileGone(i) \/ Prune(i) \/ EndIndex(i) PROVE MirrorInv'
  BY <1>1, <1>2, BeginMirrors, WalkMirrors, EndsMirror, PruneMirrors
<1>3. ASSUME NEW u \in Uploaders, Plan(u) \/ EndUpload(u) PROVE MirrorInv'
  BY <1>1, <1>3, PlanMirrors, EndsMirror
<1>4. ASSUME NEW j \in Jobs, Ingest(j) \/ Break(j) PROVE MirrorInv'
  BY <1>4, SelectMirrors, UpdateMirrors, InsertMirrors, ClearMirrors, AddChunkMirrors, EmbedMirrors, BreakMirrors
     DEF Ingest
<1>5. ASSUME NEW p \in Paths, (\E v \in Versions : Create(p, v)) \/ Delete(p) PROVE MirrorInv'
  BY <1>5, CreateMirrors, DeleteMirrors
<1>6. ASSUME NEW p \in Mirror, Edit(p) PROVE MirrorInv'
  BY <1>6, EditMirrors
<1>7. ASSUME NEW e \in Sweepers, Ask(e) \/ Answer(e) \/ NoAnswer(e) PROVE MirrorInv'
  BY <1>7, SweepMirrors
<1>8. ASSUME UNCHANGED vars PROVE MirrorInv'
  <2>1. UNCHANGED <<dir, files, chunks, job>>
    BY <1>8 DEF vars
  <2> QED BY <2>1 DEF MirrorInv, Indexed, OneFile, Placed, NamesOK, Names, RunOK, CalmOK, Listed
<1> QED BY <1>2, <1>3, <1>4, <1>5, <1>6, <1>7, <1>8 DEF Next, Done

---------------------------------------------------------------------------
(* What a run leaves alone, and what it leaves behind *)

\* The document at p, and what is found of it, is what it was.
Kept(p) == p \in DOMAIN files' /\ files'[p] = files[p] /\ ChunksOf(files[p].id) \subseteq chunks'

\* A step that changes what an index run is doing is a call, or keeps each document outside
\* the directory.
Leaves == \A i \in Indexers : job'[i] # job[i] /\ calls' = calls => \A p \in DOMAIN files \ Mirror : Kept(p)

LEMMA SameKept == ASSUME UNCHANGED <<files, chunks>> PROVE Leaves
BY DEF Leaves, Kept, ChunksOf

LEMMA CallLeaves == ASSUME IndexInv, Call PROVE Leaves
<1>1. calls \in Int
  BY IndexAssumption DEF IndexInv, Tables
<1>2. calls' # calls
  BY <1>1 DEF Call
<1> QED BY <1>2 DEF Leaves

LEMMA PruneLeaves == ASSUME IndexInv, MirrorInv, NEW i \in Jobs, Prune(i) PROVE Leaves
<1>1. PICK p \in DOMAIN job[i].existing \ job[i].seen :
        Erase(job[i].existing[p]) /\ Names(job[i].existing[p], p) /\ p \in Mirror /\ dir' = dir
  BY PruneFacts
<1>2. \A q \in DOMAIN files : files[q].id # job[i].existing[p] =>
              q \in DOMAIN files' /\ files'[q] = files[q] /\ ChunksOf(files[q].id) \subseteq chunks'
  BY <1>1, EraseFacts
<1>3. \A q \in DOMAIN files \ Mirror : files[q].id # job[i].existing[p]
  BY <1>1 DEF Names
<1> QED BY <1>2, <1>3 DEF Leaves, Kept

\* Who disturbs a run writes in its directory.
LEMMA DisturbedIn ==
  ASSUME IndexInv, MirrorInv, NEW j \in Jobs, job[j].pc = "store", NEW D, D = Disturb(job[j].path, j),
         \A k \in Jobs \ {j} : job'[k] = D[k]
  PROVE  \A i \in Indexers : job'[i] # job[i] => job[j].path \in Mirror
<1> SUFFICES ASSUME NEW i \in Indexers, job[j].path \notin Mirror PROVE job'[i] = job[i]
  OBVIOUS
<1>1. i \in Jobs /\ RunOK(job[i]) /\ IsJob(job[i])
  BY JobFacts DEF Jobs, MirrorInv
<1>2. i # j
  BY <1>1 DEF MirrorInv, RunOK
<1>3. job'[i] = [job[i] EXCEPT !.calm = @ \ {job[j].path}]
  BY <1>1, <1>2 DEF Disturb
<1> PICK r, c : r = job[i] /\ c = r.calm
  OBVIOUS
<1>4. c \ {job[j].path} = c
  BY <1>1 DEF RunOK
<1>5. job'[i] = [r EXCEPT !.calm = c]
  BY <1>3, <1>4
<1>6. [r EXCEPT !.calm = r.calm] = r
  BY <1>1 DEF IsJob
<1> QED BY <1>5, <1>6

LEMMA StoreLeaves == ASSUME IndexInv, MirrorInv, NEW j \in Jobs, StoreUpdate(j) \/ StoreInsert(j) PROVE Leaves
<1> PICK p, f : p = job[j].path /\ f = job[j].prev
  OBVIOUS
<1> PICK D : D = Disturb(p, j)
  OBVIOUS
<1>1. DOMAIN D = Jobs
  BY DEF Disturb
<1>2. CASE StoreUpdate(j)
  <2>1. /\ job[j].pc = "store" /\ chunks' = chunks
        /\ DOMAIN files' = DOMAIN files /\ \A q \in DOMAIN files : files[q].id # f => files'[q] = files[q]
    BY <1>2 DEF StoreUpdate
  <2>2. PICK k : job' = [D EXCEPT ![j].pc = "clear", ![j].id = f, ![j].draw = k, ![j].prev = 0]
    BY <1>2 DEF StoreUpdate
  <2>3. \A i \in Jobs \ {j} : job'[i] = D[i]
    BY <1>1, <2>2
  <2>4. \A i \in Indexers : job'[i] # job[i] => p \in Mirror
    BY <2>1, <2>3, DisturbedIn
  <2>5. \A q \in DOMAIN files : files[q].id = f => q = p
    BY DEF MirrorInv, NamesOK, Names
  <2> QED BY <2>1, <2>4, <2>5 DEF Leaves, Kept, ChunksOf
<1>3. CASE StoreInsert(j)
  <2>1. CASE UNCHANGED files
    BY <1>3, <2>1, SameKept DEF StoreInsert
  <2>2. ASSUME NEW row, p \notin DOMAIN files, files' = With(p, row) PROVE Leaves
    <3>1. \A q \in DOMAIN files : q \in DOMAIN files' /\ files'[q] = files[q]
      BY <2>2 DEF With
    <3> QED BY <1>3, <3>1 DEF StoreInsert, Leaves, Kept, ChunksOf
  <2> QED BY <1>3, <2>1, <2>2 DEF StoreInsert
<1> QED BY <1>2, <1>3

\* An ingest touches the chunks of its own file only.
LEMMA OwnChunks ==
  ASSUME IndexInv, MirrorInv, NEW j \in Jobs, job[j].pc \in {"clear", "chunk"}, files' = files,
         \A k \in Jobs \ {j} : job'[k] = job[k],
         \A c \in chunks : c.file # job[j].id => c \in chunks'
  PROVE  Leaves
<1> SUFFICES ASSUME NEW i \in Indexers, job'[i] # job[i], NEW p \in DOMAIN files \ Mirror PROVE Kept(p)
  BY DEF Leaves
<1>1. i = j
  BY DEF Jobs
<1>2. job[j].path \in Mirror
  BY <1>1 DEF MirrorInv, RunOK
<1>3. files[p].id # job[j].id
  BY <1>2 DEF MirrorInv, NamesOK, Names
<1> QED BY <1>3 DEF Kept, ChunksOf

LEMMA LeavesStep == ASSUME IndexInv, MirrorInv, [Next]_vars PROVE Leaves \/ UNCHANGED vars
<1>1. \A j \in Indexers \cup Uploaders : j \in Jobs
  BY DEF Jobs
<1>2. ASSUME NEW i \in Indexers, BeginIndex(i) \/ Walk(i) \/ FileGone(i) \/ Prune(i) \/ EndIndex(i) PROVE Leaves
  <2>1. CASE Prune(i)
    BY <1>1, <2>1, PruneLeaves
  <2>2. CASE Walk(i) \/ FileGone(i) \/ EndIndex(i) \/ BeginIndex(i)
    BY <2>2, SameKept DEF Walk, FileGone, EndIndex, BeginIndex
  <2> QED BY <1>2, <2>1, <2>2
<1>3. ASSUME NEW u \in Uploaders, Plan(u) \/ EndUpload(u) PROVE Leaves
  BY <1>3, SameKept DEF Plan, EndUpload
<1>4. ASSUME NEW j \in Jobs, Ingest(j) \/ Break(j) PROVE Leaves
  <2>0. DOMAIN job = Jobs
    BY DEF IndexInv
  <2>1. CASE Select(j) \/ Break(j)
    BY <2>1, SameKept DEF Select, Break
  <2>2. CASE StoreUpdate(j) \/ StoreInsert(j)
    BY <2>2, StoreLeaves
  <2>3. CASE Clear(j)
    <3>1. \A c \in chunks : c.file # job[j].id => c \in chunks'
      BY <2>3 DEF Clear, Derived, ChunksOf
    <3>2. job[j].pc = "clear" /\ files' = files /\ \A k \in Jobs \ {j} : job'[k] = job[k]
      BY <2>0, <2>3 DEF Clear
    <3> QED BY <3>1, <3>2, OwnChunks
  <2>4. CASE AddChunk(j)
    <3>1. chunks \subseteq chunks' /\ files' = files
      BY <2>4 DEF AddChunk
    <3> QED BY <3>1 DEF Leaves, Kept, ChunksOf
  <2>5. CASE Embed(j)
    <3>1. job[j].pc = "chunk" /\ files' = files
      BY <2>5 DEF Embed
    <3>2. \A k \in Jobs \ {j} : job'[k] = job[k]
      <4>1. CASE Throws(j)
        BY <3>1, <4>1, ThrowMirrors
      <4>2. CASE job' = [job EXCEPT ![j] = NextFile(j)]
        BY <2>0, <4>2
      <4> QED BY <2>5, <4>1, <4>2 DEF Embed
    <3>3. \A c \in chunks : c.draw = job[j].draw => c.file = job[j].id
      <4>1. \A c \in chunks : Placed(c.draw, c.file)
        BY DEF Placed
      <4>2. Placed(job[j].draw, job[j].id)
        BY <3>1 DEF Placed
      <4> QED BY <4>1, <4>2 DEF MirrorInv, OneFile
    <3>4. \A c \in chunks : c.file # job[j].id => c \in chunks'
      BY <2>5, <3>3, EmbedMoves
    <3> QED BY <3>1, <3>2, <3>4, OwnChunks
  <2> QED BY <1>4, <2>1, <2>2, <2>3, <2>4, <2>5 DEF Ingest
<1>5. ASSUME NEW p \in Paths, (\E v \in Versions : Create(p, v)) \/ Delete(p) PROVE Leaves
  BY <1>5, CallLeaves DEF Create, Delete
<1>6. ASSUME NEW p \in Mirror, Edit(p) PROVE Leaves
  BY <1>6, CallLeaves DEF Edit
<1>7. ASSUME NEW e \in Sweepers, Ask(e) \/ Answer(e) \/ NoAnswer(e) PROVE Leaves
  BY <1>7 DEF Ask, Answer, NoAnswer, Leaves
<1> QED BY <1>2, <1>3, <1>4, <1>5, <1>6, <1>7 DEF Next, Done

\* The end of a run finds each calm path as the directory has it.
Mirrored(i) ==
  EndIndex(i) =>
    \A p \in job[i].calm :
      IF p \in DOMAIN dir THEN p \in DOMAIN files /\ files[p].sum = Text[dir[p]] ELSE p \notin Indexed

LEMMA EndMirrors == ASSUME IndexInv, MirrorInv, NEW i \in Indexers PROVE Mirrored(i)
<1> SUFFICES ASSUME EndIndex(i), NEW p \in job[i].calm
             PROVE  IF p \in DOMAIN dir THEN p \in DOMAIN files /\ files[p].sum = Text[dir[p]] ELSE p \notin Indexed
  BY DEF Mirrored
<1>1. job[i].pc = "file" /\ job[i].todo = {} /\ DOMAIN job[i].existing \subseteq job[i].seen
  BY DEF EndIndex
<1>2. CalmOK(job[i], p)
  BY DEF MirrorInv, RunOK
<1> QED BY <1>1, <1>2 DEF CalmOK, Listed

\* An index run removes or rewrites no document at a path its directory never had a file at,
\* whatever uploads, creations and deletions happen between its statements; and when it ends,
\* each path that nobody else has touched meanwhile holds what the directory holds, or no row
\* of the indexer's (indexing/sync.ts:51-160).
THEOREM RunMirrorsAlways == Spec => RunMirrors
<1>1. Spec => []IndexInv
  BY InvInit, IndexInvStep, PTL DEF Spec
<1>2. Spec => [](IndexInv /\ MirrorInv)
  BY <1>1, MirrorInit, MirrorStep, PTL DEF Spec
<1>3. IndexInv /\ MirrorInv /\ [Next]_vars =>
        [\A i \in Indexers : job'[i] # job[i] /\ calls' = calls =>
          \A p \in DOMAIN files \ Mirror :
            p \in DOMAIN files' /\ files'[p] = files[p] /\ ChunksOf(files[p].id) \subseteq chunks']_vars
  BY LeavesStep DEF Leaves, Kept
<1>4. IndexInv /\ MirrorInv =>
        \A i \in Indexers : EndIndex(i) =>
          \A p \in job[i].calm :
            IF p \in DOMAIN dir THEN p \in DOMAIN files /\ files[p].sum = Text[dir[p]] ELSE p \notin Indexed
  BY EndMirrors DEF Mirrored
<1>5. Spec => NeverTheirs
  BY <1>2, <1>3, PTL DEF Spec, NeverTheirs
<1>6. Spec => Mirrors
  BY <1>2, <1>4, PTL DEF Spec, Mirrors
<1> QED BY <1>5, <1>6, PTL DEF RunMirrors

---------------------------------------------------------------------------
(* The page that uploads files *)

Picked == [coll : Collections, files : Folders, at : {"hash", "plan"}, n : Nat]

TabTyped ==
  /\ chosen \in Collections \cup {None} /\ shown \in Collections \cup {None} /\ term \in Slugs \cup {None}
  /\ IsFiniteSet(DOMAIN list) /\ \A p \in DOMAIN list : p \in PickedPaths /\ list[p] \in Item
  /\ picks \subseteq Picked
  /\ hands \in [Pool -> Hand \cup {None}] /\ pool \in Pools \cup {None}
  /\ budget \in [acts : Nat, picks : Nat, troubles : Nat]

FilesTyped ==
  /\ held = [c \in Collections |-> held[c]]
  /\ \A c \in Collections : \A p \in DOMAIN held[c] : held[c][p] \in StoredFile

\* What is stored, and where its term came from.
FilesInv == FilesTyped /\ NoneUnscoped /\ TermsCameWithTheText

\* The queue has every path once, and what is in a hand is behind the cursor.
QueueInv ==
  /\ pool = None => \A w \in Pool : hands[w] = None
  /\ pool # None =>
       /\ \A i, j \in 1 .. Len(pool.queue) : pool.queue[i].path = pool.queue[j].path => i = j
       /\ \A w \in Pool : hands[w] # None =>
            \E i \in 1 .. Len(pool.queue) : i < pool.cursor /\ pool.queue[i].path = hands[w].path
  /\ \A u, w \in Pool : u # w /\ hands[u] # None /\ hands[w] # None => hands[u].path # hands[w].path

\* What the list calls uploading is in somebody's hand.
InHand == \A p \in DOMAIN list : list[p].state = "uploading" => \E w \in Pool : hands[w] # None /\ hands[w].path = p

\* Everything is of the one folder that was picked.
OfOne(f) ==
  /\ \A p \in DOMAIN list : p \in DOMAIN f /\ list[p].ver = f[p]
  /\ \A k \in picks : k.files = f
  /\ pool # None => \A i \in 1 .. Len(pool.queue) : pool.queue[i].ver = f[pool.queue[i].path]
  /\ \A w \in Pool : hands[w] # None => hands[w].ver = f[hands[w].path]

OneFolder ==
  /\ budget.picks = 0 => DOMAIN list = {} /\ picks = {} /\ pool = None
  /\ budget.picks = 1 => \E f \in Folders : OfOne(f)

\* What an answer said is what the server did, and what the list says, until more is picked.
AnswersTrue ==
  /\ \A w \in Pool : hands[w] # None /\ hands[w].reply = "ok" => <<pool.coll, hands[w].path, hands[w].ver>> \in accepted
  /\ pool # None => pool.coll \in Collections
  /\ \A p \in DOMAIN list : list[p].state = "done" /\ budget.picks <= 1 =>
       \E c \in Collections : <<c, p, list[p].ver>> \in accepted

TabInv == TabTyped /\ QueueInv /\ InHand /\ OneFolder /\ AnswersTrue
UplInv == TabInv /\ FilesInv

LEMMA UplInvInit == UplInit => UplInv
  <1> SUFFICES ASSUME UplInit PROVE UplInv
    OBVIOUS
  <1>1. DOMAIN list = {} /\ picks = {} /\ pool = None /\ \A w \in Pool : hands[w] = None
    BY DEF UplInit
  <1>2. TabTyped
    <2>1. IsFiniteSet(DOMAIN list)
      BY <1>1, FS_EmptySet
    <2>2. hands \in [Pool -> Hand \cup {None}] /\ budget \in [acts : Nat, picks : Nat, troubles : Nat]
      BY DEF UplInit
    <2> QED BY <1>1, <2>1, <2>2 DEF TabTyped, UplInit
  <1>3. QueueInv /\ InHand /\ AnswersTrue
    BY <1>1 DEF QueueInv, InHand, AnswersTrue
  <1>4. OneFolder
    BY <1>1 DEF OneFolder, UplInit
  <1>5. FilesTyped /\ NoneUnscoped
    BY UploadsAssumption DEF FilesTyped, NoneUnscoped, UplInit
  <1>6. TermsCameWithTheText
    BY DEF TermsCameWithTheText, UplInit
  <1> QED BY <1>2, <1>3, <1>4, <1>5, <1>6 DEF UplInv, TabInv, FilesInv

\* What leaves the list, the picks and the pool alone.
QueueAside == UNCHANGED <<list, picks, pool, hands, accepted>> /\ budget'.picks = budget.picks

LEMMA AsideKeeps ==
  ASSUME TabInv, QueueAside, TabTyped'
  PROVE  TabInv'
  <1>1. QueueInv'
    BY DEF TabInv, QueueInv, QueueAside
  <1>2. InHand'
    BY DEF TabInv, InHand, QueueAside
  <1>3. OneFolder'
    BY DEF TabInv, OneFolder, OfOne, QueueAside
  <1>4. AnswersTrue'
    BY DEF TabInv, AnswersTrue, QueueAside
  <1> QED BY <1>1, <1>2, <1>3, <1>4 DEF TabInv

LEMMA FilesAside == ASSUME FilesInv, UNCHANGED <<held, sent>> PROVE FilesInv'
  BY DEF FilesInv, FilesTyped, NoneUnscoped, TermsCameWithTheText

LEMMA BudgetSpent ==
  ASSUME budget \in [acts : Nat, picks : Nat, troubles : Nat]
  PROVE  /\ Act => budget' \in [acts : Nat, picks : Nat, troubles : Nat] /\ budget'.picks = budget.picks
         /\ ActPick => budget' \in [acts : Nat, picks : Nat, troubles : Nat] /\ budget'.picks = budget.picks + 1
         /\ Trouble => budget' \in [acts : Nat, picks : Nat, troubles : Nat] /\ budget'.picks = budget.picks
  <1>1. budget.acts + 1 \in Nat /\ budget.picks + 1 \in Nat /\ budget.troubles + 1 \in Nat
    OBVIOUS
  <1>2. \A a, p, n \in Nat : [acts |-> a, picks |-> p, troubles |-> n] \in [acts : Nat, picks : Nat, troubles : Nat]
    OBVIOUS
  <1>3. budget = [acts |-> budget.acts, picks |-> budget.picks, troubles |-> budget.troubles]
    OBVIOUS
  <1>4. ASSUME Act PROVE budget' = [acts |-> budget.acts + 1, picks |-> budget.picks, troubles |-> budget.troubles]
    BY <1>3, <1>4 DEF Act
  <1>5. ASSUME ActPick PROVE budget' = [acts |-> budget.acts + 1, picks |-> budget.picks + 1, troubles |-> budget.troubles]
    BY <1>3, <1>5 DEF ActPick
  <1>6. ASSUME Trouble PROVE budget' = [acts |-> budget.acts, picks |-> budget.picks, troubles |-> budget.troubles + 1]
    BY <1>3, <1>6 DEF Trouble
  <1> QED BY <1>1, <1>2, <1>4, <1>5, <1>6

LEMMA FormKeeps ==
  ASSUME TabInv,
         \/ \E c \in Collections : Choose(c) \/ DetailArrives(c)
         \/ \E t \in Slugs : ChooseTerm(t)
         \/ Pause \/ Resume \/ Elsewhere
  PROVE  TabInv'
  <1>1. TabTyped
    BY DEF TabInv
  <1>2. budget \in [acts : Nat, picks : Nat, troubles : Nat]
    BY <1>1 DEF TabTyped
  <1>3. QueueAside /\ TabTyped'
    <2>1. CASE \E c \in Collections : Choose(c) \/ DetailArrives(c)
      BY <1>1, <1>2, <2>1, BudgetSpent DEF TabTyped, QueueAside, Choose, DetailArrives
    <2>2. CASE \E t \in Slugs : ChooseTerm(t)
      BY <1>1, <1>2, <2>2, BudgetSpent DEF TabTyped, QueueAside, ChooseTerm
    <2>3. CASE Pause \/ Resume \/ Elsewhere
      BY <1>1, <1>2, <2>3, BudgetSpent DEF TabTyped, QueueAside, Pause, Resume, Elsewhere
    <2> QED BY <2>1, <2>2, <2>3
  <1> QED BY <1>3, AsideKeeps

LEMMA PickKeeps == ASSUME TabInv, NEW f \in Folders, Pick(f) PROVE TabInv'
  <1>1. TabTyped /\ QueueInv
    BY DEF TabInv
  <1>2. budget \in [acts : Nat, picks : Nat, troubles : Nat]
    BY <1>1 DEF TabTyped
  <1>3. budget' \in [acts : Nat, picks : Nat, troubles : Nat] /\ budget'.picks = budget.picks + 1 /\ budget.picks \in Nat
    BY <1>2, BudgetSpent DEF Pick
  <1>4. f \in [DOMAIN f -> FileVersions] /\ IsFiniteSet(DOMAIN f) /\ \A p \in DOMAIN f : p \in PickedPaths
    BY UploadsAssumption DEF PickedPaths
  <1>5. DOMAIN list' = DOMAIN f /\ \A p \in DOMAIN f : list'[p] = [ver |-> f[p], state |-> "hashing"]
    BY DEF Pick
  <1>6. TabTyped'
    <2>1. \A p \in DOMAIN list' : p \in PickedPaths /\ list'[p] \in Item
      BY <1>4, <1>5 DEF Item, ItemStates
    <2>2. picks' \subseteq Picked
      BY <1>1, <1>2 DEF TabTyped, Picked, Pick
    <2> QED BY <1>1, <1>3, <1>4, <1>5, <2>1, <2>2 DEF TabTyped, Pick
  <1>7. QueueInv'
    BY <1>1 DEF QueueInv, Pick
  <1>8. InHand'
    BY <1>5 DEF InHand
  <1>9. OneFolder'
    <2>1. ASSUME budget'.picks = 1 PROVE OfOne(f)'
      <3>1. picks = {} /\ pool = None
        BY <1>3, <2>1 DEF TabInv, OneFolder
      <3>2. pool' = None /\ \A w \in Pool : hands'[w] = None
        BY <1>1, <3>1 DEF QueueInv, Pick
      <3>3. \A k \in picks' : k.files = f
        BY <3>1 DEF Pick
      <3> QED BY <1>5, <3>2, <3>3 DEF OfOne
    <2> QED BY <1>3, <2>1 DEF OneFolder
  <1>10. AnswersTrue'
    BY <1>5 DEF TabInv, AnswersTrue, Pick
  <1> QED BY <1>6, <1>7, <1>8, <1>9, <1>10 DEF TabInv

\* A new list of the same files, with nothing else in it called uploading or done.
LEMMA ListKeeps ==
  ASSUME TabInv, TabTyped', UNCHANGED <<pool, hands, accepted>>, budget'.picks = budget.picks,
         picks' \subseteq picks \/ \A k \in picks' : \E j \in picks : k.files = j.files,
         \E k \in picks : TRUE,
         \/ DOMAIN list' = DOMAIN list /\ \A p \in DOMAIN list : list'[p].ver = list[p].ver
         \/ \E k \in picks : DOMAIN list' = DOMAIN k.files /\ \A p \in DOMAIN k.files : list'[p].ver = k.files[p],
         \A p \in DOMAIN list' : list'[p].state \in {"uploading", "done"} => p \in DOMAIN list /\ list'[p] = list[p]
  PROVE  TabInv'
  <1>1. QueueInv'
    BY DEF TabInv, QueueInv
  <1>2. InHand'
    BY DEF TabInv, InHand
  <1>3. OneFolder'
    <2>1. budget.picks # 0
      BY DEF TabInv, OneFolder
    <2>2. ASSUME budget.picks = 1 PROVE \E f \in Folders : OfOne(f)'
      <3>1. PICK f \in Folders : OfOne(f)
        BY <2>2 DEF TabInv, OneFolder
      <3>2. \A k \in picks' : k.files = f
        BY <3>1 DEF OfOne
      <3>3. \A p \in DOMAIN list' : p \in DOMAIN f /\ list'[p].ver = f[p]
        BY <3>1 DEF OfOne
      <3>4. OfOne(f)'
        BY <3>1, <3>2, <3>3 DEF OfOne
      <3> QED BY <3>4
    <2> QED BY <2>1, <2>2 DEF OneFolder
  <1>4. AnswersTrue'
    BY DEF TabInv, AnswersTrue
  <1> QED BY <1>1, <1>2, <1>3, <1>4 DEF TabInv

LEMMA HashKeeps == ASSUME TabInv, NEW k \in picks, Hash(k) PROVE TabInv'
  <1>1. TabTyped
    BY DEF TabInv
  <1>2. k \in Picked /\ k.at = "hash"
    BY <1>1 DEF TabTyped, Hash
  <1> DEFINE after == [k EXCEPT !.at = "plan"]
  <1>3. after \in Picked /\ after.files = k.files /\ picks' = (picks \ {k}) \cup {after}
    BY <1>2 DEF Picked, Hash
  <1> HIDE DEF after
  <1>4. DOMAIN list' = DOMAIN list
    BY DEF Hash
  <1>5. \A p \in DOMAIN list : /\ list'[p] \in Item /\ list'[p].ver = list[p].ver
                               /\ list'[p] = list[p] \/ list'[p].state = "pending"
    <2> TAKE p \in DOMAIN list
    <2>1. list[p] \in Item /\ list'[p] = IF p \in DOMAIN k.files THEN [list[p] EXCEPT !.state = "pending"] ELSE list[p]
      BY <1>1 DEF TabTyped, Hash
    <2> QED BY <2>1 DEF Item, ItemStates
  <1>6. TabTyped'
    BY <1>1, <1>3, <1>4, <1>5 DEF TabTyped, Hash
  <1>7. UNCHANGED <<pool, hands, accepted>> /\ budget'.picks = budget.picks
    BY DEF Hash
  <1>8. \A j \in picks' : \E i \in picks : j.files = i.files
    BY <1>3
  <1>9. \A p \in DOMAIN list' : list'[p].state \in {"uploading", "done"} => p \in DOMAIN list /\ list'[p] = list[p]
    BY <1>4, <1>5
  <1> QED BY <1>4, <1>5, <1>6, <1>7, <1>8, <1>9, ListKeeps

LEMMA PlanPickKeeps == ASSUME TabInv, NEW k \in picks, PlanPick(k) PROVE TabInv'
  <1>1. TabTyped
    BY DEF TabInv
  <1>2. k \in Picked /\ picks' = picks \ {k}
    BY <1>1 DEF TabTyped, PlanPick
  <1>3. k.files \in [DOMAIN k.files -> FileVersions] /\ IsFiniteSet(DOMAIN k.files) /\ \A p \in DOMAIN k.files : p \in PickedPaths
    BY <1>2, UploadsAssumption DEF PickedPaths, Picked
  <1>4. budget \in [acts : Nat, picks : Nat, troubles : Nat]
    BY <1>1 DEF TabTyped
  <1>5. budget' \in [acts : Nat, picks : Nat, troubles : Nat] /\ budget'.picks = budget.picks
    BY <1>4, BudgetSpent DEF PlanPick
  <1>6. UNCHANGED <<chosen, shown, term, pool, hands, accepted>>
    BY DEF PlanPick
  <1>7. CASE list' = list
    <2>1. TabTyped'
      BY <1>1, <1>2, <1>5, <1>6, <1>7 DEF TabTyped
    <2> QED BY <1>2, <1>5, <1>6, <1>7, <2>1, ListKeeps
  <1>8. CASE list' # list
    <2>1. DOMAIN list' = DOMAIN k.files
      BY <1>8 DEF PlanPick
    <2>2. \A p \in DOMAIN k.files : list'[p].ver = k.files[p] /\ list'[p].state \in {"skip", "planned"} /\ list'[p] \in Item
      <3> TAKE p \in DOMAIN k.files
      <3>1. list'[p] = [ver |-> k.files[p], state |-> IF StoredAlready(k.coll, p, k.files[p]) THEN "skip" ELSE "planned"]
        BY <1>8 DEF PlanPick
      <3> QED BY <1>3, <3>1 DEF Item, ItemStates
    <2>3. TabTyped'
      BY <1>1, <1>2, <1>3, <1>5, <1>6, <2>1, <2>2 DEF TabTyped
    <2>4. \A p \in DOMAIN list' : ~(list'[p].state \in {"uploading", "done"})
      BY <2>1, <2>2
    <2>5. \E j \in picks : DOMAIN list' = DOMAIN j.files /\ \A p \in DOMAIN j.files : list'[p].ver = j.files[p]
      BY <2>1, <2>2
    <2> QED BY <1>2, <1>5, <1>6, <2>3, <2>4, <2>5, ListKeeps
  <1> QED BY <1>7, <1>8

LEMMA RunKeeps == ASSUME TabInv, Run PROVE TabInv'
  <1>1. TabTyped /\ pool = None /\ chosen \in Collections
    BY DEF TabInv, TabTyped, Run
  <1>2. budget \in [acts : Nat, picks : Nat, troubles : Nat]
    BY <1>1 DEF TabTyped
  <1>3. budget' \in [acts : Nat, picks : Nat, troubles : Nat] /\ budget'.picks = budget.picks
    BY <1>2, BudgetSpent DEF Run
  <1> DEFINE S == Among({"planned", "failed"})
             N == Cardinality(S)
             E == [path : PickedPaths, ver : FileVersions]
  <1>4. PICK todo \in InListOrder(S) :
          pool' = [coll |-> chosen, field |-> IF shown = None THEN None ELSE Vocab[shown], term |-> term,
                   queue |-> [i \in DOMAIN todo |-> [path |-> todo[i], ver |-> list[todo[i]].ver]], cursor |-> 1]
    BY DEF Run
  <1>5. S \subseteq DOMAIN list /\ N \in Nat
    <2>1. S \subseteq DOMAIN list
      BY DEF Among
    <2>2. IsFiniteSet(DOMAIN list)
      BY <1>1 DEF TabTyped
    <2> HIDE DEF S
    <2> QED BY <2>1, <2>2, FS_Subset, FS_CardinalityType
  <1>6. DOMAIN todo = 1 .. N /\ (\A i \in 1 .. N : todo[i] \in S) /\ \A i, j \in 1 .. N : todo[i] = todo[j] => i = j
    BY <1>4 DEF InListOrder, Enumerations
  <1> DEFINE queue == [i \in 1 .. N |-> [path |-> todo[i], ver |-> list[todo[i]].ver]]
  <1>7. \A i \in 1 .. N : todo[i] \in DOMAIN list /\ list[todo[i]] \in Item /\ todo[i] \in PickedPaths
    BY <1>1, <1>5, <1>6 DEF TabTyped
  <1> HIDE DEF S, N
  <1>8. queue \in Seq(E) /\ Len(queue) = N
    <2>1. \A i \in 1 .. N : [path |-> todo[i], ver |-> list[todo[i]].ver] \in E
      BY <1>7 DEF Item
    <2> HIDE DEF E
    <2>2. queue \in [1 .. N -> E] /\ DOMAIN queue = 1 .. N
      BY <2>1
    <2> HIDE DEF queue
    <2>3. queue \in Seq(E)
      BY <1>5, <2>2, SeqDef
    <2> QED BY <1>5, <2>2, <2>3, LenProperties
  <1>9. \A i \in 1 .. N : queue[i].path = todo[i] /\ queue[i].ver = list[todo[i]].ver
    OBVIOUS
  <1>10. pool' = [coll |-> chosen, field |-> IF shown = None THEN None ELSE Vocab[shown], term |-> term,
                  queue |-> queue, cursor |-> 1]
    BY <1>4, <1>6
  <1> HIDE DEF queue
  <1>11. pool' \in Pools /\ pool' # None
    <2>1. (IF shown = None THEN None ELSE Vocab[shown]) \in {Vocab[c] : c \in Collections} \cup {None}
      BY <1>1 DEF TabTyped
    <2>2. term \in Slugs \cup {None}
      BY <1>1 DEF TabTyped
    <2>3. pool' \in Pools
      BY <1>1, <1>8, <1>10, <2>1, <2>2 DEF Pools
    <2> QED BY <2>3, UploadsAssumption
  <1>12. pool'.queue = queue /\ pool'.coll = chosen
    BY <1>10
  <1>13. UNCHANGED <<list, picks, hands, accepted, chosen, shown, term>>
    BY DEF Run
  <1>14. TabTyped'
    BY <1>1, <1>3, <1>11, <1>13 DEF TabTyped
  <1>15. \A w \in Pool : hands'[w] = None
    BY <1>1, <1>13 DEF TabInv, QueueInv
  <1>16. QueueInv'
    BY <1>6, <1>8, <1>9, <1>11, <1>12, <1>15 DEF QueueInv
  <1>17. InHand'
    BY <1>13 DEF TabInv, InHand
  <1>18. OneFolder'
    <2>1. ASSUME budget.picks = 0 PROVE FALSE
      BY <2>1 DEF TabInv, OneFolder, Run, MayRun, Among
    <2>2. ASSUME budget.picks = 1 PROVE \E f \in Folders : OfOne(f)'
      <3>1. PICK f \in Folders : OfOne(f)
        BY <2>2 DEF TabInv, OneFolder
      <3>2. \A i \in 1 .. Len(pool'.queue) : pool'.queue[i].ver = f[pool'.queue[i].path]
        BY <1>7, <1>8, <1>9, <1>12, <3>1 DEF OfOne
      <3>3. OfOne(f)'
        BY <1>13, <1>15, <3>1, <3>2 DEF OfOne
      <3> QED BY <3>3
    <2> QED BY <1>3, <2>1, <2>2 DEF OneFolder
  <1>19. AnswersTrue'
    <2>1. \A p \in DOMAIN list' : list'[p].state = "done" /\ budget'.picks <= 1 =>
            \E c \in Collections : <<c, p, list'[p].ver>> \in accepted'
      BY <1>3, <1>13 DEF TabInv, AnswersTrue
    <2> QED BY <1>1, <1>12, <1>15, <2>1 DEF AnswersTrue
  <1> QED BY <1>14, <1>16, <1>17, <1>18, <1>19 DEF TabInv

\* A patch of one row.
LEMMA PatchIs ==
  ASSUME TabTyped, NEW p, NEW s \in ItemStates, list' = RowPatch(list, p, s)
  PROVE  /\ DOMAIN list' = DOMAIN list
         /\ \A q \in DOMAIN list : /\ list'[q] \in Item /\ list'[q].ver = list[q].ver
                                   /\ list'[q].state = IF q = p THEN s ELSE list[q].state
  <1>1. DOMAIN list' = DOMAIN list
    BY DEF RowPatch
  <1>2. ASSUME NEW q \in DOMAIN list
        PROVE  /\ list'[q] \in Item /\ list'[q].ver = list[q].ver
               /\ list'[q].state = IF q = p THEN s ELSE list[q].state
    <2>1. list[q] \in Item
      BY DEF TabTyped
    <2>2. CASE q = p
      <3>1. list'[q] = [list[q] EXCEPT !.state = s]
        BY <2>2 DEF RowPatch
      <3> QED BY <2>1, <2>2, <3>1 DEF Item
    <2>3. CASE q # p
      BY <2>1, <2>3 DEF RowPatch
    <2> QED BY <2>2, <2>3
  <1> QED BY <1>1, <1>2

LEMMA MovedOn ==
  ASSUME NEW run \in Pools, NEW n \in Nat \ {0}
  PROVE  LET next == [run EXCEPT !.cursor = n]
         IN  next \in Pools /\ next.queue = run.queue /\ next.coll = run.coll /\ next.cursor = n
  BY DEF Pools

LEMMA TakeKeeps == ASSUME TabInv, NEW w \in Pool, Take(w) PROVE TabInv'
  <1>1. TabTyped /\ QueueInv /\ pool # None /\ pool \in Pools /\ hands[w] = None
    BY DEF TabInv, TabTyped, Take
  <1> DEFINE c == pool.cursor
             it == pool.queue[pool.cursor]
             hand == [path |-> it.path, ver |-> it.ver, attempt |-> 1, reply |-> None]
  <1>2. c \in Nat \ {0} /\ Len(pool.queue) \in Nat /\ c <= Len(pool.queue) /\ pool.queue \in Seq([path : PickedPaths, ver : FileVersions])
    <2>1. pool.queue \in Seq([path : PickedPaths, ver : FileVersions]) /\ pool.cursor \in Nat \ {0}
      BY <1>1 DEF Pools
    <2> QED BY <2>1, LenProperties DEF Take
  <1>3. it \in [path : PickedPaths, ver : FileVersions] /\ c \in 1 .. Len(pool.queue)
    <2>1. c \in 1 .. Len(pool.queue)
      BY <1>2
    <2> HIDE DEF c
    <2> QED BY <1>2, <2>1, ElementOfSeq DEF c
  <1>4. hand \in Hand /\ hand # None
    <2>1. 1 \in 1 .. MaxAttempts
      BY UploadsAssumption
    <2>2. hand \in Hand
      BY <1>3, <2>1 DEF Hand
    <2> QED BY <2>2, UploadsAssumption
  <1>5. hands' = [hands EXCEPT ![w] = hand] /\ list' = RowPatch(list, it.path, "uploading") /\ pool' = [pool EXCEPT !.cursor = c + 1]
    BY DEF Take
  <1>6. hands'[w] = hand /\ (\A u \in Pool : u # w => hands'[u] = hands[u]) /\ hands' \in [Pool -> Hand \cup {None}]
    BY <1>1, <1>4, <1>5 DEF TabTyped
  <1>7. pool' \in Pools /\ pool' # None /\ pool'.queue = pool.queue /\ pool'.coll = pool.coll /\ pool'.cursor = c + 1
    <2>1. c + 1 \in Nat \ {0}
      BY <1>2
    <2> HIDE DEF c
    <2>2. pool' \in Pools /\ pool'.queue = pool.queue /\ pool'.coll = pool.coll /\ pool'.cursor = c + 1
      BY <1>1, <1>5, <2>1, MovedOn
    <2> QED BY <2>2, UploadsAssumption
  <1>8. "uploading" \in ItemStates
    BY DEF ItemStates
  <1>9. /\ DOMAIN list' = DOMAIN list
        /\ \A q \in DOMAIN list : /\ list'[q] \in Item /\ list'[q].ver = list[q].ver
                                  /\ list'[q].state = IF q = it.path THEN "uploading" ELSE list[q].state
    BY <1>1, <1>5, <1>8, PatchIs
  <1>10. hand.path = it.path /\ hand.ver = it.ver /\ hand.reply = None
    OBVIOUS
  <1>11. UNCHANGED <<chosen, shown, term, picks, accepted, budget>>
    BY DEF Take
  <1> HIDE DEF hand
  <1>12. TabTyped'
    BY <1>1, <1>6, <1>7, <1>9, <1>11 DEF TabTyped
  <1>13. QueueInv'
    <2>1. \A u \in Pool : u # w /\ hands'[u] # None =>
            \E i \in 1 .. Len(pool.queue) : i < c /\ pool.queue[i].path = hands'[u].path
      BY <1>1, <1>6 DEF QueueInv
    <2>2. \A i, j \in 1 .. Len(pool.queue) : pool.queue[i].path = pool.queue[j].path => i = j
      BY <1>1 DEF QueueInv
    <2>3. \A u \in Pool : u # w /\ hands'[u] # None => hands'[u].path # hands'[w].path
      <3> TAKE u \in Pool
      <3> HAVE u # w /\ hands'[u] # None
      <3>1. PICK i \in 1 .. Len(pool.queue) : i < c /\ pool.queue[i].path = hands'[u].path
        BY <2>1
      <3>2. i # c
        BY <1>2, <3>1
      <3> QED BY <1>3, <1>6, <1>10, <2>2, <3>1, <3>2
    <2>4. \A u \in Pool : hands'[u] # None =>
            \E i \in 1 .. Len(pool.queue) : i < c + 1 /\ pool.queue[i].path = hands'[u].path
      <3> TAKE u \in Pool
      <3> HAVE hands'[u] # None
      <3>1. CASE u = w
        BY <1>2, <1>3, <1>6, <1>10, <3>1
      <3>2. CASE u # w
        <4>1. PICK i \in 1 .. Len(pool.queue) : i < c /\ pool.queue[i].path = hands'[u].path
          BY <2>1, <3>2
        <4>2. i < c + 1
          BY <1>2, <4>1
        <4> QED BY <4>1, <4>2
      <3> QED BY <3>1, <3>2
    <2>5. \A u, v \in Pool : u # v /\ hands'[u] # None /\ hands'[v] # None => hands'[u].path # hands'[v].path
      BY <1>1, <1>6, <2>3 DEF QueueInv
    <2> QED BY <1>7, <2>2, <2>4, <2>5 DEF QueueInv
  <1>14. InHand'
    BY <1>1, <1>4, <1>6, <1>9, <1>10 DEF TabInv, InHand
  <1>15. OneFolder'
    <2>1. budget.picks # 0
      BY <1>1 DEF TabInv, OneFolder
    <2>2. ASSUME budget.picks = 1 PROVE \E f \in Folders : OfOne(f)'
      <3>1. PICK f \in Folders : OfOne(f)
        BY <2>2 DEF TabInv, OneFolder
      <3>2. hand.ver = f[hand.path]
        BY <1>1, <1>3, <1>10, <3>1 DEF OfOne
      <3>3. OfOne(f)'
        BY <1>1, <1>6, <1>7, <1>9, <1>11, <3>1, <3>2 DEF OfOne
      <3> QED BY <3>3
    <2> QED BY <1>11, <2>1, <2>2 DEF OneFolder
  <1>16. AnswersTrue'
    <2>1. None # "ok"
      BY UploadsAssumption DEF Replies
    <2> QED BY <1>1, <1>6, <1>7, <1>9, <1>10, <1>11, <2>1 DEF TabInv, AnswersTrue
  <1> QED BY <1>12, <1>13, <1>14, <1>15, <1>16 DEF TabInv

LEMMA RunEndsKeeps == ASSUME TabInv, RunEnds PROVE TabInv'
  <1>1. UNCHANGED <<chosen, shown, term, list, picks, hands, accepted, budget>> /\ pool' = None /\ pool # None
        /\ \A w \in Pool : hands[w] = None
    BY DEF RunEnds
  <1>2. TabTyped'
    BY <1>1 DEF TabInv, TabTyped
  <1>3. QueueInv' /\ InHand' /\ AnswersTrue'
    BY <1>1 DEF TabInv, QueueInv, InHand, AnswersTrue
  <1>4. OneFolder'
    BY <1>1 DEF TabInv, OneFolder, OfOne
  <1> QED BY <1>2, <1>3, <1>4 DEF TabInv

\* A hand that goes on with its file.
LEMMA HandKeeps ==
  ASSUME TabInv, NEW w \in Pool, hands[w] # None, NEW h \in Hand, h # None,
         h.path = hands[w].path, h.ver = hands[w].ver,
         hands' = [hands EXCEPT ![w] = h], accepted \subseteq accepted',
         h.reply = "ok" => <<pool.coll, h.path, h.ver>> \in accepted',
         UNCHANGED <<chosen, shown, term, list, picks, pool>>,
         budget' \in [acts : Nat, picks : Nat, troubles : Nat], budget'.picks = budget.picks
  PROVE  TabInv'
  <1>1. TabTyped /\ QueueInv
    BY DEF TabInv
  <1>2. hands'[w] = h /\ (\A u \in Pool : u # w => hands'[u] = hands[u]) /\ hands' \in [Pool -> Hand \cup {None}]
    BY <1>1 DEF TabTyped
  <1>3. TabTyped'
    BY <1>1, <1>2 DEF TabTyped
  <1>4. \A u \in Pool : hands'[u] # None => hands[u] # None /\ hands'[u].path = hands[u].path /\ hands'[u].ver = hands[u].ver
    BY <1>2
  <1>5. QueueInv'
    <2>1. pool # None
      BY <1>1 DEF QueueInv
    <2>2. \A u \in Pool : hands'[u] # None =>
            \E i \in 1 .. Len(pool.queue) : i < pool.cursor /\ pool.queue[i].path = hands'[u].path
      BY <1>1, <1>4, <2>1 DEF QueueInv
    <2>3. \A u, v \in Pool : u # v /\ hands'[u] # None /\ hands'[v] # None => hands'[u].path # hands'[v].path
      BY <1>1, <1>4 DEF QueueInv
    <2> QED BY <1>1, <2>1, <2>2, <2>3 DEF QueueInv
  <1>6. InHand'
    BY <1>2 DEF TabInv, InHand
  <1>7. OneFolder'
    <2>1. budget.picks # 0
      BY <1>1 DEF TabInv, OneFolder, QueueInv
    <2>2. ASSUME budget.picks = 1 PROVE \E f \in Folders : OfOne(f)'
      <3>1. PICK f \in Folders : OfOne(f)
        BY <2>2 DEF TabInv, OneFolder
      <3>2. \A u \in Pool : hands'[u] # None => hands'[u].ver = f[hands'[u].path]
        BY <1>4, <3>1 DEF OfOne
      <3>3. OfOne(f)'
        BY <3>1, <3>2 DEF OfOne
      <3> QED BY <3>3
    <2> QED BY <2>1, <2>2 DEF OneFolder
  <1>8. AnswersTrue'
    BY <1>2 DEF TabInv, AnswersTrue
  <1> QED BY <1>3, <1>5, <1>6, <1>7, <1>8 DEF TabInv

LEMMA ServeKeeps == ASSUME TabInv, NEW w \in Pool, Serve(w) PROVE TabInv'
  <1>1. TabTyped /\ hands[w] \in Hand /\ hands[w] # None /\ None \notin Replies /\ None \notin Hand
    BY UploadsAssumption DEF TabInv, TabTyped, Serve
  <1>2. budget \in [acts : Nat, picks : Nat, troubles : Nat]
    BY <1>1 DEF TabTyped
  <1>3. UNCHANGED <<chosen, shown, term, list, picks, pool>>
    BY DEF Serve
  <1>4. budget' \in [acts : Nat, picks : Nat, troubles : Nat] /\ budget'.picks = budget.picks
    BY <1>2, BudgetSpent DEF Serve
  <1>5. PICK r \in Replies :
          /\ hands' = [hands EXCEPT ![w].reply = r] /\ accepted \subseteq accepted'
          /\ r = "ok" => <<pool.coll, hands[w].path, hands[w].ver>> \in accepted'
    <2>1. CASE /\ accepted' = accepted \cup {<<pool.coll, hands[w].path, hands[w].ver>>}
               /\ hands' = [hands EXCEPT ![w].reply = "ok"]
      BY <2>1 DEF Replies
    <2>2. CASE hands' = [hands EXCEPT ![w].reply = "refused"] /\ UNCHANGED accepted
      BY <2>2 DEF Replies
    <2>3. CASE (\E r \in {"5xx", "thrown"} : hands' = [hands EXCEPT ![w].reply = r]) /\ UNCHANGED accepted
      BY <2>3 DEF Replies
    <2> QED BY <2>1, <2>2, <2>3 DEF Serve
  <1> DEFINE h == [hands[w] EXCEPT !.reply = r]
  <1>6. h \in Hand /\ h.path = hands[w].path /\ h.ver = hands[w].ver /\ h.reply = r
    BY <1>1 DEF Hand
  <1>7. hands' = [hands EXCEPT ![w] = h]
    BY <1>5
  <1> HIDE DEF h
  <1>8. h # None
    BY <1>1, <1>6
  <1> QED BY <1>1, <1>3, <1>4, <1>5, <1>6, <1>7, <1>8, HandKeeps

LEMMA SettledIs ==
  ASSUME NEW reply, NEW attempt, None \notin {"done", "failed"}
  PROVE  LET s == Settled(reply, attempt)
         IN  /\ s = None => attempt < MaxAttempts
             /\ s # None => s \in {"done", "failed"} /\ (s = "done" => reply = "ok")
  BY DEF Settled

LEMMA AnsweredKeeps == ASSUME TabInv, NEW w \in Pool, Answered(w) PROVE TabInv'
  <1>1. /\ TabTyped /\ QueueInv /\ hands[w] \in Hand /\ hands[w] # None /\ hands[w].reply # None /\ pool # None
        /\ None \notin Replies /\ None \notin Hand /\ None \notin {"done", "failed"}
    BY UploadsAssumption DEF TabInv, TabTyped, QueueInv, Answered, ItemStates
  <1> DEFINE s == Settled(hands[w].reply, hands[w].attempt)
  <1>2. UNCHANGED <<chosen, shown, term, picks, pool, accepted, budget>>
    BY DEF Answered
  <1>3. budget \in [acts : Nat, picks : Nat, troubles : Nat]
    BY <1>1 DEF TabTyped
  <1>4. CASE s = None
    <2>1. hands[w].attempt \in 1 .. MaxAttempts /\ MaxAttempts \in Nat
      BY <1>1, UploadsAssumption DEF Hand
    <2>2. hands[w].attempt < MaxAttempts
      BY <1>1, <1>4, SettledIs
    <2>3. hands[w].attempt + 1 \in 1 .. MaxAttempts
      BY <2>1, <2>2
    <2> DEFINE n == hands[w].attempt + 1
               h == [hands[w] EXCEPT !.attempt = n, !.reply = None]
    <2>4. h \in Hand /\ h.path = hands[w].path /\ h.ver = hands[w].ver /\ h.reply = None
      <3>1. n \in 1 .. MaxAttempts
        BY <2>3
      <3> HIDE DEF n
      <3> QED BY <1>1, <3>1 DEF Hand
    <2>5. hands' = [hands EXCEPT ![w] = h] /\ list' = list
      BY <1>1, <1>4 DEF Answered, TabTyped
    <2> HIDE DEF h, s
    <2>6. h # None /\ None # "ok"
      BY <1>1, <2>4 DEF Replies
    <2> QED BY <1>1, <1>2, <1>3, <2>4, <2>5, <2>6, HandKeeps
  <1>5. CASE s # None
    <2>1. s \in {"done", "failed"} /\ s \in ItemStates /\ (s = "done" => hands[w].reply = "ok")
      BY <1>1, <1>5, SettledIs DEF ItemStates
    <2>2. hands' = [hands EXCEPT ![w] = None] /\ list' = RowPatch(list, hands[w].path, s)
      BY <1>5 DEF Answered
    <2> HIDE DEF s
    <2>3. hands'[w] = None /\ (\A u \in Pool : u # w => hands'[u] = hands[u]) /\ hands' \in [Pool -> Hand \cup {None}]
      BY <1>1, <2>2 DEF TabTyped
    <2>4. /\ DOMAIN list' = DOMAIN list
          /\ \A q \in DOMAIN list : /\ list'[q] \in Item /\ list'[q].ver = list[q].ver
                                    /\ list'[q].state = IF q = hands[w].path THEN s ELSE list[q].state
      BY <1>1, <2>1, <2>2, PatchIs
    <2>5. TabTyped'
      BY <1>1, <1>2, <2>3, <2>4 DEF TabTyped
    <2>6. QueueInv'
      BY <1>1, <1>2, <2>3 DEF QueueInv
    <2>7. InHand'
      <3> SUFFICES ASSUME NEW q \in DOMAIN list', list'[q].state = "uploading"
                   PROVE  \E u \in Pool : hands'[u] # None /\ hands'[u].path = q
        BY DEF InHand
      <3>1. q # hands[w].path /\ q \in DOMAIN list /\ list[q].state = "uploading"
        BY <2>1, <2>4
      <3>2. PICK u \in Pool : hands[u] # None /\ hands[u].path = q
        BY <3>1 DEF TabInv, InHand
      <3> QED BY <2>3, <3>1, <3>2
    <2>8. OneFolder'
      <3>1. budget.picks # 0
        BY <1>1 DEF TabInv, OneFolder
      <3>2. ASSUME budget.picks = 1 PROVE \E f \in Folders : OfOne(f)'
        <4>1. PICK f \in Folders : OfOne(f)
          BY <3>2 DEF TabInv, OneFolder
        <4>2. OfOne(f)'
          BY <1>2, <2>3, <2>4, <4>1 DEF OfOne
        <4> QED BY <4>2
      <3> QED BY <1>2, <3>1, <3>2 DEF OneFolder
    <2>9. AnswersTrue'
      <3>1. \A u \in Pool : hands'[u] # None /\ hands'[u].reply = "ok" => <<pool'.coll, hands'[u].path, hands'[u].ver>> \in accepted'
        BY <1>2, <2>3 DEF TabInv, AnswersTrue
      <3>2. ASSUME NEW p \in DOMAIN list', list'[p].state = "done", budget'.picks <= 1
            PROVE  \E c \in Collections : <<c, p, list'[p].ver>> \in accepted'
        <4>1. CASE p = hands[w].path
          <5>1. hands[w].reply = "ok" /\ pool.coll \in Collections
            BY <1>1, <2>1, <2>4, <3>2, <4>1 DEF TabInv, AnswersTrue
          <5>2. <<pool.coll, p, hands[w].ver>> \in accepted
            BY <1>1, <4>1, <5>1 DEF TabInv, AnswersTrue
          <5>3. budget.picks = 1
            <6>1. budget.picks \in Nat /\ budget.picks <= 1 /\ budget.picks # 0
              BY <1>1, <1>2, <1>3, <3>2 DEF TabInv, OneFolder
            <6> QED BY <6>1
          <5>4. PICK f \in Folders : OfOne(f)
            BY <5>3 DEF TabInv, OneFolder
          <5>5. list'[p].ver = hands[w].ver
            BY <1>1, <2>4, <4>1, <5>4 DEF OfOne
          <5> QED BY <1>2, <5>1, <5>2, <5>5
        <4>2. CASE p # hands[w].path
          BY <1>2, <2>4, <3>2, <4>2 DEF TabInv, AnswersTrue
        <4> QED BY <4>1, <4>2
      <3> QED BY <1>1, <1>2, <3>1, <3>2 DEF TabInv, AnswersTrue
    <2> QED BY <2>5, <2>6, <2>7, <2>8, <2>9 DEF TabInv
  <1> QED BY <1>4, <1>5

---------------------------------------------------------------------------
(* What is stored *)

LEMMA StoredKeeps ==
  ASSUME TabInv, FilesInv, UplNext
  PROVE  FilesInv'
  <1>1. FilesTyped
    BY DEF FilesInv
  <1>2. CASE \E w \in Pool : Serve(w)
    <2> PICK w \in Pool : Serve(w)
      BY <1>2
    <2> DEFINE c == pool.coll
               p == hands[w].path
               v == hands[w].ver
    <2>1. pool \in Pools /\ c \in Collections /\ v \in FileVersions
      <3>1. hands[w] \in Hand /\ pool \in Pools
        BY DEF Serve, TabInv, TabTyped, QueueInv
      <3> QED BY <3>1 DEF Hand, Pools
    <2>2. TermFor(c, v) \in Slugs \cup {None}
      BY <2>1, UploadsAssumption DEF TermFor, Pools
    <2>3. sent' = sent \cup {<<c, p, TextOf[v], TermFor(c, v)>>}
      BY DEF Serve
    <2>4. held' = held \/ (Acceptable(c, v) /\ held' = [held EXCEPT ![c] = AfterUpload(c, p, v)])
      BY DEF Serve
    <2>5. CASE held' = held
      BY <2>3, <2>5 DEF FilesInv, FilesTyped, NoneUnscoped, TermsCameWithTheText
    <2>6. CASE Acceptable(c, v) /\ held' = [held EXCEPT ![c] = AfterUpload(c, p, v)] /\ held' # held
      <3> DEFINE file == [ver |-> v, term |-> IF Vocab[c] = None THEN None ELSE TermFor(c, v)]
      <3>1. held'[c] = AfterUpload(c, p, v) /\ (\A d \in Collections : d # c => held'[d] = held[d])
            /\ held' = [d \in Collections |-> held'[d]]
        BY <1>1, <2>1, <2>6 DEF FilesTyped
      <3>2. CASE p \in DOMAIN held[c] /\ TextOf[held[c][p].ver] = TextOf[v]
        <4>1. held'[c] = held[c]
          BY <3>1, <3>2 DEF AfterUpload
        <4>2. \A d \in Collections : held'[d] = held[d]
          BY <3>1, <4>1
        <4> QED BY <2>3, <3>1, <4>2 DEF FilesInv, FilesTyped, NoneUnscoped, TermsCameWithTheText
      <3>3. CASE ~(p \in DOMAIN held[c] /\ TextOf[held[c][p].ver] = TextOf[v])
        <4>1. held'[c] = [q \in DOMAIN held[c] \cup {p} |-> IF q = p THEN file ELSE held[c][q]]
          BY <3>1, <3>3 DEF AfterUpload
        <4>2. DOMAIN held'[c] = DOMAIN held[c] \cup {p} /\ held'[c][p] = file
              /\ \A q \in DOMAIN held'[c] : q # p => q \in DOMAIN held[c] /\ held'[c][q] = held[c][q]
          BY <4>1
        <4>3. file \in StoredFile /\ file.ver = v /\ (Vocab[c] # None => file.term = TermFor(c, v) /\ file.term # None)
          BY <2>1, <2>2, <2>6 DEF StoredFile, Acceptable
        <4> HIDE DEF file, c, p, v
        <4>4. FilesTyped'
          BY <1>1, <3>1, <4>2, <4>3 DEF FilesTyped
        <4>5. NoneUnscoped'
          BY <3>1, <4>2, <4>3 DEF FilesInv, NoneUnscoped
        <4>6. TermsCameWithTheText'
          BY <2>3, <3>1, <4>2, <4>3 DEF FilesInv, TermsCameWithTheText
        <4> QED BY <4>4, <4>5, <4>6 DEF FilesInv
      <3> QED BY <3>2, <3>3
    <2> QED BY <2>4, <2>5, <2>6
  <1>3. CASE Elsewhere
    <2>1. PICK c \in Collections : \E p \in DOMAIN held[c] :
             held' = [held EXCEPT ![c] = [q \in DOMAIN held[c] \ {p} |-> held[c][q]]]
      BY <1>3 DEF Elsewhere
    <2>2. PICK p \in DOMAIN held[c] : held' = [held EXCEPT ![c] = [q \in DOMAIN held[c] \ {p} |-> held[c][q]]]
      BY <2>1
    <2>3. \A d \in Collections : \A q \in DOMAIN held'[d] : q \in DOMAIN held[d] /\ held'[d][q] = held[d][q]
      BY <1>1, <2>2 DEF FilesTyped
    <2>4. held' = [d \in Collections |-> held'[d]]
      BY <1>1, <2>2 DEF FilesTyped
    <2>5. sent' = sent
      BY <1>3 DEF Elsewhere
    <2> QED BY <2>3, <2>4, <2>5 DEF FilesInv, FilesTyped, NoneUnscoped, TermsCameWithTheText
  <1>4. CASE UNCHANGED <<held, sent>>
    BY <1>4, FilesAside
  <1>5. UNCHANGED <<held, sent>> \/ Elsewhere \/ \E w \in Pool : Serve(w)
    BY DEF UplNext, Choose, DetailArrives, ChooseTerm, Pick, Hash, PlanPick, Run, RunEnds, Pause, Resume, Take, Answered
  <1> QED BY <1>2, <1>3, <1>4, <1>5

LEMMA UplInvNext == UplInv /\ [UplNext]_uplvars => UplInv'
  <1> SUFFICES ASSUME UplInv, [UplNext]_uplvars PROVE UplInv'
    OBVIOUS
  <1>1. TabInv /\ FilesInv
    BY DEF UplInv
  <1>2. CASE UNCHANGED uplvars
    <2>1. TabTyped' /\ QueueAside
      BY <1>1, <1>2 DEF TabInv, TabTyped, QueueAside, uplvars
    <2> QED BY <1>1, <1>2, <2>1, AsideKeeps, FilesAside DEF UplInv, uplvars
  <1>3. CASE UplNext
    <2>1. FilesInv'
      BY <1>1, <1>3, StoredKeeps
    <2>2. TabInv'
      BY <1>1, <1>3, FormKeeps, PickKeeps, HashKeeps, PlanPickKeeps, RunKeeps, TakeKeeps, ServeKeeps, AnsweredKeeps, RunEndsKeeps
         DEF UplNext
    <2> QED BY <2>1, <2>2 DEF UplInv
  <1> QED BY <1>2, <1>3

LEMMA UplInvPromises ==
  ASSUME UplInv
  PROVE  UplTypeOK /\ NoneUnscoped /\ OneHandEach /\ RunSettles /\ DoneWasAccepted /\ TermsCameWithTheText
  <1>1. TabTyped /\ QueueInv /\ InHand /\ AnswersTrue /\ FilesTyped /\ NoneUnscoped /\ TermsCameWithTheText
    BY DEF UplInv, TabInv, FilesInv
  <1>2. UplTypeOK
    BY <1>1 DEF UplTypeOK, TabTyped, FilesTyped
  <1>3. OneHandEach
    <2>1. ASSUME NEW w \in Pool, hands[w] # None
          PROVE  pool # None /\ \E i \in 1 .. (pool.cursor - 1) : pool.queue[i].path = hands[w].path
      <3>1. pool # None
        BY <1>1, <2>1 DEF QueueInv
      <3>2. pool.cursor \in Nat
        BY <1>1, <3>1 DEF TabTyped, Pools
      <3>3. PICK i \in 1 .. Len(pool.queue) : i < pool.cursor /\ pool.queue[i].path = hands[w].path
        BY <1>1, <2>1, <3>1 DEF QueueInv
      <3>4. i \in 1 .. (pool.cursor - 1)
        BY <3>2, <3>3
      <3> QED BY <3>1, <3>3, <3>4
    <2> QED BY <1>1, <2>1 DEF OneHandEach, QueueInv
  <1>4. RunSettles
    BY <1>1 DEF RunSettles, QueueInv, InHand, Among
  <1>5. DoneWasAccepted
    BY <1>1 DEF DoneWasAccepted, AnswersTrue, Among
  <1> QED BY <1>1, <1>2, <1>3, <1>4, <1>5

LEMMA UplSkips ==
  ASSUME UplNext, NEW k \in picks, k.at = "plan", k \notin picks', list' # list
  PROVE  \A p \in DOMAIN list' : list'[p].state = "skip" => p \in DOMAIN held[k.coll] /\ held[k.coll][p].ver = list'[p].ver
  <1>1. \A j \in picks : Hash(j) => FALSE
    BY DEF Hash
  <1>2. \A f : Pick(f) => FALSE
    BY DEF Pick
  <1>3. PICK j \in picks : PlanPick(j)
    BY <1>1, <1>2 DEF UplNext, Choose, DetailArrives, ChooseTerm, Run, RunEnds, Pause, Resume, Elsewhere, Take, Serve, Answered
  <1>4. j = k
    BY <1>3 DEF PlanPick
  <1> TAKE p \in DOMAIN list'
  <1>5. p \in DOMAIN k.files /\ list'[p] = [ver |-> k.files[p], state |-> IF StoredAlready(k.coll, p, k.files[p]) THEN "skip" ELSE "planned"]
    BY <1>3, <1>4 DEF PlanPick
  <1> QED BY <1>5 DEF StoredAlready

\* Whatever is picked, paused, tried again or answered late, no file is in two hands, none stays behind
\* uploading when a run ends, none is called done that was not accepted, none is skipped that is not
\* there, and none is stored without the term its collection asks for (UploadQueue.tsx and its two
\* routes, indexing/ingest.ts): for any folders, any number of workers and of attempts.
THEOREM UploadsCorrectAlways == UplSpec => UploadsCorrect
  <1>1. UplInv => (UplTypeOK /\ NoneUnscoped /\ OneHandEach /\ RunSettles /\ DoneWasAccepted /\ TermsCameWithTheText)
    BY UplInvPromises
  <1>2. [UplNext]_uplvars =>
          [\A k \in picks : (k.at = "plan" /\ k \notin picks' /\ list' # list)
             => \A p \in DOMAIN list' : list'[p].state = "skip" => p \in DOMAIN held[k.coll] /\ held[k.coll][p].ver = list'[p].ver]_uplvars
    BY UplSkips
  <1> QED BY UplInvInit, UplInvNext, <1>1, <1>2, PTL DEF UplSpec, UploadsCorrect, SkipsWhatIsHeld
=============================================================================
