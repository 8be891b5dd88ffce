------------------------------- MODULE Config -------------------------------
(***************************************************************************)
(* The project's configuration (packages/broker/src/config): warehousd.yml *)
(* and the operator's warehousd.local.yml merged over it, `${env:NAME}`    *)
(* references resolved from the environment, the rules of the schema, and  *)
(* what the rest of the system reads off a configuration that passed.      *)
(*                                                                         *)
(* A file is a set of edits: warehousd.yml is Written with `edits` made to *)
(* it, warehousd.local.yml holds the keys of `overlay`.  An edit sets one  *)
(* key, and no file sets a key twice, so their order is immaterial.        *)
(***************************************************************************)
EXTENDS Naturals, Sequences, FiniteSets, SequencesExt, FiniteSetsExt, Absent

CONSTANTS
  Written,     \* a configuration that passes: [collections, taxonomies, sources, settings]
  Edits,       \* the edits of warehousd.yml: [c, f, key, to], see Put
  Overlays,    \* the keys of warehousd.local.yml, in the same form; a `to` of None is a YAML null
  Variables,   \* the environment's names; a setting that is one of them is a reference to it
  Values,      \* the values a variable takes; "" among them
  Misnamed,    \* the names that fail their pattern, or hold "__"
  BytesOf,     \* the bytes of a field's name
  TsvOf,       \* the name of a field's search column
  MaxChanges   \* BOUND: changes of the operator

FileFields == {"title", "content", "path", "owner", "updated_at"}
Reserved == FileFields \cup {"id", "checksum", "file_id", "document_seq", "tsv", "_rank", "_acl"}
FileTypeOf(f) == IF f = "updated_at" THEN "timestamptz" ELSE "text"
FileMetadataTypes == {"text", "date", "timestamptz", "numeric", "int", "boolean"}
Provisionable == {"neon", "supabase"}

ASSUME ConfigAssumption ==
  /\ MaxChanges \in Nat
  /\ \A t \in Edits \cup Overlays : DOMAIN t = {"c", "f", "key", "to"}

VARIABLES
  edits, overlay,   \* overlay is None when there is no warehousd.local.yml
  env,              \* variable -> value; None when it is not defined
  listed,           \* what preflight found missing; None when it was not run since the last change
  loaded            \* [outcome, config] of the last load since then

configVars == <<edits, overlay, env, listed, loaded>>

---------------------------------------------------------------------------
(* Text: edits, references, and the merge of the two files *)

With(fn, k, v) == [x \in DOMAIN fn \cup {k} |-> IF x = k THEN v ELSE fn[x]]

\* Two edits of one key, or of a whole and of a part of it.
Overlap(e, g) ==
  /\ e.c = g.c
  /\ \/ e.f = g.f /\ (e.key = g.key \/ "whole" \in {e.key, g.key})
     \/ e.f = None /\ e.key = "whole"
     \/ g.f = None /\ g.key = "whole"

Put(cfg, e) ==
  IF e.c = "settings" THEN [cfg EXCEPT !.settings[e.key] = e.to]
  ELSE IF e.c = "taxonomies" THEN [cfg EXCEPT !.taxonomies = With(@, e.f, e.to)]
  ELSE IF e.f = None
       THEN IF e.key = "whole" THEN [cfg EXCEPT !.collections = With(@, e.c, e.to)]
                               ELSE [cfg EXCEPT !.collections[e.c][e.key] = e.to]
  ELSE IF e.key = "whole" THEN [cfg EXCEPT !.collections[e.c].fields = With(@, e.f, e.to)]
                          ELSE [cfg EXCEPT !.collections[e.c].fields[e.f][e.key] = e.to]

NodeAt(cfg, e) ==
  IF e.c = "settings" THEN cfg.settings[e.key]
  ELSE IF e.f = None THEN cfg.collections[e.c][e.key] ELSE cfg.collections[e.c].fields[e.f][e.key]

FileEntry(es) == FoldSet(LAMBDA e, cfg : Put(cfg, e), Written, es)

Resolve(v) == IF v \in Variables THEN env[v] ELSE v
\* The references of each file; those in its comments are left alone.
BaseRefs == LET settings == FileEntry(edits).settings IN {settings[k] : k \in DOMAIN settings} \cap Variables
OverlayRefs == IF overlay = None THEN {} ELSE {e.to : e \in {g \in overlay : g.c = "settings"}} \cap Variables

\* envRefs: the names both files refer to, for the operator to set before a deployment.
EnvRefs == BaseRefs \cup OverlayRefs

\* interpolate throws on the first name that is not defined.
Unresolved == \E n \in BaseRefs \cup OverlayRefs : env[n] = None

\* The keys whose value is an object, and a posture in its long form.
IsObject(e, was) == \/ e.key \in {"mask", "rel", "join", "ref", "import", "embedding"} /\ was # None
                    \/ e.key = "posture" /\ was.form = "long"

(* deepMerge: a scalar or a list of the overlay takes the base's place; a null keeps
   it, and stands in the merged file where the base has nothing; a null over an object
   throws; a string over an object adds keys to it that nothing reads. *)
Merge(cfg, e) ==
  LET was == NodeAt(cfg, e)
      to  == IF e.c = "settings" THEN Resolve(e.to) ELSE e.to
  IN IF was # None /\ (to = None \/ (e.c = "settings" /\ to = "")) THEN cfg
     ELSE IF e.key = "posture" /\ was.form = "long" /\ to.form = "short" THEN cfg
     ELSE Put(cfg, [e EXCEPT !.to = to])

ThrowsOn(cfg) == IF overlay = None THEN FALSE
               ELSE \/ overlay = {}
                    \/ \E e \in overlay : e.to = None /\ IsObject(e, NodeAt(cfg, e))
Nulls(cfg) == IF overlay = None THEN FALSE ELSE \E e \in overlay : e.to = None /\ NodeAt(cfg, e) = None

Interpolated(cfg) == [cfg EXCEPT !.settings = [k \in DOMAIN @ |-> Resolve(@[k])]]
Merged == LET base == Interpolated(FileEntry(edits)) IN
          IF overlay = None THEN base ELSE FoldSet(LAMBDA e, cfg : Merge(cfg, e), base, overlay)

---------------------------------------------------------------------------
(* Postures *)

\* normalizePosture: the short form never writes; unmask counts under mask alone.
Normal(p) ==
  IF p.form = "short" THEN [form |-> "long", read |-> p.read, write |-> "deny", unmask |-> "deny"]
  ELSE [p EXCEPT !.unmask = IF p.read = "mask" THEN @ ELSE "deny"]
ReadAs(f) == Normal(f.posture).read
WritePosture(f) == Normal(f.posture).write
Unmask(f) == Normal(f.posture).unmask

\* PostureSchema: the short form is allow or deny.
PostureShape(p) == p.form = "short" => p.read # "mask"

MaskTypes(transform) ==
  CASE transform \in {"last4", "first", "domain"} -> {"text"}
    [] transform = "bucket" -> {"numeric", "int"}
    [] transform = "year"   -> {"date", "timestamptz"}
    [] OTHER                -> {"uuid", "text", "numeric", "int", "timestamptz", "date", "boolean", "json"}

\* MaskSchema: `chars` of first is 1 to 64, `width` of bucket is positive.
MaskShape(m) == m # None => /\ (m.transform = "first" => m.amount \in 1..64)
                            /\ (m.transform = "bucket" => m.amount > 0)

RelationMaxLimit == 50
\* RelationSchema, in both its forms.
RelationShape(r) ==
  r # None => /\ r.select # <<>> /\ DOMAIN r.select # {}
              /\ \A s \in DOMAIN r.select : PostureShape(r.select[s].posture) /\ MaskShape(r.select[s].mask)
              /\ (r.form = "many" => r.limit \in 1..RelationMaxLimit)

FieldShape(f) == PostureShape(f.posture) /\ MaskShape(f.mask) /\ RelationShape(f.rel)

---------------------------------------------------------------------------
(* The rules of one collection: they read it as it was written, before the transform below *)

ColumnFields(c) == DOMAIN c.fields
Stored(c) == {f \in ColumnFields(c) : c.fields[f].join = None /\ c.fields[f].rel = None}
Masked(c) == {f \in ColumnFields(c) : ReadAs(c.fields[f]) = "mask" /\ c.fields[f].mask # None}
PkOf(c) == {f \in ColumnFields(c) : c.fields[f].pk}
\* kindOf(c).aclKeyField: the primary key of a dataset, `path` of a file collection.
AclKeyField(c) == IF c.type = "file" THEN {"path"} ELSE PkOf(c)

FieldRules(c) == ColumnFields(c) \cap (Misnamed \cup {"_acl"}) = {}

\* A bound vocabulary's field is text and no key.
TaxonomyRules(c) ==
  \A t \in c.taxonomies \cap ColumnFields(c) :
    LET f == c.fields[t] IN f.type \in {None, "text"} /\ ~f.pk /\ f.fk = None /\ f.join = None

ViewJoinRules(c) ==
  \A n \in ColumnFields(c) : LET f == c.fields[n] IN
    f.join # None => /\ f.join.on \in ColumnFields(c) /\ c.fields[f.join.on].fk # None
                     /\ c.fields[f.join.on].fk[1] = f.join.table
                     /\ WritePosture(f) = "deny"

\* A to-one relation goes through a field with a reference to its collection; a relation has no column.
RelationRules(c) ==
  \A n \in ColumnFields(c) : LET f == c.fields[n] IN
    f.rel # None =>
      /\ f.rel.form = "one" => /\ f.rel.on \in ColumnFields(c) /\ c.fields[f.rel.on].fk # None
                               /\ c.fields[f.rel.on].fk[1] = f.rel.collection
                               /\ c.fields[f.rel.on].rel = None
      /\ WritePosture(f) = "deny"
      /\ f.type = None /\ ~f.pk /\ f.fk = None /\ f.join = None /\ ~f.searchable

DatasetRules(c) ==
  c.type = "dataset" => \A n \in ColumnFields(c) \ c.taxonomies : c.fields[n].type # None \/ c.fields[n].rel # None

FileRules(c) ==
  c.type = "file" => /\ c.source # None
                     /\ \A n \in ColumnFields(c) \ (FileFields \cup c.taxonomies) :
                          LET f == c.fields[n] IN f.type \in FileMetadataTypes /\ ~f.pk /\ f.fk = None /\ f.join = None

ImportRules(c) ==
  c.import # None =>
    /\ c.type = "dataset"
    /\ \A h \in DOMAIN c.import : c.import[h] \in ColumnFields(c) /\ c.fields[c.import[h]].join = None
    /\ \A g, h \in DOMAIN c.import : c.import[g] = c.import[h] => g = h

SearchableRules(c) ==
  \A n \in ColumnFields(c) : c.fields[n].searchable =>
    c.type = "dataset" /\ c.fields[n].type = "text" /\ TsvOf[n] \notin ColumnFields(c)

\* indexName of a collection of 30 bytes has to fit Postgres's 63.
IndexNameBytes(ix) == FoldSeq(LAMBDA f, n : n + BytesOf[f], 30 + 4 + Len(ix) - 1, ix)
IndexRules(c) ==
  c.indexes # <<>> =>
    /\ c.type = "dataset"
    /\ \A ix \in ToSet(c.indexes) :
         /\ Len(ix) \in 1..4 /\ IsInjective(ix) /\ IndexNameBytes(ix) <= 63
         /\ ToSet(ix) \subseteq {n \in Stored(c) : c.fields[n].type # "json"}
    /\ IsInjective(c.indexes)

WritableRules(c) == c.writable => \E n \in ColumnFields(c) : WritePosture(c.fields[n]) = "allow"
AclRules(c) == c.acl => c.ref = None /\ AclKeyField(c) # {}

\* An external collection is a dataset that is only read; only its fields rename a column.
SourceRefRules(c) ==
  IF c.ref = None THEN \A n \in ColumnFields(c) : c.fields[n].column = None
  ELSE /\ c.type = "dataset" /\ c.source = None /\ ~c.writable
       /\ \A n \in ColumnFields(c) : c.fields[n].join = None /\ c.fields[n].rel = None /\ ~c.fields[n].searchable

\* A transform exactly under read: mask, never of a key or an indexed text, and of a type it takes.
MaskRules(c) ==
  \A n \in ColumnFields(c) : LET f == c.fields[n] IN
    /\ (ReadAs(f) = "mask") = (f.mask # None)
    /\ f.posture.unmask = "allow" => ReadAs(f) = "mask"
    /\ n \in Masked(c) => /\ ~f.pk /\ ~f.searchable
                          /\ c.type = "file" => n \notin {"content", "path"}
                          /\ f.type # None => f.type \in MaskTypes(f.mask.transform)

CollectionOK(c) ==
  /\ \A n \in ColumnFields(c) : FieldShape(c.fields[n])
  /\ FieldRules(c) /\ TaxonomyRules(c) /\ ViewJoinRules(c) /\ RelationRules(c) /\ DatasetRules(c)
  /\ FileRules(c) /\ ImportRules(c) /\ SearchableRules(c) /\ IndexRules(c) /\ WritableRules(c)
  /\ AclRules(c) /\ SourceRefRules(c) /\ MaskRules(c)

TermField == [type |-> "text", posture |-> [form |-> "long", read |-> "allow", write |-> "deny", unmask |-> "deny"],
              mask |-> None, column |-> None, pk |-> FALSE, fk |-> None, join |-> None, rel |-> None,
              searchable |-> FALSE]

\* Mutant: a vocabulary's field is only given its type where it is declared.
FilledDeclared(c) ==
  [c EXCEPT !.fields = [n \in ColumnFields(c) |->
     LET f == [c.fields[n] EXCEPT !.posture = Normal(@)] IN
     IF f.type # None THEN f
     ELSE IF c.type = "file" THEN [f EXCEPT !.type = FileTypeOf(n)]
     ELSE IF n \in c.taxonomies THEN [f EXCEPT !.type = "text"] ELSE f]]

(* The transform: postures in their long form, a text field for every vocabulary the
   collection binds, and a type for each field of a file. *)
Filled(c) ==
  [c EXCEPT !.fields = [n \in ColumnFields(c) \cup c.taxonomies |->
     IF n \notin ColumnFields(c) THEN TermField
     ELSE LET f == [c.fields[n] EXCEPT !.posture = Normal(@)] IN
          IF f.type # None THEN f
          ELSE IF c.type = "file" THEN [f EXCEPT !.type = FileTypeOf(n)]
          ELSE IF n \in c.taxonomies THEN [f EXCEPT !.type = "text"] ELSE f]]

---------------------------------------------------------------------------
(* The rules across collections, read off the transformed ones *)

VocabularyOK(slug, v) ==
  /\ slug \notin Misnamed \cup Reserved
  /\ (v.terms = None) # (v.source = None)
  /\ v.terms # None => v.terms \cap Misnamed = {}

SourceReaches(cfg, v) ==
  v.source # None => /\ v.source.collection \in DOMAIN cfg.collections
                     /\ LET src == cfg.collections[v.source.collection] IN
                        src.type = "dataset" /\ {v.source.slug, v.source.label} \subseteq ColumnFields(src)

\* A source is looked up for the vocabularies that some collection binds.
VocabulariesReach(cfg) ==
  \A n \in DOMAIN cfg.collections : \A t \in cfg.collections[n].taxonomies :
    t \in DOMAIN cfg.taxonomies /\ SourceReaches(cfg, cfg.taxonomies[t])

SourcesReach(cfg) ==
  \A n \in DOMAIN cfg.collections : LET c == cfg.collections[n] IN c.ref # None => c.ref.source \in cfg.sources

(* A relation's target is a dataset with the fields it selects, none of them a relation;
   a to-many one comes back through a reference to the host that an index starts with. *)
RelationReaches(cfg, n, r) ==
  /\ r.collection \in DOMAIN cfg.collections /\ cfg.collections[r.collection].type = "dataset"
  /\ LET target == cfg.collections[r.collection] IN
     /\ \A s \in DOMAIN r.select : s \in ColumnFields(target) /\ target.fields[s].rel = None
     /\ r.form = "many" => /\ {r.via, r.order} \subseteq ColumnFields(target)
                           /\ target.fields[r.via].fk # None /\ target.fields[r.via].fk[1] = n
                           /\ \E ix \in ToSet(target.indexes) : ix[1] = r.via

RelationsReachable(cfg) ==
  \A n \in DOMAIN cfg.collections : \A f \in ColumnFields(cfg.collections[n]) :
    LET r == cfg.collections[n].fields[f].rel IN r # None => RelationReaches(cfg, n, r)

\* A provider names who runs the local database, which a url replaces.
DatabaseOK(s) == ~(s["database.provider"] # None /\ s["database.url"] # None)

\* Exactly one of managed and url; a region only where a provider creates the database.
DeployOK(s) ==
  s["deploy.target"] # None =>
    /\ (s["deploy.managed"] = "yes") # (s["deploy.url"] # None)
    /\ s["deploy.managed"] = "yes" /\ s["deploy.provider"] # None => s["deploy.provider"] \in Provisionable
    /\ s["deploy.region"] # None => s["deploy.managed"] = "yes" /\ s["deploy.provider"] # None

EmbeddingOK(s) ==
  s["embedding.provider"] # None =>
    /\ s["embedding.provider"] = "http" => s["embedding.base_url"] # None
    /\ s["embedding.provider"] = "local" => s["embedding.base_url"] = None /\ s["embedding.api_key"] = None

AuditOK(s) == (s["audit.sink"] = "webhook") = (s["audit.url"] # None)

\* A text that is empty after interpolation is a null where a string is due.
NoNulls(s) == \A k \in DOMAIN s : s[k] # ""

SettingsOK(s) == NoNulls(s) /\ DatabaseOK(s) /\ DeployOK(s) /\ EmbeddingOK(s) /\ AuditOK(s)

Transformed(cfg) == [cfg EXCEPT !.collections = [n \in DOMAIN @ |-> Filled(@[n])]]

ConfigOK(cfg) ==
  /\ DOMAIN cfg.collections \cap Misnamed = {}
  /\ \A n \in DOMAIN cfg.collections : CollectionOK(cfg.collections[n])
  /\ \A t \in DOMAIN cfg.taxonomies : VocabularyOK(t, cfg.taxonomies[t])
  /\ SettingsOK(cfg.settings)
  /\ LET filled == Transformed(cfg) IN
     SourcesReach(filled) /\ VocabulariesReach(filled) /\ RelationsReachable(filled)

---------------------------------------------------------------------------
(* What is read off a loaded configuration *)

GrantableFields(c) == {f \in ColumnFields(c) : ReadAs(c.fields[f]) # "deny"}
UnmaskableFields(c) == {f \in ColumnFields(c) : Unmask(c.fields[f]) = "allow"}
MaskedFieldsFor(c, unmasked) == {f \in ColumnFields(c) : ReadAs(c.fields[f]) = "mask"} \ unmasked
WritableFields(c) == {f \in ColumnFields(c) : WritePosture(c.fields[f]) = "allow"}

SupportedVerbs(c) ==
  IF ~c.writable THEN {} ELSE IF c.type = "file" THEN {"create"} ELSE {"create", "update", "delete"}

\* kindOf(c).searchable: the search column of a file, or those of the fields that say so.
SearchColumns(c) == IF c.type = "file" THEN {"tsv"} ELSE {TsvOf[f] : f \in {g \in ColumnFields(c) : c.fields[g].searchable}}
Revisable(cfg) == {n \in DOMAIN cfg.collections : "update" \in SupportedVerbs(cfg.collections[n])}


---------------------------------------------------------------------------
(* The operator and the commands *)

Nothing == [outcome |-> "none", config |-> None]
Refused(outcome) == [outcome |-> outcome, config |-> None]

Changed == Cardinality(edits) + (IF overlay = None THEN 0 ELSE Cardinality(overlay))
           + Cardinality({n \in Variables : env[n] # "set"})
Change == Changed' <= MaxChanges /\ listed' = None /\ loaded' = Nothing

Edit(e) ==
  /\ \A g \in edits : ~Overlap(e, g)
  /\ edits' = edits \cup {e} /\ UNCHANGED <<overlay, env>> /\ Change

EditLocal(e) ==
  /\ overlay # None => \A g \in overlay : ~Overlap(e, g)
  /\ overlay' = (IF overlay = None THEN {} ELSE overlay) \cup {e} /\ UNCHANGED <<edits, env>> /\ Change

TouchLocal == overlay = None /\ overlay' = {} /\ UNCHANGED <<edits, env>> /\ Change

SetVariable(n, v) ==
  env[n] # v /\ env' = [env EXCEPT ![n] = v] /\ UNCHANGED <<edits, overlay>> /\ Change

\* preflight: the references of both files that the environment does not define.
Preflight ==
  /\ listed' = {n \in EnvRefs : env[n] = None}
  /\ UNCHANGED <<edits, overlay, env, loaded>>

\* loadConfig: interpolate both files, merge, validate, transform.
LoadConfig ==
  /\ loaded' = IF Unresolved THEN Refused("unresolved")
               ELSE IF ThrowsOn(Interpolated(FileEntry(edits))) THEN Refused("threw")
               ELSE IF Nulls(Interpolated(FileEntry(edits))) \/ ~ConfigOK(Merged) THEN Refused("invalid")
               ELSE [outcome |-> "loaded", config |-> Transformed(Merged)]
  /\ UNCHANGED <<edits, overlay, env, listed>>

ConfigInit ==
  /\ edits = {} /\ overlay = None
  /\ env = [n \in Variables |-> "set"]
  /\ listed = None /\ loaded = Nothing

ConfigNext ==
  \/ \E e \in Edits : Edit(e)
  \/ \E e \in Overlays : EditLocal(e)
  \/ TouchLocal
  \/ \E n \in Variables, v \in Values \cup {None} : SetVariable(n, v)
  \/ Preflight
  \/ LoadConfig

ConfigSpec == ConfigInit /\ [][ConfigNext]_configVars

---------------------------------------------------------------------------
(* What a configuration that loaded is relied on for *)

Activated == IF loaded.outcome = "loaded" THEN DOMAIN loaded.config.collections ELSE {}
C(n) == loaded.config.collections[n]

ConfigTypeOK ==
  /\ edits \subseteq Edits /\ (overlay # None => overlay \subseteq Overlays)
  /\ env \in [Variables -> Values \cup {None}]
  /\ listed # None => listed \subseteq Variables
  /\ loaded.outcome \in {"none", "loaded", "unresolved", "threw", "invalid"}
  /\ (loaded.config = None) = (loaded.outcome # "loaded")
  /\ \A n \in Activated : \A f \in ColumnFields(C(n)) : C(n).fields[f].posture.form = "long"

(* A field that some caller reads masked has a transform to show him, is not the key
   a document is addressed by, and is in no search column; what a grant may carry raw
   is masked for those whose grant does not. *)
MasksAreReal ==
  \A n \in Activated :
    /\ \A f \in MaskedFieldsFor(C(n), {}) :
         /\ C(n).fields[f].mask # None
         /\ f \notin AclKeyField(C(n)) \cup PkOf(C(n))
         /\ TsvOf[f] \notin SearchColumns(C(n))
    /\ UnmaskableFields(C(n)) \subseteq MaskedFieldsFor(C(n), {}) \cap GrantableFields(C(n))

(* What is written, indexed or bound to a vocabulary has a column of a known type in the
   collection's own table, so that the DDL and the write verbs agree on the columns. *)
ColumnsExist ==
  \A n \in Activated : LET c == C(n) IN
    /\ c.type = "dataset" => WritableFields(c) \cup UNION {ToSet(ix) : ix \in ToSet(c.indexes)} \subseteq Stored(c)
    /\ \A f \in Stored(c) : c.fields[f].type # None
    /\ c.taxonomies \subseteq {f \in ColumnFields(c) : c.fields[f].type = "text"}

(* A relation that loaded can be expanded: its reference, its target's fields and, for
   the to-many form, an index that its lookup can use are there, in whichever file and
   in whichever order they were declared. *)
RelationsExpand ==
  \A n \in Activated : \A f \in ColumnFields(C(n)) \ Stored(C(n)) : LET r == C(n).fields[f].rel IN
    r # None =>
      /\ r.collection \in Activated
      /\ IF r.form = "one" THEN r.on \in Stored(C(n))
         ELSE /\ r.via \in Stored(C(r.collection)) /\ r.order \in ColumnFields(C(r.collection))
              /\ \E i \in DOMAIN C(r.collection).indexes : C(r.collection).indexes[i][1] = r.via
      /\ DOMAIN r.select \subseteq ColumnFields(C(r.collection))

(* A collection that another database holds is read and nothing else: no verb, no
   revision, no access list, no search column of its own, whatever else is declared. *)
ExternalIsRead ==
  \A n \in Activated : C(n).ref # None =>
    /\ SupportedVerbs(C(n)) = {} /\ n \notin Revisable(loaded.config)
    /\ ~C(n).acl /\ SearchColumns(C(n)) = {}
    /\ Stored(C(n)) = ColumnFields(C(n))

(* envRefs "is the read-only counterpart" of interpolate: a preflight that misses nothing
   is followed by a load that resolves every reference, and one that lists a name by a
   load that would have thrown. *)
PreflightIsExact ==
  listed # None /\ loaded.outcome # "none" => (listed # {}) = (loaded.outcome = "unresolved")

(* "Optional, gitignored.  Deep-merged over the base": what warehousd.local.yml says of a
   field's posture is what is in force.  NOT KEPT: a short posture over a long one adds
   keys that nothing reads, and the long one stands. *)
OverlayDecides ==
  loaded.outcome = "loaded" /\ overlay # None =>
    \A e \in overlay : e.key = "posture" => ReadAs(C(e.c).fields[e.f]) = Normal(e.to).read

\* The promises of a configuration that loads, together.
ConfigCorrect ==
  /\ ConfigTypeOK /\ MasksAreReal /\ ColumnsExist /\ RelationsExpand /\ ExternalIsRead
  /\ PreflightIsExact
=============================================================================
