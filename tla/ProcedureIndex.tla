--------------------------- MODULE ProcedureIndex ---------------------------
(***************************************************************************)
(* The procedure corpus and the index built from it: authors edit the      *)
(* manuals and the manifest, validate_procedure_corpus.py checks them,     *)
(* build_procedure_embedding_index.py turns them into the index file, and  *)
(* the server loads that file when it starts.  The three programs run side *)
(* by side over the same files.                                            *)
(*                                                                         *)
(* A program reads the manifest and each manual in a step of its own.  The *)
(* file is replaced in one step, the rename of write_json_atomic.  Hashes  *)
(* stand for what was hashed: an index holds what its build has read.      *)
(***************************************************************************)
EXTENDS ProcedureCorpus

CONSTANTS Required,      \* the manuals' files, in the validator's order
          Deferred,      \* those it expects in the manifest's excluded list
          Builders,      \* runs of the index builder
          Models, NoModel,
          Settings,      \* the configurations a program may be started with
          BatchSize,     \* nvidia_embed_batch_size
          Drafts,        \* what an author may make of a manual, NoManual included
          Manifests,     \* and of the manifest
          Situations     \* [manifest, manuals, left]: where a behaviour begins

Files == ToSet(Required)

Entry    == [file : Files, id : Files]
Manifest == [active : Seq(Entry), excluded : Seq(Entry)]

\* What is wrong with a manual: with its text (the required sections, its
\* claims, oxygen levels and mapped actions), and with its metadata.
TextFlaws == {"sections", "claim", "level", "mapping"}
DataFlaws == {"schema", "action", "telemetry", "scenario", "source"}

\* What ProcedureMetadata refuses, too.
Contract == {"schema", "action", "source"}

\* A manual: what its metadata say, its encoding, its flaws and its lines.
Manual ==
  [id : Files, file : Files, status : {"ACTIVE", "PARTIAL", "DEFERRED"},
   encoding : {"utf8", "bom", "other"}, flaws : SUBSET (TextFlaws \cup DataFlaws),
   text : Seq(Kinds \cup {"spaces"})]

NoManual == [encoding |-> "missing"]

\* A build: the manifest and the manuals it has read, the chunks of each, how
\* many of them have a vector, whether some vector is zero, the model, and,
\* for the properties only, the number of edits before it began.
Work ==
  [manifest : Manifest, read : Seq(Manual), parts : Seq(Seq([path : Seq(Nat),
     blocks : Seq([first : Nat, last : Nat])])),
   vectors : Nat, flat : BOOLEAN, model : Models \cup {NoModel}, mark : Nat]

NoWork ==
  [manifest |-> [active |-> <<>>, excluded |-> <<>>], read |-> <<>>, parts |-> <<>>,
   vectors |-> 0, flat |-> FALSE, model |-> NoModel, mark |-> 0]

NoSettings == [model |-> NoModel]

VARIABLES
  manifest, manuals,    \* corpus_manifest.json and the manuals
  index,                \* the index file, NoWork while there is none
  stage, work,          \* of each builder
  checker,              \* the validator's run
  verdict,              \* its last report
  server,               \* [settings, index]: the running backend
  past,                 \* the corpora that edits have replaced, for the properties
  left                  \* what may still happen (bounds)

vars == <<manifest, manuals, index, stage, work, checker, verdict, server, past, left>>
corpus == <<manifest, manuals, past>>

NoCheck == [pc |-> "idle", manifest |-> NoWork.manifest, todo |-> <<>>,
            ids |-> {}, ok |-> FALSE, mark |-> 0]

Down == [settings |-> NoSettings, index |-> NoWork]

Corpus == [manifest : Manifest, manuals : [Files -> Manual \cup {NoManual}]]

\* What the corpus has been, one version an edit, down to what it is.
Versions == Append(past, [manifest |-> manifest, manuals |-> manuals])

edits == Len(past)

Budget == [edits : Nat, builds : Nat, faults : Nat, crashes : Nat, checks : Nat, starts : Nat]

ASSUME IndexAssumption ==
  /\ Required \in Seq(Files)
  /\ Deferred \subseteq Files
  /\ NoModel \notin Models
  /\ Settings \subseteq [key : BOOLEAN, model : Models, defaultTopK : Nat,
                        plannerTopK : Nat, maxTopK : Nat, rerank : Nat]
  /\ BatchSize \in Nat \ {0}
  /\ Manifests \subseteq Manifest
  /\ \A f \in Files : Drafts[f] \subseteq Manual \cup {NoManual}
  /\ \A s \in Situations :
       /\ s.manifest \in Manifest
       /\ s.manuals \in [Files -> Manual \cup {NoManual}]
       /\ s.left \in Budget

Size(w) == Len(FlattenSeq(w.parts))

\* The type invariant; a build has no more vectors than chunks.
TypeOK ==
  /\ manifest \in Manifest
  /\ manuals \in [Files -> Manual \cup {NoManual}]
  /\ index \in Work
  /\ stage \in [Builders -> {"idle", "starting", "working"}]
  /\ work \in [Builders -> Work]
  /\ \A b \in Builders : work[b].vectors <= Size(work[b])
  /\ checker \in [pc : {"idle", "checking"}, manifest : Manifest, todo : Seq(Files),
                  ids : SUBSET (Files \X Files), ok : BOOLEAN, mark : Nat]
  /\ verdict \in [result : {"none", "PASS", "FAIL"}, mark : Nat]
  /\ server \in [settings : Settings \cup {NoSettings}, index : Work]
  /\ past \in Seq(Corpus)
  /\ left \in Budget

Init ==
  /\ \E s \in Situations :
       manifest = s.manifest /\ manuals = s.manuals /\ left = s.left
  /\ index = NoWork
  /\ stage = [b \in Builders |-> "idle"]
  /\ work = [b \in Builders |-> NoWork]
  /\ checker = NoCheck
  /\ verdict = [result |-> "none", mark |-> 0]
  /\ server = Down
  /\ past = <<>>

Spend(what) == left[what] > 0 /\ left' = [left EXCEPT ![what] = @ - 1]

----------------------------------------------------------------------------
(* The authors *)

EditManual(f, m) ==
  /\ Spend("edits")
  /\ manuals' = [manuals EXCEPT ![f] = m]
  /\ past' = Versions
  /\ UNCHANGED <<manifest, index, stage, work, checker, verdict, server>>

EditManifest(m) ==
  /\ Spend("edits")
  /\ manifest' = m
  /\ past' = Versions
  /\ UNCHANGED <<manuals, index, stage, work, checker, verdict, server>>

----------------------------------------------------------------------------
(* The configuration *)

Positive(s) == \A n \in {s.defaultTopK, s.plannerTopK, s.maxTopK, s.rerank} : n > 0

ValidUnlessPlanner(s) ==
  Positive(s) /\ s.defaultTopK <= s.maxTopK /\ s.maxTopK <= s.rerank

\* The rules between its limits, without which no program starts.
Valid(s) ==
  /\ Positive(s)
  /\ s.defaultTopK <= s.maxTopK
  /\ s.plannerTopK <= s.maxTopK
  /\ s.maxTopK <= s.rerank

----------------------------------------------------------------------------
(* The index builder *)

Entries(m) == m.active \o m.excluded

\* CorpusManifest: no file and no id twice, in one list or across the two.
Unambiguous(m) ==
  \A i, j \in DOMAIN Entries(m) :
    i # j => /\ Entries(m)[i].file # Entries(m)[j].file
             /\ Entries(m)[i].id # Entries(m)[j].id

\* Why a manual ends the build: it cannot be read, has a byte order mark, no
\* single metadata block or one that breaks its contract, or is not the manual
\* that the manifest names.
Refused(entry, m) ==
  \/ m = NoManual
  \/ m.encoding # "utf8"
  \/ ~ HasMetadata(Normalized(m.text)) \/ m.flaws \cap Contract # {}
  \/ m.id # entry.id \/ m.file # entry.file

PartOfEither(w, m) == Chunks(Normalized(m.text))

\* The chunks of the manual that is read next.  A document of the excluded
\* list is read and described, and has none.
PartOf(w, m) ==
  IF Len(w.read) < Len(w.manifest.active) THEN Chunks(Normalized(m.text)) ELSE <<>>

AllRead(w) == Len(w.read) = Len(Entries(w.manifest))

\* However a build ends, the next one starts from nothing.
EndsKeepingRead(b) ==
  /\ stage' = [stage EXCEPT ![b] = "idle"]
  /\ work' = [work EXCEPT ![b] = [@ EXCEPT !.model = NoModel, !.mark = 0]]

Ends(b) ==
  /\ stage' = [stage EXCEPT ![b] = "idle"]
  /\ work' = [work EXCEPT ![b] = NoWork]

StartBuild(b, s) ==
  /\ stage[b] = "idle" /\ Spend("builds")
  /\ Valid(s) /\ s.key
  /\ stage' = [stage EXCEPT ![b] = "starting"]
  /\ work' = [work EXCEPT ![b] = [@ EXCEPT !.model = s.model, !.mark = edits]]
  /\ UNCHANGED <<corpus, index, checker, verdict, server>>

ReadManifest(b) ==
  /\ stage[b] = "starting"
  /\ IF Unambiguous(manifest)
     THEN /\ stage' = [stage EXCEPT ![b] = "working"]
          /\ work' = [work EXCEPT ![b] = [@ EXCEPT !.manifest = manifest]]
     ELSE Ends(b)
  /\ UNCHANGED <<corpus, index, checker, verdict, server, left>>

ReadManual(b) ==
  /\ stage[b] = "working" /\ ~ AllRead(work[b])
  /\ LET entry == Entries(work[b].manifest)[Len(work[b].read) + 1]
         m     == manuals[entry.file]
     IN  IF Refused(entry, m)
         THEN Ends(b)
         ELSE /\ work' = [work EXCEPT ![b] =
                   [work[b] EXCEPT !.read = Append(@, m),
                                   !.parts = Append(@, PartOf(work[b], m))]]
              /\ UNCHANGED stage
  /\ UNCHANGED <<corpus, index, checker, verdict, server, left>>

EmbedWholeBatches(b) ==
  /\ stage[b] = "working" /\ AllRead(work[b]) /\ work[b].vectors < Size(work[b])
  /\ \E flat \in BOOLEAN :
       /\ IF flat THEN Spend("faults") ELSE UNCHANGED left
       /\ work' = [work EXCEPT ![b] =
            [work[b] EXCEPT !.vectors = @ + BatchSize, !.flat = @ \/ flat]]
  /\ UNCHANGED <<corpus, index, stage, checker, verdict, server>>

\* The vectors of the next batch, BatchSize or the rest, of the right
\* number and dimension; that none of them is zero is not checked.
EmbedBatch(b) ==
  /\ stage[b] = "working" /\ AllRead(work[b])
  /\ \E n \in 1 .. BatchSize, flat \in BOOLEAN :
       /\ work[b].vectors + n <= Size(work[b])
       /\ n < BatchSize => work[b].vectors + n = Size(work[b])
       /\ IF flat THEN Spend("faults") ELSE UNCHANGED left
       /\ work' = [work EXCEPT ![b] =
            [work[b] EXCEPT !.vectors = @ + n, !.flat = @ \/ flat]]
  /\ UNCHANGED <<corpus, index, stage, checker, verdict, server>>

\* The provider fails, or answers with a wrong count or a bad vector; or the
\* file cannot be written.
BuildFails(b) ==
  /\ stage[b] = "working" /\ AllRead(work[b]) /\ Spend("faults")
  /\ Ends(b)
  /\ UNCHANGED <<corpus, index, checker, verdict, server>>

SaveAsRead(b) ==
  /\ stage[b] = "working" /\ AllRead(work[b])
  /\ index' = work[b]
  /\ Ends(b)
  /\ UNCHANGED <<corpus, checker, verdict, server, left>>

Save(b) ==
  /\ stage[b] = "working" /\ AllRead(work[b]) /\ work[b].vectors = Size(work[b])
  /\ index' = work[b]
  /\ Ends(b)
  /\ UNCHANGED <<corpus, checker, verdict, server, left>>

BuilderDies(b) ==
  /\ stage[b] # "idle" /\ Spend("crashes")
  /\ Ends(b)
  /\ UNCHANGED <<corpus, index, checker, verdict, server>>

----------------------------------------------------------------------------
(* The validator *)

FilesOf(entries) == {e.file : e \in ToSet(entries)}

\* What must hold of the two files for which no source is available.
DeferredPolicy(m, f, mf) ==
  f \in Deferred =>
    /\ m.status = "DEFERRED"
    /\ f \notin FilesOf(mf.active) /\ m.id \notin {e.id : e \in ToSet(mf.active)}
    /\ f \in FilesOf(mf.excluded)

\* A manual with a title, one metadata section, metadata of its own name and
\* contents the standard allows.
ManualPasses(m, f, mf) ==
  /\ \E i \in DOMAIN m.text : m.text[i] = "h1" /\ (m.encoding = "bom" => i > 1)
  /\ Cardinality({i \in DOMAIN m.text : m.text[i] = "meta"}) = 1
  /\ HasMetadata(Normalized(m.text))
  /\ m.file = f /\ m.flaws = {}
  /\ DeferredPolicy(m, f, mf)

ManifestPasses(mf, ids) ==
  /\ Unambiguous(mf)
  /\ FilesOf(mf.active) = Files \ Deferred
  /\ FilesOf(mf.excluded) = Deferred
  /\ \A e \in ToSet(Entries(mf)) : <<e.file, e.id>> \in ids
  /\ \A p, q \in ids : p[2] = q[2] => p = q

StartCheck ==
  /\ checker.pc = "idle" /\ Spend("checks")
  /\ checker' = [pc |-> "checking", manifest |-> manifest, todo |-> Required, ids |-> {},
                 ok |-> NoManual \notin {manuals[f] : f \in Files}, mark |-> edits]
  /\ UNCHANGED <<corpus, index, stage, work, verdict, server>>

\* A file that is not text ends the script with no report.
CheckManual ==
  /\ checker.pc = "checking" /\ checker.todo # <<>>
  /\ LET f == Head(checker.todo)
         m == manuals[f]
     IN  checker' =
           IF m = NoManual THEN [checker EXCEPT !.todo = Tail(@)]
           ELSE IF m.encoding = "other" THEN NoCheck
           ELSE [checker EXCEPT
                   !.todo = Tail(@),
                   !.ids = IF HasMetadata(Normalized(m.text)) THEN @ \cup {<<f, m.id>>} ELSE @,
                   !.ok = @ /\ ManualPasses(m, f, checker.manifest)]
  /\ UNCHANGED <<corpus, index, stage, work, verdict, server, left>>

Report ==
  /\ checker.pc = "checking" /\ checker.todo = <<>>
  /\ verdict' = [result |-> IF checker.ok /\ ManifestPasses(checker.manifest, checker.ids)
                            THEN "PASS" ELSE "FAIL",
                 mark |-> checker.mark]
  /\ checker' = NoCheck
  /\ UNCHANGED <<corpus, index, stage, work, server, left>>

----------------------------------------------------------------------------
(* The server *)

Exists(i) == i.model # NoModel

LoadAnyModel(s) == IF s.key /\ Exists(index) THEN index ELSE NoWork

\* load_compatible, given the model only: of a file that is stale in any other
\* way nothing is known.  Without an index there is no retrieval.
Load(s) == IF s.key /\ Exists(index) /\ index.model = s.model THEN index ELSE NoWork

StartServer(s) ==
  /\ server = Down /\ Spend("starts")
  /\ Valid(s)
  /\ server' = [settings |-> s, index |-> Load(s)]
  /\ UNCHANGED <<corpus, index, stage, work, checker, verdict>>

\* The file is there and cannot be read.
StartWithout(s) ==
  /\ server = Down /\ Spend("faults")
  /\ Valid(s) /\ Exists(index)
  /\ server' = [settings |-> s, index |-> NoWork]
  /\ UNCHANGED <<corpus, index, stage, work, checker, verdict>>

StopServer ==
  /\ server # Down
  /\ server' = Down
  /\ UNCHANGED <<corpus, index, stage, work, checker, verdict, left>>

\* Retrieval needs an index, and planning needs retrieval.
Available == Exists(server.index)

\* retrieve with a request for k matches, at a server that has an index.
Retrieve(k) ==
  LET n == server.index.vectors
  IN  IF k > server.settings.maxTopK THEN [status |-> "invalid", count |-> 0]
      ELSE IF server.index.flat THEN [status |-> "error", count |-> 0]
      ELSE [status |-> "ok", count |-> Min({k, server.settings.rerank, n})]

\* query_retrieval, k = 0 when the request names no top_k, and the planner's.
RouteQuery(k) == Retrieve(IF k = 0 THEN server.settings.defaultTopK ELSE k)
PlannerQuery  == Retrieve(server.settings.plannerTopK)

----------------------------------------------------------------------------
Build(b) ==
  \/ ReadManifest(b) \/ ReadManual(b) \/ EmbedBatch(b) \/ BuildFails(b) \/ Save(b)
  \/ BuilderDies(b)
  \/ \E s \in Settings : StartBuild(b, s)

Author ==
  \/ \E f \in Files : \E m \in Drafts[f] : EditManual(f, m)
  \/ \E m \in Manifests : EditManifest(m)

Next ==
  \/ Author
  \/ \E b \in Builders : Build(b)
  \/ StartCheck \/ CheckManual \/ Report
  \/ \E s \in Settings : StartServer(s) \/ StartWithout(s)
  \/ StopServer

Spec == Init /\ [][Next]_vars

----------------------------------------------------------------------------
(* Properties *)

\* A finished build: it has read all that the manifest lists, has chunks of no
\* document but the active ones, and a vector for each chunk.
Complete(w) ==
  /\ AllRead(w) /\ DOMAIN w.parts = DOMAIN w.read
  /\ \A i \in DOMAIN w.parts : i > Len(w.manifest.active) => w.parts[i] = <<>>
  /\ w.vectors = Size(w)

View(w) ==
  IF ~ Exists(w) THEN NoModel
  ELSE [source |-> IF Complete(w) THEN [manifest |-> w.manifest, read |-> w.read]
                   ELSE NoModel,
        model  |-> w.model]

Promise ==
  INSTANCE PublishedIndex WITH
    Sources   <- [manifest : Manifest, read : Seq(Manual)],
    Nothing   <- NoModel,
    published <- View(index),
    serving   <- View(server.index),
    using     <- server.settings.model

\* The programs together keep the promise of PublishedIndex, through edits
\* under a build, provider, storage and read errors, crashes, builds side by
\* side and a change of the model.
IndexKeepsPromise == Promise!Spec

\* What is published of each active document can be found by its text: nothing
\* is dropped, repeated, reordered, cut where it must not be, or filed under a
\* heading it does not stand under.
ChunksKeepText ==
  \A i \in 1 .. Len(index.manifest.active) :
    KeepsText(Normalized(index.read[i].text), index.parts[i])

\* What w holds are things that stood in the files, each at the moment it was
\* read: the manifest at some version vs[at[0]] of the corpus that is no older
\* than the build, and the manuals it lists, in their order, at that version or
\* a later one.
Stood(w, vs) ==
  \E at \in [0 .. Len(w.read) -> w.mark + 1 .. Len(vs)] :
    /\ w.manifest = vs[at[0]].manifest
    /\ \A i \in DOMAIN w.read :
         /\ at[i - 1] <= at[i]
         /\ w.read[i] = vs[at[i]].manuals[Entries(w.manifest)[i].file]

\* However authors edit under a build and whatever builds run beside it or ran
\* before it, the published index is what its own build found in the files, all
\* of it: nothing that an edit had replaced before the build began, nothing that
\* was never there, and no manual as it was before the one read ahead of it.
BuiltFromFiles == Exists(index) => AllRead(index) /\ Stood(index, Versions)

Undisturbed == Exists(index) /\ index.mark = edits

\* If nobody edited anything since its build began, and the validator passed that
\* corpus, then nothing in the index was objected to, and no text of a procedure
\* whose sources are missing can be retrieved.
DeferredStayOut ==
  Undisturbed /\ verdict.result = "PASS" /\ verdict.mark = edits =>
    \A i \in DOMAIN index.read :
      /\ index.read[i].flaws = {}
      /\ index.read[i].file \in Deferred =>
           index.read[i].status = "DEFERRED" /\ index.parts[i] = <<>>

\* Only a procedure of status ACTIVE is evidence that a server retrieves.
OnlyActiveRetrieved ==
  \A i \in DOMAIN server.index.parts :
    server.index.parts[i] # <<>> => server.index.read[i].status = "ACTIVE"

\* A server that has an index answers a request without top_k, one within the
\* limit, and the planner's own, with as many matches as were asked for or as
\* there are; but for an index with a zero vector.
QueriesHonoured ==
  Available /\ ~ server.index.flat =>
    LET s == server.settings
        Honoured(answer, k) ==
          answer = [status |-> "ok", count |-> IF k < Size(server.index) THEN k
                                               ELSE Size(server.index)]
    IN  /\ Honoured(RouteQuery(0), s.defaultTopK)
        /\ \A k \in 1 .. s.maxTopK : Honoured(RouteQuery(k), k)
        /\ Honoured(PlannerQuery, s.plannerTopK)
=============================================================================
