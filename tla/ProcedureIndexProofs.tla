------------------------ MODULE ProcedureIndexProofs ------------------------
(***************************************************************************)
(* Proofs about ProcedureIndex for every set of manuals, builders, models  *)
(* and configurations, every batch size and every number of edits and      *)
(* faults.  What Chunks makes of a text, ProcedureCorpusProofs says.        *)
(***************************************************************************)
EXTENDS ProcedureIndex, ProcedureCorpusProofs

----------------------------------------------------------------------------
(* The inductive invariant *)

\* The chunks that a document can have.
PartSet == {<<>>} \cup {Chunks(Normalized(t)) : t \in Texts}

Progress ==
  [manifest : Manifest, read : Seq(Manual), parts : Seq(PartSet), vectors : Nat,
   flat : BOOLEAN, model : Models \cup {NoModel}, mark : Nat]

Check ==
  [pc : {"idle", "checking"}, manifest : Manifest, todo : Seq(Files),
   ids : SUBSET (Files \X Files), ok : BOOLEAN, mark : Nat]

Typed ==
  /\ manifest \in Manifest
  /\ manuals \in [Files -> Manual \cup {NoManual}]
  /\ index \in Progress
  /\ stage \in [Builders -> {"idle", "starting", "working"}]
  /\ work \in [Builders -> Progress]
  /\ checker \in Check
  /\ verdict \in [result : {"none", "PASS", "FAIL"}, mark : Nat]
  /\ server \in [settings : Settings \cup {NoSettings}, index : Progress]
  /\ past \in Seq(Corpus)

\* What a build has read so far, and the chunks of just that.
Faithful(w) ==
  /\ w.model \in Models
  /\ Len(w.parts) = Len(w.read)
  /\ Len(w.read) <= Len(Entries(w.manifest))
  /\ \A i \in 1 .. Len(w.parts) :
       w.parts[i] = IF i <= Len(w.manifest.active)
                    THEN Chunks(Normalized(w.read[i].text)) ELSE <<>>

WorkInv ==
  \A b \in Builders :
    /\ work[b].mark <= edits
    /\ stage[b] = "idle" => work[b] = NoWork
    /\ stage[b] = "starting" =>
         work[b].model \in Models /\ work[b].read = <<>> /\ work[b].parts = <<>>
    /\ stage[b] = "working" => Faithful(work[b]) /\ Stood(work[b], Versions)

Finished(w) == Faithful(w) /\ AllRead(w) /\ w.vectors = Size(w)

IndexInv ==
  /\ index.mark <= edits
  /\ IF Exists(index) THEN Finished(index) /\ Stood(index, Versions)
     ELSE index = NoWork

ServerInv ==
  /\ Exists(server.index) =>
       Finished(server.index) /\ server.index.model = server.settings.model
  /\ server = Down \/ (server.settings \in Settings /\ Valid(server.settings))

Passed(f) == manuals[f] # NoManual /\ ManualPasses(manuals[f], f, manifest)

CheckInv ==
  /\ checker.mark <= edits /\ verdict.mark <= edits
  /\ checker.pc = "checking" /\ checker.mark = edits =>
       /\ checker.manifest = manifest
       /\ checker.ok => /\ \A f \in Files : manuals[f] # NoManual
                        /\ \A f \in Files \ ToSet(checker.todo) : Passed(f)
  /\ verdict.result = "PASS" /\ verdict.mark = edits =>
       /\ \A f \in Files : Passed(f)
       /\ FilesOf(manifest.active) = Files \ Deferred
       /\ FilesOf(manifest.excluded) = Deferred

IInv == Typed /\ WorkInv /\ IndexInv /\ ServerInv /\ CheckInv

----------------------------------------------------------------------------
(* Lemmas about manifests, manuals and builds *)

LEMMA Concatenated ==
  ASSUME NEW S, NEW a \in Seq(S), NEW b \in Seq(S)
  PROVE  /\ a \o b \in Seq(S)
         /\ Len(a \o b) = Len(a) + Len(b)
         /\ \A i \in 1 .. Len(a) : (a \o b)[i] = a[i]
         /\ \A i \in 1 .. Len(a \o b) : (a \o b)[i] \in S
<1>1. a \o b \in Seq(S)
  OBVIOUS
<1>2. Len(a \o b) = Len(a) + Len(b)
  OBVIOUS
<1>3. \A i \in 1 .. Len(a) : (a \o b)[i] = a[i]
  OBVIOUS
<1>4. ASSUME NEW c \in Seq(S) PROVE \A i \in 1 .. Len(c) : c[i] \in S
  OBVIOUS
<1>. QED
  BY <1>1, <1>2, <1>3, <1>4

\* The entries of a manifest: the active ones, then the excluded ones.
LEMMA EntriesAre ==
  ASSUME NEW m \in Manifest
  PROVE  /\ Entries(m) \in Seq(Entry)
         /\ Len(Entries(m)) = Len(m.active) + Len(m.excluded)
         /\ \A i \in 1 .. Len(Entries(m)) :
              /\ Entries(m)[i] \in Entry /\ Entries(m)[i].file \in Files
              /\ i <= Len(m.active) => Entries(m)[i] = m.active[i]
<1>1. m.active \in Seq(Entry) /\ m.excluded \in Seq(Entry)
  BY DEF Manifest
<1>2. /\ Entries(m) \in Seq(Entry)
      /\ Len(Entries(m)) = Len(m.active) + Len(m.excluded)
      /\ \A i \in 1 .. Len(m.active) : Entries(m)[i] = m.active[i]
      /\ \A i \in 1 .. Len(Entries(m)) : Entries(m)[i] \in Entry
  BY <1>1, Concatenated, Zenon DEF Entries
<1>3. \A e \in Entry : e.file \in Files
  BY DEF Entry
<1>4. ASSUME NEW i \in 1 .. Len(Entries(m)), i <= Len(m.active)
      PROVE  Entries(m)[i] = m.active[i]
  <2>1. i \in Int /\ 1 <= i
    OBVIOUS
  <2>2. i \in 1 .. Len(m.active)
    BY <2>1, <1>1, <1>4
  <2>. QED
    BY <2>2, <1>2
<1>. QED
  BY <1>2, <1>3, <1>4, Zenon

\* A build that has not begun, and what it has.
LEMMA NoWorkTyped ==
  /\ NoWork \in Progress
  /\ NoWork.manifest \in Manifest
  /\ NoWork.model = NoModel /\ NoWork.mark = 0 /\ NoWork.vectors = 0
  /\ NoWork.read = <<>> /\ NoWork.parts = <<>>
  /\ ~ Exists(NoWork)
BY DEF NoWork, Progress, Manifest, Exists

LEMMA DownIs ==
  /\ Down \in [settings : Settings \cup {NoSettings}, index : Progress]
  /\ Down.index = NoWork /\ Down.settings = NoSettings /\ NoSettings.model = NoModel
BY NoWorkTyped DEF Down, NoSettings

\* The chunks that a build adds are those of the manual, or none.
LEMMA PartTyped ==
  ASSUME NEW w \in Progress, NEW m \in Manual
  PROVE  /\ PartOf(w, m) \in PartSet
         /\ PartOf(w, m) = IF Len(w.read) + 1 <= Len(w.manifest.active)
                           THEN Chunks(Normalized(m.text)) ELSE <<>>
<1>1. m.text \in Texts
  BY DEF Manual, Texts
<1>2. Len(w.read) \in Nat /\ Len(w.manifest.active) \in Nat
  BY DEF Progress, Manifest
<1>. QED
  BY <1>1, <1>2 DEF PartOf, PartSet

\* A manual that is not refused is one that can be read.
LEMMA NotRefused ==
  ASSUME NEW m \in Manual \cup {NoManual}, NEW e, ~ Refused(e, m)
  PROVE  m \in Manual
BY DEF Refused

LEMMA Appended ==
  ASSUME NEW S, NEW s \in Seq(S), NEW x \in S
  PROVE  /\ Append(s, x) \in Seq(S)
         /\ Len(Append(s, x)) = Len(s) + 1
         /\ \A i \in 1 .. Len(s) : Append(s, x)[i] = s[i]
         /\ Append(s, x)[Len(s) + 1] = x
OBVIOUS

----------------------------------------------------------------------------
(* Lemmas about the versions of the corpus *)

\* The last version is what stands in the files.
LEMMA VersionsAre ==
  ASSUME Typed
  PROVE  /\ edits \in Nat /\ Versions \in Seq(Corpus) /\ Len(Versions) = edits + 1
         /\ Versions[edits + 1].manifest = manifest
         /\ Versions[edits + 1].manuals = manuals
<1>. DEFINE now == [manifest |-> manifest, manuals |-> manuals]
<1>1. past \in Seq(Corpus) /\ now \in Corpus
  BY DEF Typed, Corpus
<1>2. now.manifest = manifest /\ now.manuals = manuals
  OBVIOUS
<1>. HIDE DEF now
<1>3. /\ Len(past) \in Nat /\ Append(past, now) \in Seq(Corpus)
      /\ Len(Append(past, now)) = Len(past) + 1 /\ Append(past, now)[Len(past) + 1] = now
  BY <1>1, Appended
<1>. QED
  BY <1>2, <1>3 DEF Versions, edits, now

LEMMA SameVersions ==
  ASSUME UNCHANGED corpus
  PROVE  edits' = edits /\ Versions' = Versions /\ manifest' = manifest /\ manuals' = manuals
BY DEF corpus, edits, Versions

\* What stood in the files stood there, whatever is edited afterwards.
LEMMA StoodBefore ==
  ASSUME NEW w, NEW vs \in Seq(Corpus), NEW x \in Corpus, Stood(w, vs), w.mark \in Nat,
         w.read \in Seq(Manual)
  PROVE  Stood(w, Append(vs, x))
<1>1. PICK at \in [0 .. Len(w.read) -> w.mark + 1 .. Len(vs)] :
        /\ w.manifest = vs[at[0]].manifest
        /\ \A i \in DOMAIN w.read :
             /\ at[i - 1] <= at[i]
             /\ w.read[i] = vs[at[i]].manuals[Entries(w.manifest)[i].file]
  BY DEF Stood
<1>. DEFINE more == Append(vs, x)
<1>2. Len(vs) \in Nat /\ Len(more) = Len(vs) + 1 /\ \A v \in 1 .. Len(vs) : more[v] = vs[v]
  BY Appended
<1>3. /\ Len(w.read) \in Nat /\ DOMAIN w.read = 1 .. Len(w.read)
      /\ w.mark + 1 .. Len(vs) \subseteq 1 .. Len(vs)
  BY <1>2
<1>. HIDE DEF more
<1>4. \A i \in 0 .. Len(w.read) : at[i] \in 1 .. Len(vs) /\ more[at[i]] = vs[at[i]]
  BY <1>1, <1>2, <1>3
<1>5. at \in [0 .. Len(w.read) -> w.mark + 1 .. Len(more)]
  <2>1. w.mark + 1 .. Len(vs) \subseteq w.mark + 1 .. Len(more)
    BY <1>2
  <2>. QED
    BY <1>1, <2>1
<1>6. /\ w.manifest = more[at[0]].manifest
      /\ \A i \in DOMAIN w.read :
           /\ at[i - 1] <= at[i]
           /\ w.read[i] = more[at[i]].manuals[Entries(w.manifest)[i].file]
  <2>1. 0 \in 0 .. Len(w.read) /\ DOMAIN w.read \subseteq 0 .. Len(w.read)
    BY <1>3
  <2>2. more[at[0]] = vs[at[0]] /\ \A i \in DOMAIN w.read : more[at[i]] = vs[at[i]]
    BY <1>4, <2>1
  <2>. QED
    BY <1>1, <2>2
<1>7. Stood(w, more)
  BY <1>5, <1>6, Zenon DEF Stood
<1>. QED
  BY <1>7 DEF more

\* It says nothing of vectors and model.
LEMMA StoodSame ==
  ASSUME NEW u, NEW w, NEW vs, Stood(u, vs),
         w.mark = u.mark, w.manifest = u.manifest, w.read = u.read
  PROVE  Stood(w, vs)
<1>1. PICK at \in [0 .. Len(u.read) -> u.mark + 1 .. Len(vs)] :
        /\ u.manifest = vs[at[0]].manifest
        /\ \A i \in DOMAIN u.read :
             /\ at[i - 1] <= at[i]
             /\ u.read[i] = vs[at[i]].manuals[Entries(u.manifest)[i].file]
  BY DEF Stood
<1>2. at \in [0 .. Len(w.read) -> w.mark + 1 .. Len(vs)]
  BY <1>1
<1>3. /\ w.manifest = vs[at[0]].manifest
      /\ \A i \in DOMAIN w.read :
           /\ at[i - 1] <= at[i]
           /\ w.read[i] = vs[at[i]].manuals[Entries(w.manifest)[i].file]
  BY <1>1
<1>. QED
  BY <1>2, <1>3, Zenon DEF Stood

\* A build that reads the manifest, and nothing before it.
LEMMA StoodFirst ==
  ASSUME NEW w, NEW vs \in Seq(Corpus), w.read = <<>>, w.mark \in Nat, w.mark < Len(vs),
         w.manifest = vs[Len(vs)].manifest
  PROVE  Stood(w, vs)
<1>. DEFINE at == [i \in 0 .. Len(w.read) |-> Len(vs)]
<1>1. Len(w.read) = 0 /\ DOMAIN w.read = {} /\ Len(vs) \in w.mark + 1 .. Len(vs)
  OBVIOUS
<1>2. at \in [0 .. Len(w.read) -> w.mark + 1 .. Len(vs)] /\ at[0] = Len(vs)
  BY <1>1
<1>. QED
  BY <1>1, <1>2 DEF Stood

\* A build that reads one more manual, as it stands now.
LEMMA StoodNext ==
  ASSUME NEW old, NEW w, NEW vs \in Seq(Corpus), Stood(old, vs),
         old.mark \in Nat, old.mark < Len(vs), old.read \in Seq(Manual),
         w.mark = old.mark, w.manifest = old.manifest,
         w.read \in Seq(Manual), Len(w.read) = Len(old.read) + 1,
         \A i \in 1 .. Len(old.read) : w.read[i] = old.read[i],
         w.read[Len(old.read) + 1]
           = vs[Len(vs)].manuals[Entries(old.manifest)[Len(old.read) + 1].file]
  PROVE  Stood(w, vs)
<1>1. PICK at \in [0 .. Len(old.read) -> old.mark + 1 .. Len(vs)] :
        /\ old.manifest = vs[at[0]].manifest
        /\ \A i \in DOMAIN old.read :
             /\ at[i - 1] <= at[i]
             /\ old.read[i] = vs[at[i]].manuals[Entries(old.manifest)[i].file]
  BY DEF Stood
<1>. DEFINE n  == Len(old.read)
            to == [i \in 0 .. n + 1 |-> IF i <= n THEN at[i] ELSE Len(vs)]
<1>2. /\ n \in Nat /\ DOMAIN old.read = 1 .. n /\ DOMAIN w.read = 1 .. n + 1
      /\ Len(vs) \in old.mark + 1 .. Len(vs)
  OBVIOUS
<1>. HIDE DEF n
<1>3. \A i \in 0 .. n : to[i] = at[i] /\ at[i] \in old.mark + 1 .. Len(vs) /\ at[i] <= Len(vs)
  <2>1. \A i \in 0 .. n : at[i] \in old.mark + 1 .. Len(vs)
    BY <1>1 DEF n
  <2>. QED
    BY <1>2, <2>1
<1>4. to \in [0 .. Len(w.read) -> w.mark + 1 .. Len(vs)]
  <2>1. Len(w.read) = n + 1 /\ w.mark = old.mark
    BY DEF n
  <2>2. ASSUME NEW i \in 0 .. n + 1
        PROVE  (IF i <= n THEN at[i] ELSE Len(vs)) \in old.mark + 1 .. Len(vs)
    <3>1. CASE i <= n
      <4>1. i \in 0 .. n
        BY <1>2, <3>1
      <4>. QED
        BY <1>3, <3>1, <4>1
    <3>2. CASE ~ (i <= n)
      BY <1>2, <3>2
    <3>. QED
      BY <3>1, <3>2
  <2>. QED
    BY <2>1, <2>2
<1>. HIDE DEF to
<1>5. ASSUME NEW i \in 1 .. n + 1
      PROVE  /\ to[i - 1] <= to[i]
             /\ w.read[i] = vs[to[i]].manuals[Entries(w.manifest)[i].file]
  <2>1. CASE i \in 1 .. n
    <3>1. to[i] = at[i] /\ to[i - 1] = at[i - 1]
      BY <1>2, <1>3, <2>1
    <3>2. i \in DOMAIN old.read /\ w.read[i] = old.read[i]
      <4>1. i \in 1 .. Len(old.read)
        BY <2>1 DEF n
      <4>. QED
        BY <4>1
    <3>3. /\ at[i - 1] <= at[i]
          /\ old.read[i] = vs[at[i]].manuals[Entries(old.manifest)[i].file]
      BY <1>1, <3>2
    <3>. QED
      BY <3>1, <3>2, <3>3
  <2>2. CASE i = n + 1
    <3>1. to[i] = Len(vs) /\ to[i - 1] = at[n]
      BY <1>2, <1>3, <2>2 DEF to
    <3>2. n \in 0 .. n
      BY <1>2
    <3>3. at[n] <= Len(vs)
      BY <1>3, <3>2
    <3>4. w.read[n + 1] = vs[Len(vs)].manuals[Entries(w.manifest)[n + 1].file]
      BY DEF n
    <3>. QED
      BY <2>2, <3>1, <3>3, <3>4
  <2>. QED
    BY <1>2, <2>1, <2>2
<1>6. to[0] = at[0]
  BY <1>2, <1>3
<1>7. w.manifest = vs[to[0]].manifest
  BY <1>1, <1>6
<1>. QED
  BY <1>2, <1>4, <1>5, <1>7 DEF Stood

\* A build under which nobody edited holds the corpus as it is.
LEMMA StoodNow ==
  ASSUME Typed, NEW w, w.mark = edits, w.read \in Seq(Manual), Stood(w, Versions)
  PROVE  /\ w.manifest = manifest
         /\ \A i \in 1 .. Len(w.read) : w.read[i] = manuals[Entries(manifest)[i].file]
<1>1. PICK at \in [0 .. Len(w.read) -> w.mark + 1 .. Len(Versions)] :
        /\ w.manifest = Versions[at[0]].manifest
        /\ \A i \in DOMAIN w.read :
             w.read[i] = Versions[at[i]].manuals[Entries(w.manifest)[i].file]
  BY DEF Stood
<1>2. Len(w.read) \in Nat /\ DOMAIN w.read = 1 .. Len(w.read)
  OBVIOUS
<1>3. /\ edits \in Nat /\ Len(Versions) = edits + 1
      /\ Versions[edits + 1].manifest = manifest /\ Versions[edits + 1].manuals = manuals
  BY VersionsAre
<1>4. \A n \in edits + 1 .. Len(Versions) : n = edits + 1
  BY <1>3
<1>5. \A i \in 0 .. Len(w.read) : at[i] = edits + 1
  BY <1>1, <1>4
<1>6. w.manifest = manifest
  <2>1. at[0] = edits + 1
    BY <1>2, <1>5
  <2>. QED BY <1>1, <1>3, <2>1
<1>7. ASSUME NEW i \in 1 .. Len(w.read)
      PROVE  w.read[i] = manuals[Entries(manifest)[i].file]
  <2>1. at[i] = edits + 1
    BY <1>2, <1>5
  <2>2. w.read[i] = Versions[at[i]].manuals[Entries(w.manifest)[i].file]
    BY <1>1, <1>2
  <2>. QED BY <1>3, <1>6, <2>1, <2>2
<1>. QED
  BY <1>6, <1>7

----------------------------------------------------------------------------
(* The initial states, and the steps that change one thing *)

LEMMA InitImpliesIInv == Init => IInv
<1>. SUFFICES ASSUME Init PROVE IInv
  OBVIOUS
<1>1. PICK s \in Situations : manifest = s.manifest /\ manuals = s.manuals
  BY DEF Init
<1>2. manifest \in Manifest /\ manuals \in [Files -> Manual \cup {NoManual}]
  BY <1>1, IndexAssumption
<1>3. NoCheck \in Check /\ NoCheck.pc = "idle" /\ NoCheck.mark = 0
  BY NoWorkTyped DEF NoCheck, Check
<1>4. Typed
  BY <1>2, <1>3, NoWorkTyped, DownIs DEF Init, Typed
<1>5. edits = 0
  BY DEF Init, edits
<1>6. WorkInv
  BY <1>5, NoWorkTyped DEF Init, WorkInv
<1>7. IndexInv /\ ServerInv
  BY <1>5, NoWorkTyped, DownIs DEF Init, IndexInv, ServerInv
<1>8. CheckInv
  BY <1>3, <1>5 DEF Init, CheckInv
<1>. QED
  BY <1>4, <1>6, <1>7, <1>8 DEF IInv

\* What holds of files that nobody edits.
LEMMA WorkFrame ==
  ASSUME IInv, UNCHANGED <<corpus, stage, work>>
  PROVE  WorkInv'
<1>1. edits' = edits /\ Versions' = Versions
  BY SameVersions
<1>. QED
  BY <1>1 DEF IInv, WorkInv, Faithful

LEMMA IndexFrame ==
  ASSUME IInv, UNCHANGED <<corpus, index>>
  PROVE  IndexInv'
<1>1. edits' = edits /\ Versions' = Versions
  BY SameVersions
<1>. QED
  BY <1>1 DEF IInv, IndexInv, Exists, Finished, Faithful, AllRead, Size

LEMMA ServerFrame ==
  ASSUME IInv, UNCHANGED server
  PROVE  ServerInv'
BY DEF IInv, ServerInv

LEMMA CheckFrame ==
  ASSUME IInv, UNCHANGED <<corpus, checker, verdict>>
  PROVE  CheckInv'
BY SameVersions DEF IInv, CheckInv, Passed

\* A step of one builder, which leaves it at stage s with the build w.
LEMMA WorkStep ==
  ASSUME IInv, UNCHANGED corpus, NEW b \in Builders,
         NEW s \in {"idle", "starting", "working"}, NEW w \in Progress,
         stage' = [stage EXCEPT ![b] = s], work' = [work EXCEPT ![b] = w],
         w.mark <= edits,
         s = "idle" => w = NoWork,
         s = "starting" => w.model \in Models /\ w.read = <<>> /\ w.parts = <<>>,
         s = "working" => Faithful(w) /\ Stood(w, Versions)
  PROVE  /\ stage' \in [Builders -> {"idle", "starting", "working"}]
         /\ work' \in [Builders -> Progress]
         /\ WorkInv'
<1>1. /\ stage \in [Builders -> {"idle", "starting", "working"}]
      /\ work \in [Builders -> Progress]
  BY DEF IInv, Typed
<1>2. edits' = edits /\ Versions' = Versions
  BY SameVersions
<1>3. ASSUME NEW c \in Builders
      PROVE  /\ work'[c].mark <= edits
             /\ stage'[c] = "idle" => work'[c] = NoWork
             /\ stage'[c] = "starting" =>
                  work'[c].model \in Models /\ work'[c].read = <<>> /\ work'[c].parts = <<>>
             /\ stage'[c] = "working" => Faithful(work'[c]) /\ Stood(work'[c], Versions)
  <2>1. CASE c = b
    BY <2>1, <1>1
  <2>2. CASE c # b
    <3>1. stage'[c] = stage[c] /\ work'[c] = work[c]
      BY <2>2, <1>1
    <3>. QED
      BY <3>1 DEF IInv, WorkInv
  <2>. QED
    BY <2>1, <2>2
<1>4. WorkInv'
  BY <1>2, <1>3, SMTT(30) DEF WorkInv, Faithful
<1>. QED
  BY <1>1, <1>4

\* A builder that stops, for whatever reason.
LEMMA EndsKeepsWork ==
  ASSUME IInv, UNCHANGED corpus, NEW b \in Builders, Ends(b)
  PROVE  /\ stage' \in [Builders -> {"idle", "starting", "working"}]
         /\ work' \in [Builders -> Progress]
         /\ WorkInv'
<1>1. NoWork \in Progress /\ NoWork.mark <= edits
  BY NoWorkTyped, VersionsAre DEF IInv
<1>2. stage' = [stage EXCEPT ![b] = "idle"] /\ work' = [work EXCEPT ![b] = NoWork]
  BY DEF Ends
<1>. QED
  BY <1>1, <1>2, WorkStep

\* A step that changes nothing but what the builders have.
LEMMA BuilderStep ==
  ASSUME IInv, UNCHANGED <<corpus, index, checker, verdict, server>>,
         stage' \in [Builders -> {"idle", "starting", "working"}],
         work' \in [Builders -> Progress], WorkInv'
  PROVE  IInv'
<1>1. Typed'
  BY DEF IInv, Typed, corpus
<1>. QED
  BY <1>1, IndexFrame, ServerFrame, CheckFrame DEF IInv

LEMMA StartBuildStep ==
  ASSUME IInv, NEW b \in Builders, NEW s \in Settings, StartBuild(b, s)
  PROVE  IInv'
<1> DEFINE w == [work[b] EXCEPT !.model = s.model, !.mark = edits]
<1>1. work[b] = NoWork /\ edits \in Nat /\ work \in [Builders -> Progress]
  BY VersionsAre DEF StartBuild, IInv, WorkInv, Typed
<1>2. s.model \in Models
  BY IndexAssumption
<1>3. w \in Progress
  BY <1>1, <1>2 DEF Progress
<1>4. w.read = NoWork.read /\ w.parts = NoWork.parts
  BY <1>1 DEF NoWork
<1>5. w.model = s.model /\ w.mark = edits
  BY <1>1 DEF Progress
<1>6. /\ stage' = [stage EXCEPT ![b] = "starting"] /\ work' = [work EXCEPT ![b] = w]
      /\ UNCHANGED <<corpus, index, checker, verdict, server>>
  BY DEF StartBuild
<1> HIDE DEF w
<1>7. w.mark <= edits
  BY <1>1, <1>5
<1>8. /\ stage' \in [Builders -> {"idle", "starting", "working"}]
      /\ work' \in [Builders -> Progress] /\ WorkInv'
  BY <1>2, <1>3, <1>4, <1>5, <1>6, <1>7, NoWorkTyped, WorkStep
<1>. QED
  BY <1>6, <1>8, BuilderStep

LEMMA ReadManifestStep ==
  ASSUME IInv, NEW b \in Builders, ReadManifest(b)
  PROVE  IInv'
<1>1. UNCHANGED <<corpus, index, checker, verdict, server>>
  BY DEF ReadManifest
<1>2. CASE Ends(b)
  BY <1>1, <1>2, EndsKeepsWork, BuilderStep
<1>3. CASE ~ Ends(b)
  <2> DEFINE w == [work[b] EXCEPT !.manifest = manifest]
  <2>1. stage' = [stage EXCEPT ![b] = "working"] /\ work' = [work EXCEPT ![b] = w]
    BY <1>3 DEF ReadManifest
  <2>2. work[b] \in Progress /\ manifest \in Manifest
    BY DEF IInv, Typed
  <2>3. /\ work[b].mark <= edits /\ work[b].model \in Models
        /\ work[b].read = <<>> /\ work[b].parts = <<>>
    BY DEF ReadManifest, IInv, WorkInv
  <2>4. w \in Progress
    BY <2>2 DEF Progress
  <2>5. /\ w.mark = work[b].mark /\ w.model = work[b].model /\ w.manifest = manifest
        /\ w.read = work[b].read /\ w.parts = work[b].parts
    BY <2>2 DEF Progress
  <2> HIDE DEF w
  <2>6. Len(Entries(manifest)) \in Nat
    BY <2>2, EntriesAre
  <2>7. Faithful(w)
    BY <2>3, <2>5, <2>6 DEF Faithful
  <2>8. Stood(w, Versions)
    <3>1. /\ Versions \in Seq(Corpus) /\ Len(Versions) = edits + 1 /\ edits \in Nat
          /\ Versions[Len(Versions)].manifest = manifest
      BY VersionsAre DEF IInv
    <3>2. w.mark \in Nat /\ w.mark < Len(Versions)
      BY <2>3, <2>4, <2>5, <3>1 DEF Progress
    <3>. QED
      BY <2>3, <2>5, <3>1, <3>2, StoodFirst
  <2>9. /\ stage' \in [Builders -> {"idle", "starting", "working"}]
        /\ work' \in [Builders -> Progress] /\ WorkInv'
    BY <1>1, <2>1, <2>3, <2>4, <2>5, <2>7, <2>8, WorkStep
  <2>. QED
    BY <1>1, <2>9, BuilderStep
<1>. QED
  BY <1>2, <1>3

\* The next manual, with its chunks, is added to what was read.
LEMMA ReadManualStep ==
  ASSUME IInv, NEW b \in Builders, ReadManual(b)
  PROVE  IInv'
<1> DEFINE old   == work[b]
           next  == Len(old.read) + 1
           entry == Entries(old.manifest)[next]
           m     == manuals[entry.file]
           w     == [old EXCEPT !.read = Append(@, m), !.parts = Append(@, PartOf(old, m))]
<1>1. UNCHANGED <<corpus, index, checker, verdict, server>>
  BY DEF ReadManual
<1>2. CASE Refused(entry, m)
  BY <1>1, <1>2, EndsKeepsWork, BuilderStep DEF ReadManual
<1>3. CASE ~ Refused(entry, m)
  <2>1. stage[b] = "working" /\ Faithful(old) /\ old \in Progress /\ old.mark <= edits
    BY DEF ReadManual, IInv, Typed, WorkInv
  <2>2. /\ old.read \in Seq(Manual) /\ old.parts \in Seq(PartSet)
        /\ old.manifest \in Manifest /\ Len(old.manifest.active) \in Nat
    BY <2>1 DEF Progress, Manifest
  <2>3. Len(Entries(old.manifest)) \in Nat /\ Len(old.read) \in Nat
    BY <2>2, EntriesAre
  <2>4. next \in 1 .. Len(Entries(old.manifest))
    BY <2>1, <2>3 DEF ReadManual, AllRead, Faithful
  <2>5. entry.file \in Files
    BY <2>2, <2>4, EntriesAre
  <2>6. m \in Manual
    BY <1>3, <2>5, NotRefused DEF IInv, Typed
  <2>7. /\ PartOf(old, m) \in PartSet
        /\ PartOf(old, m) = IF next <= Len(old.manifest.active)
                            THEN Chunks(Normalized(m.text)) ELSE <<>>
    BY <2>1, <2>6, PartTyped
  <2>8. stage' = [stage EXCEPT ![b] = "working"] /\ work' = [work EXCEPT ![b] = w]
    BY <1>3, <2>1 DEF ReadManual, IInv, Typed
  <2>9. /\ w.read = Append(old.read, m) /\ w.parts = Append(old.parts, PartOf(old, m))
        /\ w.mark = old.mark /\ w.model = old.model /\ w.manifest = old.manifest
    BY <2>1 DEF Progress
  <2>10. /\ w.read \in Seq(Manual) /\ Len(w.read) = next
         /\ \A i \in 1 .. Len(old.read) : w.read[i] = old.read[i]
         /\ w.read[next] = m
    <3>1. ASSUME NEW r \in Seq(Manual), NEW x \in Manual
          PROVE  /\ Append(r, x) \in Seq(Manual) /\ Len(Append(r, x)) = Len(r) + 1
                 /\ \A i \in 1 .. Len(r) : Append(r, x)[i] = r[i]
                 /\ Append(r, x)[Len(r) + 1] = x
      BY Appended
    <3> HIDE DEF old, m, w
    <3>. QED
      BY <3>1, <2>2, <2>6, <2>9
  <2>11. /\ w.parts \in Seq(PartSet) /\ Len(w.parts) = Len(old.parts) + 1
         /\ \A i \in 1 .. Len(old.parts) : w.parts[i] = old.parts[i]
         /\ w.parts[Len(old.parts) + 1] = PartOf(old, m)
    <3>1. ASSUME NEW r \in Seq(PartSet), NEW x \in PartSet
          PROVE  /\ Append(r, x) \in Seq(PartSet) /\ Len(Append(r, x)) = Len(r) + 1
                 /\ \A i \in 1 .. Len(r) : Append(r, x)[i] = r[i]
                 /\ Append(r, x)[Len(r) + 1] = x
      BY Appended
    <3> HIDE DEF old, m, w
    <3>. QED
      BY <3>1, <2>2, <2>7, <2>9
  <2>12. w \in Progress
    BY <2>1, <2>2, <2>6, <2>7, Appended DEF Progress
  <2> HIDE DEF w, m
  <2>13. /\ old.model \in Models /\ Len(old.parts) = Len(old.read)
         /\ \A i \in 1 .. Len(old.parts) :
              old.parts[i] = IF i <= Len(old.manifest.active)
                             THEN Chunks(Normalized(old.read[i].text)) ELSE <<>>
    BY <2>1 DEF Faithful
  <2>14. ASSUME NEW i \in 1 .. Len(w.parts)
         PROVE  w.parts[i] = IF i <= Len(w.manifest.active)
                             THEN Chunks(Normalized(w.read[i].text)) ELSE <<>>
    <3>1. i \in 1 .. Len(old.read) \/ i = next
      BY <2>3, <2>11, <2>13
    <3>2. CASE i \in 1 .. Len(old.read)
      BY <3>2, <2>9, <2>10, <2>11, <2>13
    <3>3. CASE i = next
      BY <3>3, <2>7, <2>9, <2>10, <2>11, <2>13
    <3>. QED
      BY <3>1, <3>2, <3>3
  <2>15. Faithful(w)
    BY <2>3, <2>4, <2>9, <2>10, <2>11, <2>13, <2>14, SMTT(30) DEF Faithful
  <2>16. Stood(w, Versions)
    <3>1. /\ Versions \in Seq(Corpus) /\ Len(Versions) = edits + 1 /\ edits \in Nat
          /\ Versions[Len(Versions)].manuals = manuals
      BY VersionsAre DEF IInv
    <3>2. Stood(old, Versions)
      BY <2>1 DEF IInv, WorkInv
    <3>3. old.mark \in Nat /\ old.mark < Len(Versions)
      BY <2>1, <3>1 DEF Progress
    <3>4. w.read[Len(old.read) + 1] = Versions[Len(Versions)].manuals[Entries(old.manifest)[Len(old.read) + 1].file]
      BY <2>10, <3>1 DEF m
    <3>. QED
      BY <2>2, <2>9, <2>10, <3>1, <3>2, <3>3, <3>4, StoodNext
  <2>17. /\ stage' \in [Builders -> {"idle", "starting", "working"}]
         /\ work' \in [Builders -> Progress] /\ WorkInv'
    BY <1>1, <2>1, <2>8, <2>9, <2>12, <2>15, <2>16, WorkStep
  <2>. QED
    BY <1>1, <2>17, BuilderStep
<1>. QED
  BY <1>2, <1>3

\* A batch adds to the vectors and to nothing else.
LEMMA EmbedBatchStep ==
  ASSUME IInv, NEW b \in Builders, EmbedBatch(b)
  PROVE  IInv'
<1>1. PICK n \in 1 .. BatchSize, flat \in BOOLEAN :
        work' = [work EXCEPT ![b] =
                   [work[b] EXCEPT !.vectors = @ + n, !.flat = @ \/ flat]]
  BY DEF EmbedBatch
<1> DEFINE w == [work[b] EXCEPT !.vectors = @ + n, !.flat = @ \/ flat]
<1>2. UNCHANGED <<corpus, index, checker, verdict, server>>
  BY DEF EmbedBatch
<1>3. /\ stage[b] = "working" /\ Faithful(work[b]) /\ work[b] \in Progress
      /\ work[b].mark <= edits /\ Stood(work[b], Versions)
  BY DEF EmbedBatch, IInv, Typed, WorkInv
<1>4. n \in Nat
  BY IndexAssumption
<1>5. w \in Progress
  <2> DEFINE f == work[b].flat \/ flat
             v == [work[b] EXCEPT !.vectors = work[b].vectors + n, !.flat = f]
  <2>1. f \in BOOLEAN
    BY Zenon
  <2>2. w = v
    BY Zenon
  <2> HIDE DEF f, w
  <2>3. work[b].vectors + n \in Nat
    BY <1>3, <1>4 DEF Progress
  <2>4. v \in Progress
    BY <2>1, <2>3, <1>3 DEF Progress
  <2>. QED
    BY <2>2, <2>4, Zenon
<1>6. /\ w.manifest = work[b].manifest /\ w.read = work[b].read /\ w.parts = work[b].parts
      /\ w.mark = work[b].mark /\ w.model = work[b].model
  BY <1>3 DEF Progress
<1>7. stage' = [stage EXCEPT ![b] = "working"] /\ work' = [work EXCEPT ![b] = w]
  BY <1>1, <1>3, ZenonT(40) DEF EmbedBatch, IInv, Typed
<1> HIDE DEF w
<1>8. Faithful(w) /\ Stood(w, Versions)
  <2>1. Faithful(w)
    BY <1>3, <1>6 DEF Faithful
  <2>2. Stood(w, Versions)
    BY <1>3, <1>6, StoodSame
  <2>. QED
    BY <2>1, <2>2
<1>9. /\ stage' \in [Builders -> {"idle", "starting", "working"}]
      /\ work' \in [Builders -> Progress] /\ WorkInv'
  BY <1>2, <1>3, <1>5, <1>6, <1>7, <1>8, WorkStep
<1>. QED
  BY <1>2, <1>9, BuilderStep

LEMMA BuildEndsStep ==
  ASSUME IInv, NEW b \in Builders, BuildFails(b) \/ BuilderDies(b)
  PROVE  IInv'
<1>1. UNCHANGED <<corpus, index, checker, verdict, server>> /\ Ends(b)
  BY DEF BuildFails, BuilderDies
<1>. QED
  BY <1>1, EndsKeepsWork, BuilderStep

\* Only a finished build replaces the file.
LEMMA SaveStep ==
  ASSUME IInv, NEW b \in Builders, Save(b)
  PROVE  IInv'
<1>1. /\ UNCHANGED <<corpus, checker, verdict, server>> /\ Ends(b)
      /\ index' = work[b] /\ work[b] \in Progress
  BY DEF Save, IInv, Typed
<1>2. /\ stage' \in [Builders -> {"idle", "starting", "working"}]
      /\ work' \in [Builders -> Progress] /\ WorkInv'
  BY <1>1, EndsKeepsWork
<1>3. Typed'
  BY <1>1, <1>2 DEF IInv, Typed, corpus
<1>4. Finished(work[b]) /\ work[b].mark <= edits /\ Stood(work[b], Versions)
  BY DEF Save, IInv, WorkInv, Finished
<1>5. IndexInv'
  <2>1. Exists(work[b])
    BY <1>4, IndexAssumption DEF Exists, Finished, Faithful
  <2>2. Exists(index)'
    BY <1>1, <2>1 DEF Exists
  <2>. QED
    BY <1>1, <1>4, <2>2, SameVersions DEF IndexInv, Finished, Faithful, AllRead, Size
<1>. QED
  BY <1>1, <1>2, <1>3, <1>5, ServerFrame, CheckFrame DEF IInv

\* An edit adds a version; what was read before it stood in the others.
LEMMA EditStep ==
  ASSUME IInv, Author
  PROVE  IInv'
<1>1. UNCHANGED <<index, stage, work, checker, verdict, server>> /\ past' = Versions
  BY DEF Author, EditManual, EditManifest
<1>2. manifest' \in Manifest /\ manuals' \in [Files -> Manual \cup {NoManual}]
  <2>1. CASE \E m \in Manifests : EditManifest(m)
    BY <2>1, IndexAssumption DEF EditManifest, IInv, Typed
  <2>2. ASSUME NEW f \in Files, NEW m \in Drafts[f], EditManual(f, m)
        PROVE  manifest' \in Manifest /\ manuals' \in [Files -> Manual \cup {NoManual}]
    <3>1. m \in Manual \cup {NoManual}
      BY IndexAssumption
    <3>. QED
      BY <2>2, <3>1 DEF EditManual, IInv, Typed
  <2>. QED
    BY <2>1, <2>2 DEF Author
<1>3. /\ edits \in Nat /\ Versions \in Seq(Corpus) /\ Len(Versions) = edits + 1
      /\ edits' = edits + 1
  BY <1>1, VersionsAre DEF IInv, edits
<1>4. PICK x \in Corpus : Versions' = Append(Versions, x)
  <2>1. [manifest |-> manifest', manuals |-> manuals'] \in Corpus
    BY <1>2 DEF Corpus
  <2>. QED
    BY <1>1, <2>1 DEF Versions
<1>5. Typed'
  BY <1>1, <1>2, <1>3 DEF IInv, Typed
<1>6. ASSUME NEW w \in Progress, Stood(w, Versions)
      PROVE  Stood(w, Append(Versions, x))
  <2>1. w.mark \in Nat /\ w.read \in Seq(Manual)
    BY DEF Progress
  <2>. QED
    BY <1>3, <1>6, <2>1, StoodBefore
<1>7. WorkInv'
  <2>1. ASSUME NEW b \in Builders
        PROVE  /\ work[b].mark <= edits'
               /\ stage[b] = "working" => Stood(work[b], Append(Versions, x))
    <3>1. work[b] \in Progress /\ work[b].mark \in Nat
      BY DEF IInv, Typed, Progress
    <3>2. work[b].mark <= edits /\ (stage[b] = "working" => Stood(work[b], Versions))
      BY DEF IInv, WorkInv
    <3>. QED BY <1>3, <1>6, <3>1, <3>2
  <2>. QED
    BY <1>1, <1>4, <2>1 DEF IInv, WorkInv, Faithful
<1>8. IndexInv'
  <2>1. index.mark <= edits' /\ (Exists(index) => Stood(index, Append(Versions, x)))
    <3>1. index \in Progress /\ index.mark \in Nat
      BY DEF IInv, Typed, Progress
    <3>2. index.mark <= edits /\ (Exists(index) => Stood(index, Versions))
      BY DEF IInv, IndexInv
    <3>. QED BY <1>3, <1>6, <3>1, <3>2
  <2>. QED
    BY <1>1, <1>4, <2>1 DEF IInv, IndexInv, Exists, Finished, Faithful, AllRead, Size
<1>9. CheckInv'
  <2>1. checker.mark <= edits' /\ checker.mark # edits'
    BY <1>3 DEF IInv, Typed, CheckInv, Check
  <2>2. verdict.mark <= edits' /\ verdict.mark # edits'
    BY <1>3 DEF IInv, Typed, CheckInv
  <2>. QED
    BY <1>1, <2>1, <2>2 DEF CheckInv
<1>. QED
  BY <1>1, <1>5, <1>7, <1>8, <1>9, ServerFrame DEF IInv

----------------------------------------------------------------------------
(* The validator *)

\* A step that changes nothing but the validator and its report.
LEMMA ValidatorStep ==
  ASSUME IInv, UNCHANGED <<corpus, index, stage, work, server>>, checker' \in Check,
         verdict' \in [result : {"none", "PASS", "FAIL"}, mark : Nat], CheckInv'
  PROVE  IInv'
<1>1. Typed'
  BY DEF IInv, Typed, corpus
<1>. QED
  BY <1>1, WorkFrame, IndexFrame, ServerFrame DEF IInv

LEMMA NoCheckTyped == NoCheck \in Check /\ NoCheck.pc = "idle" /\ NoCheck.mark = 0
BY NoWorkTyped DEF NoCheck, Check

LEMMA StartCheckStep ==
  ASSUME IInv, StartCheck
  PROVE  IInv'
<1> DEFINE good == NoManual \notin {manuals[f] : f \in Files}
<1>1. /\ checker' = [pc |-> "checking", manifest |-> manifest, todo |-> Required,
                     ids |-> {}, ok |-> good, mark |-> edits]
      /\ UNCHANGED <<corpus, index, stage, work, verdict, server>>
  BY DEF StartCheck
<1>2. good \in BOOLEAN
  BY Zenon
<1>3. good => \A f \in Files : manuals[f] # NoManual
  OBVIOUS
<1>4. Files \ ToSet(Required) = {}
  BY DEF Files
<1> HIDE DEF good
<1>5. checker' \in Check
  BY <1>1, <1>2, VersionsAre, IndexAssumption DEF Check, IInv, Typed
<1>6. /\ checker'.pc = "checking" /\ checker'.manifest = manifest /\ checker'.mark = edits
      /\ checker'.todo = Required /\ checker'.ok = good
  BY <1>1
<1>7. UNCHANGED <<manifest, manuals>> /\ edits' = edits
  BY <1>1, SameVersions
<1>8. CheckInv'
  BY <1>1, <1>3, <1>4, <1>6, <1>7, VersionsAre DEF CheckInv, Passed, IInv, Typed
<1>. QED
  BY <1>1, <1>5, <1>8, ValidatorStep DEF IInv, Typed

\* What a pass over the first file leaves to be checked.
LEMMA Shorter ==
  ASSUME NEW todo \in Seq(Files), todo # <<>>
  PROVE  /\ Head(todo) \in Files /\ Tail(todo) \in Seq(Files)
         /\ \A f \in Files \ ToSet(Tail(todo)) : f = Head(todo) \/ f \in Files \ ToSet(todo)
<1>1. Head(todo) \in Files /\ Tail(todo) \in Seq(Files)
  OBVIOUS
<1>2. ASSUME NEW f \in ToSet(todo), f # Head(todo) PROVE f \in ToSet(Tail(todo))
  <2>1. PICK i \in DOMAIN todo : todo[i] = f
    BY DEF ToSet
  <2>2. i \in 2 .. Len(todo)
    BY <1>2, <2>1
  <2>3. i - 1 \in DOMAIN Tail(todo) /\ Tail(todo)[i - 1] = f
    BY <2>1, <2>2
  <2>. QED
    BY <2>3 DEF ToSet
<1>. QED
  BY <1>1, <1>2

LEMMA CheckManualStep ==
  ASSUME IInv, CheckManual
  PROVE  IInv'
<1> DEFINE f    == Head(checker.todo)
           m    == manuals[f]
           good == checker.ok /\ ManualPasses(m, f, checker.manifest)
           ids  == IF HasMetadata(Normalized(m.text))
                   THEN checker.ids \cup {<<f, m.id>>} ELSE checker.ids
<1>1. /\ UNCHANGED <<corpus, index, stage, work, verdict, server>>
      /\ checker.pc = "checking" /\ checker.todo # <<>>
  BY DEF CheckManual
<1>2. checker \in Check /\ checker.todo \in Seq(Files) /\ edits \in Nat
      /\ manuals \in [Files -> Manual \cup {NoManual}]
  BY VersionsAre DEF IInv, Typed, Check
<1>3. /\ f \in Files /\ Tail(checker.todo) \in Seq(Files)
      /\ \A g \in Files \ ToSet(Tail(checker.todo)) : g = f \/ g \in Files \ ToSet(checker.todo)
  BY <1>1, <1>2, Shorter
<1>4. UNCHANGED <<manifest, manuals, verdict>> /\ edits' = edits
  BY <1>1, SameVersions
<1>5. CheckInv
  BY DEF IInv
<1>6. CASE checker' = NoCheck
  <2>1. CheckInv'
    BY <1>2, <1>4, <1>5, <1>6, NoCheckTyped DEF CheckInv, Passed
  <2>. QED
    BY <1>1, <1>6, <2>1, NoCheckTyped, ValidatorStep DEF IInv, Typed
<1>7. CASE m = NoManual /\ checker' = [checker EXCEPT !.todo = Tail(@)]
  <2>1. checker' \in Check
    BY <1>2, <1>3, <1>7 DEF Check
  <2>2. /\ checker'.pc = "checking" /\ checker'.mark = checker.mark
        /\ checker'.manifest = checker.manifest /\ checker'.ok = checker.ok
    BY <1>1, <1>2, <1>7 DEF Check
  <2>3. ~ (checker.mark = edits /\ checker.ok)
    BY <1>1, <1>3, <1>5, <1>7 DEF CheckInv
  <2>4. CheckInv'
    BY <1>1, <1>4, <1>5, <2>2, <2>3 DEF CheckInv, Passed
  <2>. QED
    BY <1>1, <2>1, <2>4, ValidatorStep DEF IInv, Typed
<1>8. CASE /\ m # NoManual
           /\ checker' = [checker EXCEPT !.todo = Tail(checker.todo), !.ids = ids, !.ok = good]
  <2>1. ids \in SUBSET (Files \X Files)
    <3>1. m.id \in Files
      BY <1>2, <1>3, <1>8 DEF Manual
    <3>. QED
      BY <1>2, <1>3, <3>1 DEF Check
  <2>2. good \in BOOLEAN
    BY Zenon
  <2>3. good => checker.ok /\ m # NoManual /\ ManualPasses(m, f, checker.manifest)
    BY <1>8
  <2>4. m = manuals[f]
    OBVIOUS
  <2>5. checker' = [checker EXCEPT !.todo = Tail(checker.todo), !.ids = ids, !.ok = good]
    BY <1>8
  <2> HIDE DEF good, ids, m, f
  <2>6. checker' \in Check
    BY <1>2, <1>3, <2>1, <2>2, <2>5 DEF Check
  <2>7. /\ checker'.pc = "checking" /\ checker'.mark = checker.mark
        /\ checker'.manifest = checker.manifest /\ checker'.todo = Tail(checker.todo)
    BY <1>1, <1>2, <2>5 DEF Check
  <2>8. checker'.ok = good
    BY <1>2, <2>5 DEF Check
  <2>9. ASSUME checker.mark = edits, good
        PROVE  /\ \A g \in Files : manuals[g] # NoManual
               /\ \A g \in Files \ ToSet(Tail(checker.todo)) : Passed(g)
    <3>1. /\ checker.manifest = manifest
          /\ \A g \in Files : manuals[g] # NoManual
          /\ \A g \in Files \ ToSet(checker.todo) : Passed(g)
      BY <1>1, <1>5, <2>3, <2>9 DEF CheckInv
    <3>2. Passed(f)
      BY <2>3, <2>4, <2>9, <3>1 DEF Passed
    <3>. QED
      BY <1>3, <3>1, <3>2
  <2>10. checker.mark <= edits /\ (checker.mark = edits => checker.manifest = manifest)
    BY <1>1, <1>5 DEF CheckInv
  <2>11. CheckInv'
    BY <1>4, <1>5, <2>7, <2>8, <2>9, <2>10 DEF CheckInv, Passed
  <2>. QED
    BY <1>1, <2>6, <2>11, ValidatorStep DEF IInv, Typed
<1>. QED
  BY <1>6, <1>7, <1>8 DEF CheckManual

LEMMA ReportStep ==
  ASSUME IInv, Report
  PROVE  IInv'
<1>1. /\ UNCHANGED <<corpus, index, stage, work, server>>
      /\ checker.pc = "checking" /\ checker.todo = <<>> /\ checker' = NoCheck
      /\ verdict' = [result |-> IF checker.ok /\ ManifestPasses(checker.manifest, checker.ids)
                                THEN "PASS" ELSE "FAIL", mark |-> checker.mark]
  BY DEF Report
<1>2. checker.mark \in Nat /\ edits \in Nat /\ CheckInv
  BY VersionsAre DEF IInv, Typed, Check
<1>3. verdict'.mark = checker.mark
  BY <1>1
<1>4. verdict'.result = "PASS" =>
        checker.ok /\ ManifestPasses(checker.manifest, checker.ids)
  BY <1>1
<1>5. verdict' \in [result : {"none", "PASS", "FAIL"}, mark : Nat]
  BY <1>1, <1>2
<1>6. UNCHANGED <<manifest, manuals>> /\ edits' = edits
  BY <1>1, SameVersions
<1>7. ToSet(checker.todo) = {}
  BY <1>1 DEF ToSet
<1>8. ASSUME verdict'.result = "PASS", checker.mark = edits
      PROVE  /\ \A f \in Files : Passed(f)
             /\ FilesOf(manifest.active) = Files \ Deferred
             /\ FilesOf(manifest.excluded) = Deferred
  <2>1. checker.manifest = manifest /\ \A f \in Files : Passed(f)
    BY <1>1, <1>2, <1>4, <1>7, <1>8 DEF CheckInv
  <2>. QED
    BY <1>4, <1>8, <2>1 DEF ManifestPasses
<1>9. CheckInv'
  BY <1>1, <1>2, <1>3, <1>6, <1>8, NoCheckTyped DEF CheckInv, Passed
<1>. QED
  BY <1>1, <1>5, <1>9, NoCheckTyped, ValidatorStep

----------------------------------------------------------------------------
(* The server, and every step *)

LEMMA ServerStep ==
  ASSUME IInv, UNCHANGED <<corpus, index, stage, work, checker, verdict>>,
         server' \in [settings : Settings \cup {NoSettings}, index : Progress], ServerInv'
  PROVE  IInv'
<1>1. Typed'
  BY DEF IInv, Typed, corpus
<1>. QED
  BY <1>1, WorkFrame, IndexFrame, CheckFrame DEF IInv

\* A server comes up with the index of its own model, or with none.
LEMMA Comes ==
  ASSUME IInv, NEW s \in Settings, StartServer(s) \/ StartWithout(s)
  PROVE  /\ UNCHANGED <<corpus, index, stage, work, checker, verdict>>
         /\ server = Down /\ Valid(s)
         /\ server'.settings = s
         /\ \/ server'.index = NoWork
            \/ server'.index = index /\ Exists(index) /\ index.model = s.model
         /\ server' \in [settings : Settings \cup {NoSettings}, index : Progress]
<1>1. PICK i \in {index, NoWork} :
        /\ server' = [settings |-> s, index |-> i]
        /\ i = NoWork \/ (i = index /\ Exists(index) /\ index.model = s.model)
  BY DEF StartServer, StartWithout, Load
<1>2. i \in Progress
  BY <1>1, NoWorkTyped DEF IInv, Typed
<1>3. /\ UNCHANGED <<corpus, index, stage, work, checker, verdict>>
      /\ server = Down /\ Valid(s)
  BY DEF StartServer, StartWithout
<1>. QED
  BY <1>1, <1>2, <1>3

LEMMA StartServerStep ==
  ASSUME IInv, NEW s \in Settings, StartServer(s) \/ StartWithout(s)
  PROVE  IInv'
<1>1. Exists(index) => Finished(index)
  BY DEF IInv, IndexInv
<1>2. ServerInv'
  BY <1>1, Comes, NoWorkTyped DEF ServerInv, Exists, Finished, Faithful, AllRead, Size
<1>. QED
  BY <1>2, Comes, ServerStep

LEMMA StopServerStep ==
  ASSUME IInv, StopServer
  PROVE  IInv'
<1>1. server' = Down /\ UNCHANGED <<corpus, index, stage, work, checker, verdict>>
  BY DEF StopServer
<1>2. ServerInv'
  BY <1>1, DownIs, NoWorkTyped DEF ServerInv, Exists
<1>. QED
  BY <1>1, <1>2, DownIs, ServerStep

LEMMA BuildStep ==
  ASSUME IInv, NEW b \in Builders, Build(b)
  PROVE  IInv'
BY ReadManifestStep, ReadManualStep, EmbedBatchStep, BuildEndsStep, SaveStep, StartBuildStep
   DEF Build

LEMMA StutterStep ==
  ASSUME IInv, UNCHANGED vars
  PROVE  IInv'
<1>1. UNCHANGED <<corpus, index, stage, work, checker, verdict, server>>
  BY DEF vars, corpus
<1>2. stage' \in [Builders -> {"idle", "starting", "working"}] /\ work' \in [Builders -> Progress]
  BY <1>1 DEF IInv, Typed
<1>. QED
  BY <1>1, <1>2, WorkFrame, BuilderStep

LEMMA IInvIsInductive == IInv /\ [Next]_vars => IInv'
<1>. SUFFICES ASSUME IInv, [Next]_vars PROVE IInv'
  OBVIOUS
<1>1. CASE Author
  BY <1>1, EditStep
<1>2. CASE \E b \in Builders : Build(b)
  BY <1>2, BuildStep
<1>3. CASE StartCheck \/ CheckManual \/ Report
  BY <1>3, StartCheckStep, CheckManualStep, ReportStep
<1>4. CASE \E s \in Settings : StartServer(s) \/ StartWithout(s)
  BY <1>4, StartServerStep
<1>5. CASE StopServer
  BY <1>5, StopServerStep
<1>6. CASE UNCHANGED vars
  BY <1>6, StutterStep
<1>. QED
  BY <1>1, <1>2, <1>3, <1>4, <1>5, <1>6 DEF Next

LEMMA AlwaysIInv == Spec => []IInv
BY InitImpliesIInv, IInvIsInductive, PTL DEF Spec

----------------------------------------------------------------------------
(* Types, and no more vectors than chunks *)

\* A build has vectors only once it has read everything, and no more of them
\* than chunks.
Counted ==
  /\ left \in Budget
  /\ \A b \in Builders :
       /\ work[b].vectors <= Size(work[b])
       /\ stage[b] = "starting" \/ ~ AllRead(work[b]) => work[b].vectors = 0

LEMMA PartsAreChunks == PartSet \subseteq Seq(Chunk)
<1>1. ASSUME NEW t \in Texts PROVE Chunks(Normalized(t)) \in Seq(Chunk)
  BY NormalizedIs, ChunksOrigins
<1>2. <<>> \in Seq(Chunk)
  OBVIOUS
<1>. QED
  BY <1>1, <1>2 DEF PartSet

LEMMA ProgressIsWork ==
  ASSUME NEW w \in Progress
  PROVE  w \in Work /\ w.parts \in Seq(Seq(Chunk)) /\ Size(w) \in Nat
<1>1. \A T, S : \A s \in Seq(T) : T \subseteq S => s \in Seq(S)
  <2>. SUFFICES ASSUME NEW T, NEW S, NEW s \in Seq(T), T \subseteq S PROVE s \in Seq(S)
    OBVIOUS
  <2>1. s \in [1 .. Len(s) -> S] /\ Len(s) \in Nat
    OBVIOUS
  <2>. QED
    BY <2>1, SeqDef
<1>2. w.parts \in Seq(PartSet)
  BY DEF Progress
<1>3. w.parts \in Seq(Seq(Chunk))
  BY <1>1, <1>2, PartsAreChunks, Zenon
<1>4. FlattenSeq(w.parts) \in Seq(Chunk)
  BY <1>3, Flattened
<1>5. Len(FlattenSeq(w.parts)) \in Nat
  BY <1>4
<1>6. w \in Work
  BY <1>3 DEF Progress, Work, Chunk, Block
<1>. QED
  BY <1>3, <1>5, <1>6 DEF Size

LEMMA Spent ==
  ASSUME left \in Budget,
         \/ Spend("edits") \/ Spend("builds") \/ Spend("faults")
         \/ Spend("crashes") \/ Spend("checks") \/ Spend("starts")
  PROVE  left' \in Budget
BY DEF Budget, Spend

\* A step of builder b that leaves it with w.
LEMMA CountedStep ==
  ASSUME IInv, Counted, left' \in Budget, NEW b \in Builders, NEW w, NEW s,
         stage' = [stage EXCEPT ![b] = s], work' = [work EXCEPT ![b] = w],
         w.vectors <= Size(w), s = "starting" \/ ~ AllRead(w) => w.vectors = 0
  PROVE  Counted'
<1>1. stage \in [Builders -> {"idle", "starting", "working"}] /\ work \in [Builders -> Progress]
  BY DEF IInv, Typed
<1>2. ASSUME NEW c \in Builders
      PROVE  /\ work'[c].vectors <= Size(work'[c])
             /\ stage'[c] = "starting" \/ ~ AllRead(work'[c]) => work'[c].vectors = 0
  <2>1. CASE c = b
    BY <2>1, <1>1
  <2>2. CASE c # b
    <3>1. stage'[c] = stage[c] /\ work'[c] = work[c]
      BY <2>2, <1>1
    <3>. QED
      BY <3>1 DEF Counted
  <2>. QED
    BY <2>1, <2>2
<1>. QED
  BY <1>2 DEF Counted, Size, AllRead

LEMMA NoWorkCounted ==
  /\ NoWork.vectors <= Size(NoWork) /\ NoWork.vectors = 0
  /\ AllRead(NoWork)
<1>1. Size(NoWork) \in Nat
  BY NoWorkTyped, ProgressIsWork
<1>2. NoWork.vectors = 0 /\ NoWork.read = <<>>
  BY NoWorkTyped
<1>3. Entries(NoWork.manifest) = <<>>
  BY DEF NoWork, Entries
<1>. QED
  BY <1>1, <1>2, <1>3 DEF AllRead

LEMMA CountedFrame ==
  ASSUME Counted, left' \in Budget, UNCHANGED <<stage, work>>
  PROVE  Counted'
BY DEF Counted, Size, AllRead

LEMMA EndsCounted ==
  ASSUME IInv, Counted, left' \in Budget, NEW b \in Builders, Ends(b)
  PROVE  Counted'
<1>1. stage' = [stage EXCEPT ![b] = "idle"] /\ work' = [work EXCEPT ![b] = NoWork]
  BY DEF Ends
<1>2. ~ ("idle" = "starting" \/ ~ AllRead(NoWork))
  BY NoWorkCounted
<1>. QED
  BY <1>1, <1>2, NoWorkCounted, CountedStep

LEMMA CountedBuild ==
  ASSUME IInv, Counted, NEW b \in Builders, Build(b)
  PROVE  Counted'
<1>. DEFINE old == work[b]
<1>1. /\ left \in Budget /\ old \in Progress
      /\ old.vectors <= Size(old)
      /\ stage[b] = "starting" \/ ~ AllRead(old) => old.vectors = 0
      /\ stage \in [Builders -> {"idle", "starting", "working"}]
      /\ work \in [Builders -> Progress]
  BY DEF IInv, Typed, Counted
<1>2. Size(old) \in Nat /\ old.vectors \in Nat
  BY <1>1, ProgressIsWork DEF Progress
<1>3. ASSUME NEW s \in Settings, StartBuild(b, s) PROVE Counted'
  <2>. DEFINE w == [old EXCEPT !.model = s.model, !.mark = edits]
  <2>1. old = NoWork
    BY <1>3 DEF StartBuild, IInv, WorkInv
  <2>2. w.vectors = old.vectors /\ w.parts = old.parts
    BY <1>1 DEF Progress
  <2>3. w.vectors = 0 /\ w.vectors <= Size(w)
    BY <2>1, <2>2, NoWorkCounted DEF Size
  <2>4. stage' = [stage EXCEPT ![b] = "starting"] /\ work' = [work EXCEPT ![b] = w]
    BY <1>3 DEF StartBuild
  <2>5. left' \in Budget
    BY <1>1, <1>3, Spent DEF StartBuild
  <2>. HIDE DEF w, old
  <2>. QED
    BY <2>3, <2>4, <2>5, CountedStep
<1>4. ASSUME ReadManifest(b) PROVE Counted'
  <2>1. left' \in Budget
    BY <1>1, <1>4 DEF ReadManifest
  <2>2. CASE Ends(b)
    BY <2>1, <2>2, EndsCounted
  <2>3. CASE ~ Ends(b)
    <3>. DEFINE w == [old EXCEPT !.manifest = manifest]
    <3>1. stage' = [stage EXCEPT ![b] = "working"] /\ work' = [work EXCEPT ![b] = w]
      BY <1>4, <2>3 DEF ReadManifest
    <3>2. w.vectors = old.vectors /\ w.parts = old.parts /\ old.vectors = 0
      BY <1>1, <1>4 DEF Progress, ReadManifest
    <3>3. w.vectors = 0 /\ w.vectors <= Size(w)
      BY <3>2, <1>2 DEF Size
    <3>. HIDE DEF w, old
    <3>. QED
      BY <2>1, <3>1, <3>3, CountedStep
  <2>. QED
    BY <2>2, <2>3
<1>5. ASSUME ReadManual(b) PROVE Counted'
  <2>. DEFINE entry == Entries(old.manifest)[Len(old.read) + 1]
              m     == manuals[entry.file]
              w     == [old EXCEPT !.read = Append(@, m), !.parts = Append(@, PartOf(old, m))]
  <2>1. left' \in Budget /\ old.vectors = 0
    BY <1>1, <1>5 DEF ReadManual
  <2>2. CASE Refused(entry, m)
    BY <1>5, <2>1, <2>2, EndsCounted DEF ReadManual
  <2>3. CASE ~ Refused(entry, m)
    <3>1. UNCHANGED stage /\ work' = [work EXCEPT ![b] = w]
      BY <1>5, <2>3 DEF ReadManual
    <3>2. stage' = [stage EXCEPT ![b] = stage[b]]
      BY <1>1, <3>1
    <3>3. work'[b] = w /\ w.vectors = old.vectors
      BY <1>1, <3>1 DEF Progress
    <3>. HIDE DEF w
    <3>4. w \in Progress
      <4>1. IInv'
        BY <1>5, ReadManualStep
      <4>. QED
        BY <4>1, <3>3 DEF IInv, Typed
    <3>5. Size(w) \in Nat
      BY <3>4, ProgressIsWork
    <3>6. w.vectors = 0 /\ w.vectors <= Size(w)
      BY <3>3, <3>5, <2>1
    <3>. QED
      BY <2>1, <3>1, <3>2, <3>6, CountedStep
  <2>. QED
    BY <2>2, <2>3
<1>6. ASSUME EmbedBatch(b) PROVE Counted'
  <2>1. PICK n \in 1 .. BatchSize, flat \in BOOLEAN :
          /\ old.vectors + n <= Size(old)
          /\ IF flat THEN Spend("faults") ELSE UNCHANGED left
          /\ work' = [work EXCEPT ![b] =
                [old EXCEPT !.vectors = @ + n, !.flat = @ \/ flat]]
    BY <1>6 DEF EmbedBatch
  <2>. DEFINE w == [old EXCEPT !.vectors = @ + n, !.flat = @ \/ flat]
  <2>2. left' \in Budget
    BY <1>1, <2>1, Spent
  <2>3. /\ w.vectors = old.vectors + n /\ w.parts = old.parts
        /\ w.read = old.read /\ w.manifest = old.manifest
    BY <1>1 DEF Progress
  <2>4. stage[b] = "working" /\ AllRead(old) /\ UNCHANGED stage
    BY <1>6 DEF EmbedBatch
  <2>5. stage' = [stage EXCEPT ![b] = "working"]
    BY <1>1, <2>4
  <2>6. w.vectors <= Size(w) /\ AllRead(w)
    BY <2>1, <2>3, <2>4 DEF Size, AllRead
  <2>7. work' = [work EXCEPT ![b] = w]
    BY <2>1
  <2>. HIDE DEF w
  <2>8. ~ ("working" = "starting" \/ ~ AllRead(w))
    BY <2>6
  <2>. QED
    BY <2>2, <2>5, <2>6, <2>7, <2>8, CountedStep
<1>7. ASSUME BuildFails(b) \/ Save(b) \/ BuilderDies(b) PROVE Counted'
  <2>1. Ends(b) /\ (Spend("faults") \/ Spend("crashes") \/ UNCHANGED left)
    BY <1>7 DEF BuildFails, Save, BuilderDies
  <2>2. left' \in Budget
    BY <1>1, <2>1, Spent
  <2>. QED
    BY <2>1, <2>2, EndsCounted
<1>. QED
  BY <1>3, <1>4, <1>5, <1>6, <1>7 DEF Build

LEMMA CountedIsInductive == IInv /\ Counted /\ [Next]_vars => Counted'
<1>. SUFFICES ASSUME IInv, Counted, [Next]_vars PROVE Counted'
  OBVIOUS
<1>1. left \in Budget
  BY DEF Counted
<1>2. ASSUME UNCHANGED <<stage, work>>,
             \/ Spend("edits") \/ Spend("faults") \/ Spend("checks") \/ Spend("starts")
             \/ UNCHANGED left
      PROVE  Counted'
  BY <1>1, <1>2, Spent, CountedFrame
<1>3. CASE UNCHANGED vars
  BY <1>2, <1>3 DEF vars
<1>4. CASE Author
  BY <1>2, <1>4 DEF Author, EditManual, EditManifest
<1>5. CASE \E b \in Builders : Build(b)
  BY <1>5, CountedBuild
<1>6. CASE StartCheck \/ CheckManual \/ Report
  BY <1>2, <1>6 DEF StartCheck, CheckManual, Report
<1>7. CASE \E s \in Settings : StartServer(s) \/ StartWithout(s)
  BY <1>2, <1>7 DEF StartServer, StartWithout
<1>8. CASE StopServer
  BY <1>2, <1>8 DEF StopServer
<1>. QED
  BY <1>3, <1>4, <1>5, <1>6, <1>7, <1>8 DEF Next

LEMMA InitCounted == Init => Counted
<1>. SUFFICES ASSUME Init PROVE Counted
  OBVIOUS
<1>1. left \in Budget
  BY IndexAssumption DEF Init
<1>2. \A b \in Builders : work[b] = NoWork /\ stage[b] = "idle"
  BY DEF Init
<1>. QED
  BY <1>1, <1>2, NoWorkCounted DEF Counted

LEMMA InvImpliesTypeOK == IInv /\ Counted => TypeOK
<1>. SUFFICES ASSUME IInv, Counted PROVE TypeOK
  OBVIOUS
<1>1. Progress \subseteq Work
  BY ProgressIsWork
<1>2. index \in Work /\ work \in [Builders -> Work]
  BY <1>1 DEF IInv, Typed
<1>3. server \in [settings : Settings \cup {NoSettings}, index : Work]
  BY <1>1 DEF IInv, Typed
<1>. QED
  BY <1>2, <1>3 DEF IInv, Typed, Counted, TypeOK, Check

\* Every state is of its type, what the parser makes of any text included, and
\* no build ever has more vectors than chunks, whatever the batch size.
THEOREM IndexTyped == Spec => []TypeOK
<1>1. Init => Counted
  BY InitCounted
<1>2. IInv /\ Counted /\ [Next]_vars => Counted'
  BY CountedIsInductive
<1>3. IInv /\ Counted => TypeOK
  BY InvImpliesTypeOK
<1>. QED
  BY <1>1, <1>2, <1>3, AlwaysIInv, PTL DEF Spec

----------------------------------------------------------------------------
(* The index follows the corpus *)

LEMMA InvIsCurrent ==
  ASSUME IInv, Undisturbed
  PROVE  /\ index.manifest = manifest
         /\ Len(index.read) = Len(Entries(manifest))
         /\ index.read \in Seq(Manual) /\ index.parts \in Seq(PartSet)
         /\ Len(index.parts) = Len(index.read)
         /\ \A i \in 1 .. Len(index.read) : index.read[i] = manuals[Entries(manifest)[i].file]
<1>1. Faithful(index) /\ AllRead(index) /\ Stood(index, Versions) /\ index.mark = edits
  BY DEF IInv, IndexInv, Undisturbed, Finished
<1>2. index.read \in Seq(Manual) /\ index.parts \in Seq(PartSet)
  BY DEF IInv, Typed, Progress
<1>3. index.manifest = manifest
      /\ \A i \in 1 .. Len(index.read) : index.read[i] = manuals[Entries(manifest)[i].file]
  BY <1>1, <1>2, StoodNow DEF IInv
<1>4. Len(index.read) = Len(Entries(index.manifest)) /\ Len(index.parts) = Len(index.read)
  BY <1>1 DEF AllRead, Faithful
<1>. QED
  BY <1>2, <1>3, <1>4

LEMMA PassedIs ==
  ASSUME NEW f, Passed(f)
  PROVE  /\ manuals[f].file = f /\ manuals[f].flaws = {}
         /\ f \in Deferred => manuals[f].status = "DEFERRED"
BY Zenon DEF Passed, ManualPasses, DeferredPolicy

\* Whatever authors, builders and the validator do beside it: what is published is
\* all that its own build found in the files, each as it stood there after the
\* build began and no earlier than what was read before it.
THEOREM FollowsFiles == Spec => []BuiltFromFiles
<1>1. IInv => BuiltFromFiles
  BY DEF IInv, IndexInv, Finished, BuiltFromFiles
<1>. QED
  BY AlwaysIInv, <1>1, PTL

LEMMA InvKeepsDeferredOut == IInv => DeferredStayOut
<1>. SUFFICES ASSUME IInv, Undisturbed, verdict.result = "PASS", verdict.mark = edits,
                     NEW i \in DOMAIN index.read
              PROVE  /\ index.read[i].flaws = {}
                     /\ index.read[i].file \in Deferred =>
                          index.read[i].status = "DEFERRED" /\ index.parts[i] = <<>>
  BY DEF DeferredStayOut
<1>. DEFINE E == Entries(manifest)
<1>1. (\A f \in Files : Passed(f)) /\ FilesOf(manifest.active) = Files \ Deferred
  BY DEF IInv, CheckInv
<1>2. manifest \in Manifest /\ manifest.active \in Seq(Entry)
  BY DEF IInv, Typed, Manifest
<1>3. i \in 1 .. Len(index.read) /\ i \in 1 .. Len(E) /\ i \in 1 .. Len(index.parts)
  BY InvIsCurrent
<1>4. index.read[i] = manuals[E[i].file] /\ E[i].file \in Files
  BY <1>2, <1>3, InvIsCurrent, EntriesAre
<1>5. /\ index.read[i].file = E[i].file /\ index.read[i].flaws = {}
      /\ index.read[i].file \in Deferred => index.read[i].status = "DEFERRED"
  BY <1>1, <1>4, PassedIs
<1>6. CASE i <= Len(manifest.active)
  <2>1. E[i] = manifest.active[i]
    BY <1>2, <1>3, <1>6, EntriesAre
  <2>. HIDE DEF E
  <2>2. i \in DOMAIN manifest.active
    BY <1>2, <1>3, <1>6
  <2>3. E[i].file \in FilesOf(manifest.active)
    BY <2>1, <2>2 DEF FilesOf, ToSet
  <2>. QED
    BY <1>1, <1>5, <2>3
<1>7. CASE ~ (i <= Len(manifest.active))
  <2>1. index.parts[i] = <<>>
    BY <1>3, <1>7, InvIsCurrent DEF IInv, IndexInv, Undisturbed, Finished, Faithful
  <2>. QED
    BY <1>5, <2>1
<1>. QED
  BY <1>6, <1>7

\* If nobody edited anything since its build began, and the validator passed that
\* corpus, then nothing in the index was objected to, and no text of a deferred
\* procedure is in it.
THEOREM KeepsDeferredOut == Spec => []DeferredStayOut
BY AlwaysIInv, InvKeepsDeferredOut, PTL

----------------------------------------------------------------------------
(* A server answers with as many matches as were asked for *)

LEMMA LeastOfThree ==
  ASSUME NEW k \in Nat, NEW r \in Nat, NEW n \in Nat, k <= r
  PROVE  Min({k, r, n}) = IF k < n THEN k ELSE n
<1> DEFINE least == IF k < n THEN k ELSE n
<1>1. /\ least \in {k, r, n}
      /\ \A y \in {k, r, n} : least <= y
      /\ \A x \in {k, r, n} : (\A y \in {k, r, n} : x <= y) => x = least
  OBVIOUS
<1>. HIDE DEF least
<1>2. Min({k, r, n}) = least
  BY <1>1 DEF Min
<1>. QED
  BY <1>2 DEF least

\* The chunks of a typed build are counted by a number.
LEMMA InvHasSize ==
  ASSUME IInv, Available
  PROVE  /\ Size(server.index) = server.index.vectors /\ server.index.vectors \in Nat
         /\ server.settings \in Settings /\ Valid(server.settings)
<1>1. server # Down
  BY DownIs, NoWorkTyped DEF Available
<1>2. /\ Finished(server.index) /\ server.settings \in Settings /\ Valid(server.settings)
  BY <1>1 DEF IInv, ServerInv, Available
<1>3. server.index.vectors \in Nat
  BY DEF IInv, Typed, Progress
<1>. QED
  BY <1>2, <1>3 DEF Finished

LEMMA InvImpliesHonoured == IInv => QueriesHonoured
<1>. SUFFICES ASSUME IInv, Available, ~ server.index.flat
              PROVE  QueriesHonoured
  BY DEF QueriesHonoured
<1> DEFINE s == server.settings
           n == server.index.vectors
           Honoured(answer, k) ==
             answer = [status |-> "ok", count |-> IF k < Size(server.index) THEN k
                                                  ELSE Size(server.index)]
<1>1. /\ s.defaultTopK \in Nat /\ s.plannerTopK \in Nat /\ s.maxTopK \in Nat /\ s.rerank \in Nat
      /\ n \in Nat /\ Size(server.index) = n
  BY InvHasSize, IndexAssumption
<1>2. /\ s.defaultTopK > 0 /\ s.plannerTopK > 0
      /\ s.defaultTopK <= s.maxTopK /\ s.plannerTopK <= s.maxTopK /\ s.maxTopK <= s.rerank
  BY InvHasSize DEF Valid, Positive
<1>3. ASSUME NEW k \in Nat, k <= s.maxTopK
      PROVE  Honoured(Retrieve(k), k)
  <2>1. k <= s.rerank
    BY <1>1, <1>2, <1>3
  <2>2. Min({k, s.rerank, n}) = IF k < n THEN k ELSE n
    BY <1>1, <2>1, LeastOfThree
  <2>3. ~ (k > s.maxTopK)
    BY <1>1, <1>3
  <2>4. Retrieve(k) = [status |-> "ok", count |-> Min({k, s.rerank, n})]
    BY <2>3, Zenon DEF Retrieve
  <2>. QED
    BY <1>1, <2>2, <2>4
<1>4. RouteQuery(0) = Retrieve(s.defaultTopK)
  BY DEF RouteQuery
<1>5. \A k \in 1 .. s.maxTopK : k \in Nat /\ k <= s.maxTopK /\ RouteQuery(k) = Retrieve(k)
  BY <1>1 DEF RouteQuery
<1>6. PlannerQuery = Retrieve(s.plannerTopK)
  BY DEF PlannerQuery
<1>7. /\ Honoured(RouteQuery(0), s.defaultTopK)
      /\ \A k \in 1 .. s.maxTopK : Honoured(RouteQuery(k), k)
      /\ Honoured(PlannerQuery, s.plannerTopK)
  BY <1>1, <1>2, <1>3, <1>4, <1>5, <1>6, Zenon
<1>. QED
  BY <1>7, Zenon DEF QueriesHonoured

\* A server that has an index without zero vectors answers the request without
\* top_k, every request within the limit and the planner's own, with as many
\* matches as were asked for or as there are.
THEOREM HonoursQueries == Spec => []QueriesHonoured
BY AlwaysIInv, InvImpliesHonoured, PTL

----------------------------------------------------------------------------
(* The text that is published *)

LEMMA InvImpliesKeepsText ==
  ASSUME IInv
  PROVE  ChunksKeepText
<1>. SUFFICES ASSUME NEW i \in 1 .. Len(index.manifest.active)
              PROVE  KeepsText(Normalized(index.read[i].text), index.parts[i])
  BY DEF ChunksKeepText
<1>1. index \in Progress /\ index.manifest \in Manifest /\ index.manifest.active \in Seq(Entry)
      /\ index.manifest.excluded \in Seq(Entry)
  BY DEF IInv, Typed, Progress, Manifest
<1>2. CASE Exists(index)
  <2>1. Faithful(index) /\ AllRead(index)
    BY <1>2 DEF IInv, IndexInv, Finished
  <2>2. Len(index.manifest.active) \in Nat /\ Len(index.manifest.excluded) \in Nat
    BY <1>1
  <2>3. Len(index.parts) = Len(index.manifest.active) + Len(index.manifest.excluded)
        /\ Len(index.read) = Len(index.parts)
    BY <1>1, <2>1, EntriesAre DEF AllRead, Faithful
  <2>4. \A p, q \in Nat : \A j \in 1 .. p : j \in 1 .. (p + q) /\ j <= p
    OBVIOUS
  <2>5. i \in 1 .. Len(index.parts) /\ i <= Len(index.manifest.active)
    BY <2>2, <2>3, <2>4, Zenon
  <2>6. index.parts[i] = Chunks(Normalized(index.read[i].text))
    BY <2>1, <2>5 DEF Faithful
  <2>7. index.read[i] \in Manual
    <3>1. index.read \in Seq(Manual)
      BY <1>1 DEF Progress
    <3>2. i \in 1 .. Len(index.read)
      BY <2>3, <2>5
    <3>. QED
      BY <3>1, <3>2
  <2>8. index.read[i].text \in Texts
    BY <2>7 DEF Manual, Texts
  <2>. QED
    BY <2>6, <2>8, TextIsSplitWell, Zenon DEF SplitsWell
<1>3. CASE ~ Exists(index)
  <2>1. index = NoWork
    BY <1>3 DEF IInv, IndexInv
  <2>2. index.manifest.active = <<>>
    BY <2>1 DEF NoWork
  <2>. QED
    BY <2>2
<1>. QED
  BY <1>2, <1>3

\* What any build publishes, however it was interrupted or overtaken, keeps the
\* text of every manual it has read.
THEOREM PublishedKeepsText == Spec => []ChunksKeepText
BY AlwaysIInv, InvImpliesKeepsText, PTL

----------------------------------------------------------------------------
(* The promise of PublishedIndex *)

\* A finished index is seen as a whole one.
LEMMA FinishedIsWhole ==
  ASSUME NEW w \in Progress, Finished(w)
  PROVE  /\ View(w) = [source |-> [manifest |-> w.manifest, read |-> w.read], model |-> w.model]
         /\ View(w) \in Promise!Whole(Models)
         /\ View(w) \in Promise!Whole({w.model})
<1>1. /\ w.read \in Seq(Manual) /\ w.parts \in Seq(PartSet) /\ w.manifest \in Manifest
      /\ w.manifest.active \in Seq(Entry)
  BY DEF Progress, Manifest
<1>2. /\ w.model \in Models /\ Len(w.parts) = Len(w.read)
      /\ \A i \in 1 .. Len(w.parts) :
           w.parts[i] = IF i <= Len(w.manifest.active)
                        THEN Chunks(Normalized(w.read[i].text)) ELSE <<>>
      /\ AllRead(w) /\ w.vectors = Size(w)
  BY DEF Finished, Faithful
<1>3. Exists(w)
  BY <1>2, IndexAssumption DEF Exists
<1>4. DOMAIN w.parts = 1 .. Len(w.parts) /\ DOMAIN w.read = 1 .. Len(w.read)
  BY <1>1
<1>5. ASSUME NEW i \in DOMAIN w.parts, i > Len(w.manifest.active)
      PROVE  w.parts[i] = <<>>
  <2>1. Len(w.manifest.active) \in Nat /\ i \in Int
    BY <1>1, <1>4
  <2>2. ~ (i <= Len(w.manifest.active))
    BY <1>5, <2>1
  <2>. QED
    BY <1>2, <1>4, <2>2, Zenon
<1>6. Complete(w)
  BY <1>2, <1>4, <1>5, Zenon DEF Complete
<1>7. View(w) = [source |-> [manifest |-> w.manifest, read |-> w.read], model |-> w.model]
  BY <1>3, <1>6 DEF View
<1>8. [manifest |-> w.manifest, read |-> w.read] \in [manifest : Manifest, read : Seq(Manual)]
  BY <1>1
<1>. QED
  BY <1>2, <1>7, <1>8 DEF Promise!Whole

LEMMA NothingSeen ==
  /\ View(NoWork) = NoModel
  /\ View(Down.index) = NoModel /\ Down.settings.model = NoModel
BY NoWorkTyped, DownIs DEF View

LEMMA PromiseInit == Init => Promise!Init
BY NothingSeen DEF Init, Promise!Init

LEMMA PromiseStep == IInv /\ [Next]_vars => [Promise!Next]_(Promise!vars)
<1>. SUFFICES ASSUME IInv, [Next]_vars
              PROVE  Promise!Next \/ UNCHANGED Promise!vars
  OBVIOUS
<1>1. ASSUME UNCHANGED <<index, server>>
      PROVE  UNCHANGED Promise!vars
  BY <1>1 DEF Promise!vars, View, Exists, Complete, AllRead, Size
<1>2. ASSUME NEW b \in Builders, Save(b)
      PROVE  Promise!Publish
  <2>1. index' = work[b] /\ UNCHANGED server
    BY <1>2 DEF Save
  <2>2. work[b] \in Progress /\ Finished(work[b])
    BY <1>2 DEF Save, IInv, Typed, WorkInv, Finished
  <2>3. View(index)' = View(work[b])
    BY <2>1 DEF View, Exists, Complete, AllRead, Size
  <2>4. View(index)' \in Promise!Whole(Models)
    BY <2>2, <2>3, FinishedIsWhole
  <2>5. View(server.index)' = View(server.index) /\ server'.settings = server.settings
    BY <2>1 DEF View, Exists, Complete, AllRead, Size
  <2>. QED
    BY <2>4, <2>5 DEF Promise!Publish
<1>3. ASSUME NEW s \in Settings, StartServer(s) \/ StartWithout(s)
      PROVE  Promise!Start
  <2>1. UNCHANGED index /\ server = Down /\ server'.settings = s
    BY <1>3, Comes
  <2>2. s.model \in Models
    BY IndexAssumption
  <2>3. View(index)' = View(index)
    BY <2>1 DEF View, Exists, Complete, AllRead, Size
  <2>4. View(server.index)' \in {NoModel} \cup ({View(index)} \cap Promise!Whole({s.model}))
    <3>1. CASE server'.index = NoWork
      <4>1. View(server.index)' = View(NoWork)
        BY <3>1 DEF View, Exists, Complete, AllRead, Size
      <4>. QED
        BY <4>1, NothingSeen
    <3>2. CASE server'.index = index /\ Exists(index) /\ index.model = s.model
      <4>1. View(server.index)' = View(index)
        BY <3>2 DEF View, Exists, Complete, AllRead, Size
      <4>2. index \in Progress /\ Finished(index)
        BY <3>2 DEF IInv, Typed, IndexInv
      <4>3. View(index) \in Promise!Whole({s.model})
        BY <3>2, <4>2, FinishedIsWhole
      <4>. QED
        BY <4>1, <4>3
    <3>. QED
      BY <1>3, <3>1, <3>2, Comes
  <2>5. server.settings.model = NoModel
    BY <2>1, NothingSeen
  <2>. QED
    BY <2>1, <2>2, <2>3, <2>4, <2>5 DEF Promise!Start
<1>4. ASSUME StopServer
      PROVE  Promise!Stop
  <2>1. server' = Down /\ UNCHANGED index
    BY <1>4 DEF StopServer
  <2>2. View(index)' = View(index) /\ View(server.index)' = View(Down.index)
    BY <2>1 DEF View, Exists, Complete, AllRead, Size
  <2>. QED
    BY <2>1, <2>2, NothingSeen DEF Promise!Stop
<1>5. CASE UNCHANGED vars
  BY <1>1, <1>5 DEF vars
<1>6. CASE Author
  BY <1>1, <1>6 DEF Author, EditManual, EditManifest
<1>7. CASE StartCheck \/ CheckManual \/ Report
  BY <1>1, <1>7 DEF StartCheck, CheckManual, Report
<1>8. ASSUME NEW b \in Builders, Build(b)
      PROVE  Promise!Next \/ UNCHANGED Promise!vars
  <2>1. CASE ReadManifest(b) \/ ReadManual(b) \/ EmbedBatch(b)
    BY <1>1, <2>1 DEF ReadManifest, ReadManual, EmbedBatch
  <2>2. CASE BuildFails(b) \/ BuilderDies(b) \/ \E s \in Settings : StartBuild(b, s)
    BY <1>1, <2>2 DEF BuildFails, BuilderDies, StartBuild
  <2>3. CASE Save(b)
    BY <1>2, <2>3 DEF Promise!Next
  <2>. QED
    BY <1>8, <2>1, <2>2, <2>3 DEF Build
<1>. QED
  BY <1>2, <1>3, <1>4, <1>5, <1>6, <1>7, <1>8 DEF Next, Promise!Next

\* Whatever is edited, interrupted or built side by side: the file is the whole
\* result of one build, and a server serves the one it found when it started,
\* if that is its own model's.
THEOREM KeepsPromise == Spec => IndexKeepsPromise
<1>1. Init => Promise!Init
  BY PromiseInit
<1>2. IInv /\ [Next]_vars => [Promise!Next]_(Promise!vars)
  BY PromiseStep
<1>. QED
  BY <1>1, <1>2, AlwaysIInv, PTL DEF Spec, IndexKeepsPromise, Promise!Spec

=============================================================================
