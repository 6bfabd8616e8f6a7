----------------------------- MODULE EvidenceProofs -----------------------------
(***************************************************************************)
(* What holds of the evidence that is sealed, for every set of artifacts,  *)
(* roots, categories and commits.                                          *)
(*                                                                         *)
(* The argument follows a file from the artifacts to the report: WorldOK   *)
(* says what Git knows of an artifact, ExportFollows what a running export *)
(* has copied, ManifestTells what its manifest still says of artifacts and *)
(* commits later, SealFollows that what was found when a seal began is so  *)
(* until it ends.                                                          *)
(***************************************************************************)
EXTENDS Evidence, TLAPS

\* The artifacts that are there.
Existing == {a \in Artifacts : disk[a] # Absent}

\* The world outside the export: an artifact names the commit it was made at,
\* and one that is in HEAD was made before HEAD.
WorldOK ==
  /\ network \in Networks
  /\ disk \in [Artifacts -> File \union {Absent}]
  /\ HEAD \in Commits /\ inputs \in Seq(Commits) /\ working \in 0..MaxCommits
  /\ tracked \in [Artifacts -> File \union {Absent}]
  /\ \A a \in Existing : disk[a].commit <= HEAD
  /\ \A a \in Artifacts : tracked[a] # Absent => tracked[a].commit < HEAD

\* The running command is one of these.
CopyCmd == [at : {"copy"}, root : 1..Roots + 1, queue : SUBSET Items, copied : SUBSET Items]
StatusCmd == [at : {"status"}, copied : SUBSET Items, commit : Commits]
SealCmd == [at : {"sums", "verify"}]

ExportOK ==
  /\ out \in Copies
  /\ manifest \in {Absent, Torn} \/ manifest \in Manifest
  /\ cmd \in {Idle} \union CopyCmd \union StatusCmd \union SealCmd
  /\ cmd.at \in Exporting => \A i \in cmd.copied : out[i] # Absent
  /\ cmd.at = "copy" => \A a \in cmd.queue \intersect Artifacts : a \in Existing
  /\ began \subseteq Existing /\ touched \in BOOLEAN

LEMMA Files ==
  /\ \A f \in File : f.commit \in 0..MaxCommits /\ f.whole \in BOOLEAN
  /\ \A f \in File : f # Absent /\ Part(f) \in File /\ Part(f) # Absent
  /\ \A c \in 0..MaxCommits : Whole(c) \in File /\ Whole(c) # Absent
  /\ \A f, g \in File : f.commit = g.commit /\ f.whole = g.whole => f = g
  <1>1. \A f \in File : f.commit \in 0..MaxCommits /\ f.whole \in BOOLEAN
    BY DEF File
  <1>2. \A f \in File : f # Absent
    BY Markers
  <1>3. \A f \in File : Part(f) \in File
    BY <1>1 DEF File, Part
  <1>4. \A c \in 0..MaxCommits : Whole(c) \in File
    BY DEF File, Whole
  <1>5. \A f, g \in File : f.commit = g.commit /\ f.whole = g.whole => f = g
    BY DEF File
  <1>6. QED
    BY <1>1, <1>2, <1>3, <1>4, <1>5

\* Commits are only added.
LEMMA HistoryGrows ==
  ASSUME WorldOK, [Next]_vars
  PROVE  /\ HEAD \in Nat /\ HEAD' \in Nat /\ HEAD <= HEAD'
         /\ \A c \in 1..HEAD : inputs'[c] = inputs[c]
  <1>1. inputs \in Seq(Commits) /\ HEAD \in Nat /\ HEAD = Len(inputs)
    BY DEF WorldOK, HEAD, Commits
  <1>2. CASE UNCHANGED inputs
    BY <1>1, <1>2 DEF HEAD
  <1>3. CASE UseGit
    <2>1. CASE UNCHANGED inputs
      BY <1>1, <2>1 DEF HEAD
    <2>2. CASE \E c \in Commits : inputs' = Append(inputs, c)
      BY <1>1, <2>2 DEF HEAD
    <2>3. (HEAD < MaxCommits /\ working # 0) => working \in Commits
      BY DEF WorldOK, Commits
    <2>4. (HEAD < MaxCommits /\ working = 0) => HEAD + 1 \in Commits
      BY <1>1, EvidenceInputs DEF WorldOK, Commits
    <2>5. UNCHANGED inputs \/ \E c \in Commits : inputs' = Append(inputs, c)
      BY <1>3, <2>3, <2>4 DEF UseGit
    <2>6. QED
      BY <2>1, <2>2, <2>5
  <1>4. UNCHANGED inputs \/ UseGit
    BY DEF Next, vars, worldVars, CreateArtifact, FillArtifact, ExportStart, ExportNextRoot,
           ReadCommit, WriteManifest, ExportCopy, Tamper, SealStart, WriteSums, SealReport,
           Kill, Discard
  <1>5. QED
    BY <1>2, <1>3, <1>4

LEMMA StepKeepsWorld ==
  ASSUME WorldOK, [Next]_vars
  PROVE  WorldOK'
  <1>1. /\ HEAD \in Nat /\ HEAD \in Commits /\ inputs \in Seq(Commits) /\ working \in 0..MaxCommits
        /\ disk \in [Artifacts -> File \union {Absent}]
        /\ tracked \in [Artifacts -> File \union {Absent}]
    BY DEF WorldOK, Commits
  <1>2. ASSUME NEW a \in Artifacts, CreateArtifact(a) PROVE WorldOK'
    <2>1. /\ disk' = [disk EXCEPT ![a] = Part(Whole(HEAD))] /\ disk[a] = Absent
          /\ UNCHANGED <<network, inputs, working, tracked>>
      BY <1>2 DEF CreateArtifact
    <2>2. Part(Whole(HEAD)) \in File /\ Part(Whole(HEAD)).commit = HEAD
      <3>1. HEAD \in 0..MaxCommits
        BY <1>1, EvidenceInputs DEF Commits
      <3>2. Whole(HEAD) \in File
        BY <3>1, Files
      <3>3. Part(Whole(HEAD)).commit = HEAD
        BY DEF Part, Whole
      <3>4. QED
        BY <3>2, <3>3, Files
    <2>3. HEAD' = HEAD
      BY <2>1 DEF HEAD
    <2>4. QED
      BY <1>1, <2>1, <2>2, <2>3 DEF WorldOK, Existing
  <1>3. ASSUME NEW a \in Artifacts, FillArtifact(a) PROVE WorldOK'
    <2>1. /\ disk' = [disk EXCEPT ![a].whole = TRUE] /\ disk[a] # Absent
          /\ UNCHANGED <<network, inputs, working, tracked>>
      BY <1>3 DEF FillArtifact
    <2>2. disk[a] \in File
      BY <1>1, <2>1
    <2>3. /\ [disk[a] EXCEPT !.whole = TRUE] \in File
          /\ [disk[a] EXCEPT !.whole = TRUE].commit = disk[a].commit
      BY <2>2 DEF File
    <2>4. /\ \A b \in Artifacts : b # a => disk'[b] = disk[b]
          /\ disk'[a] = [disk[a] EXCEPT !.whole = TRUE]
          /\ disk' \in [Artifacts -> File \union {Absent}]
      BY <1>1, <2>1, <2>3
    <2>5. HEAD' = HEAD
      BY <2>1 DEF HEAD
    <2>6. QED
      BY <1>1, <2>1, <2>3, <2>4, <2>5 DEF WorldOK, Existing
  <1>4. ASSUME UseGit PROVE WorldOK'
    <2>1. UNCHANGED <<network, disk>>
      BY <1>4 DEF UseGit
    <2>2. CASE UNCHANGED <<inputs, tracked>>
      <3>1. HEAD' = HEAD
        BY <2>2 DEF HEAD
      <3>2. inputs[HEAD] \in Commits
        <4>1. HEAD \in 1..Len(inputs)
          BY <1>1, EvidenceInputs DEF HEAD, Commits
        <4>2. QED
          BY <1>1, <4>1
      <3>3. working' \in 0..MaxCommits
        BY <1>1, <1>4, <2>2, <3>2, EvidenceInputs DEF UseGit, Commits
      <3>4. QED
        BY <2>1, <2>2, <3>1, <3>3 DEF WorldOK, Existing
    <2>3. CASE /\ HEAD < MaxCommits
               /\ inputs' = Append(inputs, IF working = 0 THEN HEAD + 1 ELSE working)
               /\ working' = inputs'[HEAD + 1]
               /\ tracked' = [a \in Artifacts |->
                                IF a \in Ignored[network] THEN Absent ELSE disk[a]]
      <3> DEFINE c == IF working = 0 THEN HEAD + 1 ELSE working
      <3>1. c \in Commits
        BY <1>1, <2>3, EvidenceInputs DEF Commits
      <3> HIDE DEF c
      <3>2. inputs' = Append(inputs, c)
        BY <2>3 DEF c
      <3>3. inputs' \in Seq(Commits) /\ Len(inputs') = Len(inputs) + 1
            /\ inputs'[Len(inputs) + 1] = c
        BY <1>1, <3>1, <3>2
      <3>4. HEAD' = HEAD + 1 /\ working' \in 0..MaxCommits /\ HEAD' \in Commits
        BY <1>1, <2>3, <3>1, <3>3, EvidenceInputs DEF HEAD, Commits
      <3>5. tracked' \in [Artifacts -> File \union {Absent}]
        BY <1>1, <2>3
      <3>6. \A a \in Existing : disk[a].commit \in Nat /\ disk[a].commit <= HEAD
        BY <1>1, Files DEF WorldOK, Existing
      <3>7. \A a \in Artifacts : tracked'[a] # Absent => tracked'[a].commit < HEAD'
        BY <1>1, <2>3, <3>4, <3>6 DEF Existing
      <3>8. \A a \in Existing' : disk'[a].commit <= HEAD'
        BY <1>1, <2>1, <3>4, <3>6 DEF Existing
      <3>9. QED
        BY <1>1, <2>1, <3>3, <3>4, <3>5, <3>7, <3>8 DEF WorldOK
    <2>4. QED
      BY <1>4, <2>2, <2>3 DEF UseGit
  <1>5. ASSUME UNCHANGED <<network, worldVars>> PROVE WorldOK'
    BY <1>5 DEF WorldOK, worldVars, Existing, HEAD
  <1>6. QED
    BY <1>2, <1>3, <1>4, <1>5
       DEF Next, vars, ExportStart, ExportNextRoot, ReadCommit, WriteManifest, ExportCopy, Tamper,
           SealStart, WriteSums, SealReport, Kill, Discard
-----------------------------------------------------------------------------
\* Artifacts are never removed, nor is what they say changed.
LEMMA ArtifactsStay ==
  ASSUME WorldOK, [Next]_vars
  PROVE  \A a \in Existing :
           /\ a \in Existing' /\ disk[a] \in File /\ disk'[a] \in File
           /\ disk'[a].commit = disk[a].commit
           /\ disk[a].whole => disk'[a] = disk[a]
  <1>1. disk \in [Artifacts -> File \union {Absent}] /\ disk' \in [Artifacts -> File \union {Absent}]
    BY StepKeepsWorld DEF WorldOK
  <1>2. ASSUME NEW a \in Existing, NEW b \in Artifacts, CreateArtifact(b)
        PROVE  disk'[a] = disk[a]
    BY <1>1, <1>2 DEF CreateArtifact, Existing
  <1>3. ASSUME NEW a \in Existing, NEW b \in Artifacts, FillArtifact(b)
        PROVE  /\ disk'[a] # Absent /\ disk'[a].commit = disk[a].commit
               /\ disk[a].whole => disk'[a] = disk[a]
    <2>1. disk' = [disk EXCEPT ![b].whole = TRUE] /\ ~disk[b].whole
      BY <1>3 DEF FillArtifact
    <2>2. CASE a # b
      BY <1>1, <2>1, <2>2 DEF Existing
    <2>3. CASE a = b
      <3>1. disk'[a] = [disk[a] EXCEPT !.whole = TRUE] /\ disk[a] \in File
        BY <1>1, <2>1, <2>3 DEF Existing
      <3>2. disk'[a] \in File /\ disk'[a].commit = disk[a].commit
        BY <3>1 DEF File
      <3>3. QED
        BY <2>1, <2>3, <3>2, Files
    <2>4. QED
      BY <2>2, <2>3
  <1>4. \/ \E b \in Artifacts : CreateArtifact(b) \/ FillArtifact(b)
        \/ UNCHANGED disk
    BY DEF Next, vars, worldVars, UseGit, ExportStart, ExportNextRoot, ReadCommit, WriteManifest,
           ExportCopy, Tamper, SealStart, WriteSums, SealReport, Kill, Discard
  <1>5. \A a \in Existing : /\ disk'[a] # Absent /\ disk'[a].commit = disk[a].commit
                            /\ disk[a].whole => disk'[a] = disk[a]
    BY <1>2, <1>3, <1>4 DEF Existing
  <1>6. QED
    BY <1>1, <1>5 DEF Existing

\* What a command in progress is made of.
LEMMA CommandShapes ==
  ASSUME cmd \in {Idle} \union CopyCmd \union StatusCmd \union SealCmd
  PROVE  /\ cmd.at = "copy" =>
              /\ cmd \in CopyCmd
              /\ cmd = [at |-> "copy", root |-> cmd.root, queue |-> cmd.queue, copied |-> cmd.copied]
              /\ cmd.root \in 1..Roots + 1 /\ cmd.queue \subseteq Items /\ cmd.copied \subseteq Items
         /\ cmd.at = "status" =>
              cmd \in StatusCmd /\ cmd.copied \subseteq Items /\ cmd.commit \in Commits
         /\ cmd.at \in {"idle", "copy", "status", "sums", "verify"}
         /\ cmd.at = "idle" <=> cmd = Idle
  <1>1. cmd = Idle => cmd.at = "idle"
    BY DEF Idle
  <1>2. cmd \in CopyCmd =>
          /\ cmd.at = "copy"
          /\ cmd = [at |-> "copy", root |-> cmd.root, queue |-> cmd.queue, copied |-> cmd.copied]
          /\ cmd.root \in 1..Roots + 1 /\ cmd.queue \subseteq Items /\ cmd.copied \subseteq Items
    BY DEF CopyCmd
  <1>3. cmd \in StatusCmd => cmd.at = "status" /\ cmd.copied \subseteq Items /\ cmd.commit \in Commits
    BY DEF StatusCmd
  <1>4. cmd \in SealCmd => cmd.at \in {"sums", "verify"}
    BY DEF SealCmd
  <1>5. QED
    BY <1>1, <1>2, <1>3, <1>4

\* What the steps of a copying export make of it.
LEMMA CopySteps ==
  ASSUME ExportOK
  PROVE  /\ \A i : ExportCopy(i) =>
              /\ i \in Items
              /\ cmd' = [at |-> "copy", root |-> cmd.root, queue |-> cmd.queue \ {i},
                         copied |-> cmd.copied \union {i}]
              /\ cmd' \in CopyCmd
         /\ ExportNextRoot =>
              /\ cmd' = [at |-> "copy", root |-> cmd.root + 1,
                         queue |-> IF cmd.root = Roots THEN {Input} ELSE FilesOf(cmd.root + 1),
                         copied |-> cmd.copied]
              /\ cmd' \in CopyCmd
  <1>1. cmd \in {Idle} \union CopyCmd \union StatusCmd \union SealCmd
    BY DEF ExportOK
  <1>2. ASSUME NEW i, ExportCopy(i)
        PROVE  /\ i \in Items
               /\ cmd' = [at |-> "copy", root |-> cmd.root, queue |-> cmd.queue \ {i},
                          copied |-> cmd.copied \union {i}]
               /\ cmd' \in CopyCmd
    <2>1. cmd = [at |-> "copy", root |-> cmd.root, queue |-> cmd.queue, copied |-> cmd.copied]
          /\ cmd.root \in 1..Roots + 1 /\ cmd.queue \subseteq Items /\ cmd.copied \subseteq Items
          /\ i \in cmd.queue
      BY <1>1, <1>2, CommandShapes DEF ExportCopy
    <2>2. cmd' = [cmd EXCEPT !.queue = cmd.queue \ {i}, !.copied = cmd.copied \union {i}]
      BY <1>2, <2>1 DEF ExportCopy
    <2>3. cmd' = [at |-> "copy", root |-> cmd.root, queue |-> cmd.queue \ {i},
                  copied |-> cmd.copied \union {i}]
      <3>1. PICK root, queue, copied :
              cmd = [at |-> "copy", root |-> root, queue |-> queue, copied |-> copied]
        BY <2>1
      <3>2. cmd.root = root /\ cmd.queue = queue /\ cmd.copied = copied
        BY <3>1
      <3>3. cmd' = [at |-> "copy", root |-> root, queue |-> queue \ {i},
                    copied |-> copied \union {i}]
        BY <2>2, <3>1, <3>2
      <3>4. QED
        BY <3>2, <3>3
    <2>4. QED
      BY <2>1, <2>3 DEF CopyCmd
  <1>3. ASSUME ExportNextRoot
        PROVE  /\ cmd' = [at |-> "copy", root |-> cmd.root + 1,
                          queue |-> IF cmd.root = Roots THEN {Input} ELSE FilesOf(cmd.root + 1),
                          copied |-> cmd.copied]
               /\ cmd' \in CopyCmd
    <2>1. cmd = [at |-> "copy", root |-> cmd.root, queue |-> cmd.queue, copied |-> cmd.copied]
          /\ cmd.root \in 1..Roots + 1 /\ cmd.root <= Roots /\ cmd.copied \subseteq Items
      BY <1>1, <1>3, CommandShapes DEF ExportNextRoot
    <2> DEFINE queue == IF cmd.root = Roots THEN {Input} ELSE FilesOf(cmd.root + 1)
    <2>2. queue \subseteq Items
      BY DEF FilesOf, Items
    <2>3. cmd.root + 1 \in 1..Roots + 1
      BY <2>1, EvidenceInputs
    <2>4. cmd' = [cmd EXCEPT !.root = cmd.root + 1, !.queue = queue]
      BY <1>3, <2>1 DEF ExportNextRoot
    <2> HIDE DEF queue
    <2>5. cmd' = [at |-> "copy", root |-> cmd.root + 1, queue |-> queue, copied |-> cmd.copied]
      <3>1. PICK root, rest, copied :
              cmd = [at |-> "copy", root |-> root, queue |-> rest, copied |-> copied]
        BY <2>1
      <3>2. cmd.root = root /\ cmd.copied = copied
        BY <3>1
      <3>3. cmd' = [at |-> "copy", root |-> root + 1, queue |-> queue, copied |-> copied]
        BY <2>4, <3>1, <3>2
      <3>4. QED
        BY <3>2, <3>3
    <2>6. cmd' \in CopyCmd
      BY <2>1, <2>2, <2>3, <2>5 DEF CopyCmd
    <2>7. QED
      BY <2>5, <2>6 DEF queue
  <1>4. QED
    BY <1>2, <1>3

\* What is copied is a file.
LEMMA SourcesAreFiles ==
  ASSUME WorldOK, ExportOK, NEW i \in Items, cmd.at = "copy", i \in cmd.queue
  PROVE  SourceOf(i) \in File /\ Part(SourceOf(i)) \in File
  <1>1. CASE i = Input
    BY <1>1, Files DEF WorldOK, SourceOf
  <1>2. CASE i # Input
    <2>1. i \in Existing
      BY <1>2 DEF ExportOK, Items
    <2>2. disk[i] \in File
      BY <2>1 DEF WorldOK, Existing
    <2>3. QED
      BY <1>2, <2>2, Files DEF SourceOf
  <1>3. QED
    BY <1>1, <1>2

LEMMA StepKeepsExport ==
  ASSUME WorldOK, ExportOK, [Next]_vars
  PROVE  ExportOK'
  <1>1. Existing \subseteq Existing'
    BY ArtifactsStay
  <1>2. /\ out \in Copies /\ (manifest \in {Absent, Torn} \/ manifest \in Manifest)
        /\ cmd \in {Idle} \union CopyCmd \union StatusCmd \union SealCmd
        /\ cmd.at \in Exporting => \A i \in cmd.copied : out[i] # Absent
        /\ cmd.at = "copy" => \A a \in cmd.queue \intersect Artifacts : a \in Existing
        /\ began \subseteq Existing /\ touched \in BOOLEAN
    BY DEF ExportOK
  <1>3. Idle.at = "idle" /\ "idle" \notin Exporting /\ Input \notin Artifacts /\ Roots \in Nat
    BY EvidenceInputs DEF Idle, Exporting
  <1>4. ASSUME UNCHANGED <<outVars, cmd, began>>, touched' \in BOOLEAN PROVE ExportOK'
    BY <1>1, <1>2, <1>4 DEF ExportOK, outVars
  <1>5. CASE ExportStart
    <2>1. /\ cmd' = [at |-> "copy", root |-> 1, queue |-> FilesOf(1), copied |-> {}]
          /\ began' = Existing /\ touched' = FALSE /\ UNCHANGED <<out, manifest, disk>>
      BY <1>5 DEF ExportStart, outVars, worldVars, Existing
    <2>2. FilesOf(1) \subseteq Existing /\ FilesOf(1) \subseteq Items
      BY DEF FilesOf, Existing, Items
    <2>3. cmd' \in CopyCmd
      BY <1>3, <2>1, <2>2 DEF CopyCmd
    <2>4. QED
      BY <1>1, <1>2, <2>1, <2>2, <2>3 DEF ExportOK
  <1>6. ASSUME NEW i \in Items, ExportCopy(i) PROVE ExportOK'
    <2>1. /\ cmd' = [at |-> "copy", root |-> cmd.root, queue |-> cmd.queue \ {i},
                     copied |-> cmd.copied \union {i}]
          /\ cmd' \in CopyCmd
      BY <1>6, CopySteps
    <2>2. /\ out' = [out EXCEPT ![i] = SourceOf(i)] /\ cmd.at = "copy" /\ i \in cmd.queue
          /\ UNCHANGED <<manifest, began, touched>>
      BY <1>6 DEF ExportCopy
    <2>3. SourceOf(i) \in File /\ SourceOf(i) # Absent
      BY <2>2, SourcesAreFiles, Files
    <2>4. out' \in Copies /\ \A j \in Items : out'[j] = IF j = i THEN SourceOf(i) ELSE out[j]
      BY <1>2, <2>2, <2>3 DEF Copies
    <2>5. cmd.copied \subseteq Items
      BY <1>2, <2>2, CommandShapes
    <2>6. \A j \in cmd'.copied : out'[j] # Absent
      BY <1>2, <2>1, <2>2, <2>3, <2>4, <2>5 DEF Exporting
    <2>7. \A a \in cmd'.queue \intersect Artifacts : a \in Existing'
      BY <1>1, <1>2, <2>1, <2>2
    <2>8. QED
      BY <1>1, <1>2, <2>1, <2>2, <2>4, <2>6, <2>7 DEF ExportOK
  <1>7. CASE ExportNextRoot
    <2>1. /\ cmd' = [at |-> "copy", root |-> cmd.root + 1,
                     queue |-> IF cmd.root = Roots THEN {Input} ELSE FilesOf(cmd.root + 1),
                     copied |-> cmd.copied]
          /\ cmd' \in CopyCmd
      BY <1>7, CopySteps
    <2>2. UNCHANGED <<out, manifest, began, touched>> /\ cmd.at = "copy"
      BY <1>7 DEF ExportNextRoot, outVars
    <2>3. \A a \in cmd'.queue \intersect Artifacts : a \in Existing
      BY <1>3, <2>1 DEF FilesOf, Existing
    <2>4. \A i \in cmd'.copied : out'[i] # Absent
      BY <1>2, <2>1, <2>2 DEF Exporting
    <2>5. QED
      BY <1>1, <1>2, <2>1, <2>2, <2>3, <2>4 DEF ExportOK
  <1>8. CASE ReadCommit
    <2>1. /\ cmd' = [at |-> "status", copied |-> cmd.copied, commit |-> HEAD] /\ cmd.at = "copy"
          /\ UNCHANGED <<out, manifest, began, touched>>
      BY <1>8 DEF ReadCommit, outVars
    <2>2. cmd.copied \subseteq Items /\ HEAD \in Commits
      BY <1>2, <2>1, CommandShapes DEF WorldOK
    <2>3. cmd' \in StatusCmd
      BY <2>1, <2>2 DEF StatusCmd
    <2>4. \A i \in cmd'.copied : out'[i] # Absent
      BY <1>2, <2>1 DEF Exporting
    <2>5. QED
      BY <1>1, <1>2, <2>1, <2>3, <2>4 DEF ExportOK
  <1>9. CASE WriteManifest
    <2>1. /\ cmd.at = "status" /\ cmd' = Idle /\ UNCHANGED <<out, began, touched>>
          /\ manifest' = [commit |-> cmd.commit, clean |-> Clean,
                          files |-> [i \in cmd.copied |-> out[i]],
                          present |-> Categories(cmd.copied)]
      BY <1>9 DEF WriteManifest
    <2>2. cmd.copied \subseteq Items /\ cmd.commit \in Commits
      BY <1>2, <2>1, CommandShapes
    <2>3. [i \in cmd.copied |-> out[i]] \in [cmd.copied -> File]
      BY <1>2, <2>1, <2>2 DEF Copies, Exporting
    <2>4. [i \in cmd.copied |-> out[i]] \in UNION {[S -> File] : S \in SUBSET Items}
      BY <2>2, <2>3
    <2>5. Categories(cmd.copied) \subseteq {Category[a] : a \in Artifacts}
      BY DEF Categories
    <2>6. Clean \in BOOLEAN
      BY DEF Clean
    <2>7. manifest' \in Manifest
      BY <2>1, <2>2, <2>4, <2>5, <2>6 DEF Manifest
    <2>8. QED
      BY <1>1, <1>2, <1>3, <2>1, <2>7 DEF ExportOK
  <1>10. ASSUME NEW i \in Items, Tamper(i) PROVE ExportOK'
    <2>1. PICK f \in Substitutes : out' = [out EXCEPT ![i] = f]
      BY <1>10 DEF Tamper
    <2>2. cmd' = Idle /\ UNCHANGED <<manifest, began, touched>>
      BY <1>10 DEF Tamper
    <2>3. out' \in Copies
      BY <1>2, <2>1, Markers DEF Copies
    <2>4. QED
      BY <1>1, <1>2, <1>3, <2>2, <2>3 DEF ExportOK
  <1>11. CASE SealStart \/ WriteSums \/ SealReport
    <2>1. UNCHANGED <<outVars, began, touched>> /\ cmd' \in {Idle} \union SealCmd
      BY <1>11 DEF SealStart, WriteSums, SealReport, SealCmd
    <2>2. cmd'.at \notin Exporting /\ cmd'.at # "copy"
      BY <1>3, <2>1 DEF SealCmd, Exporting
    <2>3. QED
      BY <1>1, <1>2, <2>1, <2>2 DEF ExportOK, outVars
  <1>12. CASE Kill
    <2>1. cmd' = Idle /\ UNCHANGED <<began, touched>>
          /\ (manifest' = manifest \/ manifest' = Torn)
      BY <1>12 DEF Kill, outVars
    <2>2. out' \in Copies
      <3>1. CASE UNCHANGED out
        BY <1>2, <3>1
      <3>2. CASE cmd.at = "copy" /\ \E i \in cmd.queue : out' = [out EXCEPT ![i] = Part(SourceOf(i))]
        <4>1. PICK i \in cmd.queue : out' = [out EXCEPT ![i] = Part(SourceOf(i))]
          BY <3>2
        <4>2. i \in Items
          BY <1>2, <3>2, CommandShapes
        <4>3. Part(SourceOf(i)) \in File
          BY <3>2, <4>2, SourcesAreFiles
        <4>4. QED
          BY <1>2, <4>1, <4>3 DEF Copies
      <3>3. QED
        BY <1>12, <3>1, <3>2 DEF Kill, outVars
    <2>3. QED
      BY <1>1, <1>2, <1>3, <2>1, <2>2 DEF ExportOK
  <1>13. CASE Discard
    <2>1. /\ out' = Empty /\ manifest' = Absent /\ began' = {} /\ touched' = FALSE
          /\ cmd' = Idle
      BY <1>13 DEF Discard
    <2>2. out' \in Copies
      BY <2>1 DEF Empty, Copies
    <2>3. QED
      BY <1>1, <1>3, <2>1, <2>2 DEF ExportOK
  <1>14. ASSUME \/ \E a \in Artifacts : CreateArtifact(a) \/ FillArtifact(a)
                \/ UseGit \/ UNCHANGED vars
         PROVE  UNCHANGED <<outVars, cmd, began>> /\ touched' \in BOOLEAN
    BY <1>2, <1>14 DEF CreateArtifact, FillArtifact, UseGit, vars
  <1>15. QED
    BY <1>4, <1>5, <1>6, <1>7, <1>8, <1>9, <1>10, <1>11, <1>12, <1>13, <1>14 DEF Next
-----------------------------------------------------------------------------
\* f was copied from an artifact that is d now, perhaps before all of it was
\* there.
IsCopyOf(f, d) ==
  /\ f \in File /\ d \in File
  /\ f.commit = d.commit
  /\ f.whole => d.whole

\* A running export: what it has copied, and what it has still to copy.
ExportFollows ==
  /\ cmd.at \in Exporting =>
       /\ \A a \in cmd.copied \intersect Artifacts : a \in Existing /\ IsCopyOf(out[a], disk[a])
       /\ Input \in cmd.copied /\ ~touched => out[Input] = Whole(working)
  /\ cmd.at = "copy" =>
       /\ \A a \in began : a \in cmd.copied \union cmd.queue \/ Root[a] > cmd.root
       /\ cmd.root > Roots => Input \in cmd.copied \union cmd.queue
  /\ cmd.at = "status" =>
       /\ began \subseteq cmd.copied /\ Input \in cmd.copied
       /\ cmd.commit \in 1..HEAD
       /\ ~touched => cmd.commit = HEAD

LEMMA CopiesStay ==
  ASSUME WorldOK, [Next]_vars
  PROVE  \A a \in Existing : \A f :
           IsCopyOf(f, disk[a]) => a \in Existing' /\ IsCopyOf(f, disk'[a])
  BY ArtifactsStay DEF IsCopyOf

LEMMA StepKeepsFollowing ==
  ASSUME WorldOK, ExportOK, ExportFollows, [Next]_vars
  PROVE  ExportFollows'
  <1>1. /\ cmd \in {Idle} \union CopyCmd \union StatusCmd \union SealCmd
        /\ out \in Copies /\ began \subseteq Existing
        /\ disk \in [Artifacts -> File \union {Absent}]
    BY DEF ExportOK, WorldOK
  <1>2. /\ Idle.at = "idle" /\ Input \notin Artifacts /\ Roots \in Nat
        /\ Root \in [Artifacts -> 1..Roots] /\ Existing \subseteq Artifacts
        /\ "idle" \notin Exporting /\ "copy" \in Exporting /\ "status" \in Exporting
    BY EvidenceInputs DEF Idle, Exporting, Existing
  <1>3. HEAD \in Nat /\ HEAD' \in Nat /\ HEAD <= HEAD'
    BY HistoryGrows
  <1>4. /\ cmd.at \in Exporting =>
             /\ \A a \in cmd.copied \intersect Artifacts :
                  a \in Existing' /\ IsCopyOf(out[a], disk'[a])
             /\ cmd.copied \subseteq Items
        /\ cmd.at = "status" => cmd.commit \in 1..HEAD'
    <2>1. ASSUME cmd.at \in Exporting
          PROVE  cmd.copied \subseteq Items
      BY <1>1, <2>1, CommandShapes DEF Exporting
    <2>2. ASSUME cmd.at \in Exporting, NEW a \in cmd.copied \intersect Artifacts
          PROVE  a \in Existing' /\ IsCopyOf(out[a], disk'[a])
      BY <2>2, CopiesStay DEF ExportFollows
    <2>3. cmd.at = "status" => cmd.commit \in 1..HEAD'
      BY <1>3 DEF ExportFollows
    <2>4. QED
      BY <2>1, <2>2, <2>3
  <1>5. ASSUME UNCHANGED <<out, cmd, began, touched, working, inputs>> PROVE ExportFollows'
    BY <1>4, <1>5 DEF ExportFollows, HEAD
  <1>6. CASE UseGit
    <2>1. /\ UNCHANGED <<out, cmd, began>> /\ touched' = (touched \/ cmd.at \in Exporting)
      BY <1>6 DEF UseGit, outVars
    <2>2. QED
      BY <1>2, <1>4, <2>1 DEF ExportFollows
  <1>7. CASE ExportStart
    <2>1. /\ cmd' = [at |-> "copy", root |-> 1, queue |-> FilesOf(1), copied |-> {}]
          /\ began' = Existing
      BY <1>7 DEF ExportStart, Existing
    <2>2. \A a \in began' : a \in cmd'.copied \union cmd'.queue \/ Root[a] > cmd'.root
      <3>1. ASSUME NEW a \in Existing, ~(Root[a] > 1) PROVE a \in FilesOf(1)
        <4>1. Root[a] = 1
          BY <1>2, <3>1
        <4>2. QED
          BY <4>1 DEF FilesOf, Existing
      <3>2. QED
        BY <2>1, <3>1
    <2>3. cmd'.root > Roots => Input \in cmd'.copied \union cmd'.queue
      BY <2>1, EvidenceInputs
    <2>4. QED
      BY <2>1, <2>2, <2>3 DEF ExportFollows
  <1>8. ASSUME NEW i \in Items, ExportCopy(i) PROVE ExportFollows'
    <2>1. cmd' = [at |-> "copy", root |-> cmd.root, queue |-> cmd.queue \ {i},
                  copied |-> cmd.copied \union {i}]
      BY <1>8, CopySteps
    <2>2. /\ out' = [out EXCEPT ![i] = SourceOf(i)] /\ cmd.at = "copy" /\ i \in cmd.queue
          /\ UNCHANGED <<began, touched, working, disk>>
      BY <1>8 DEF ExportCopy, worldVars
    <2>3. \A j \in Items : out'[j] = IF j = i THEN SourceOf(i) ELSE out[j]
      BY <1>1, <2>2 DEF Copies
    <2>4. i \in Artifacts => i \in Existing' /\ IsCopyOf(SourceOf(i), disk'[i])
      <3>1. i \in Artifacts => i \in Existing /\ SourceOf(i) = disk[i] /\ disk[i] \in File
        BY <1>1, <1>2, <2>2 DEF ExportOK, SourceOf, Existing
      <3>2. QED
        BY <2>2, <3>1 DEF IsCopyOf, Existing
    <2>5. \A a \in cmd'.copied \intersect Artifacts : a \in Existing' /\ IsCopyOf(out'[a], disk'[a])
      BY <1>2, <1>4, <2>1, <2>2, <2>3, <2>4
    <2>6. Input \in cmd'.copied /\ ~touched' => out'[Input] = Whole(working')
      <3>1. CASE i = Input
        BY <2>2, <2>3, <3>1 DEF SourceOf
      <3>2. CASE i # Input
        BY <1>2, <2>1, <2>2, <2>3, <3>2 DEF ExportFollows, Items
      <3>3. QED
        BY <3>1, <3>2
    <2>7. /\ \A a \in began' : a \in cmd'.copied \union cmd'.queue \/ Root[a] > cmd'.root
          /\ cmd'.root > Roots => Input \in cmd'.copied \union cmd'.queue
      BY <2>1, <2>2 DEF ExportFollows
    <2>8. QED
      BY <2>1, <2>5, <2>6, <2>7 DEF ExportFollows
  <1>9. CASE ExportNextRoot
    <2>1. cmd' = [at |-> "copy", root |-> cmd.root + 1,
                  queue |-> IF cmd.root = Roots THEN {Input} ELSE FilesOf(cmd.root + 1),
                  copied |-> cmd.copied]
      BY <1>9, CopySteps
    <2>2. /\ UNCHANGED <<out, disk, working, began, touched>> /\ cmd.at = "copy"
          /\ cmd.queue = {} /\ cmd.root <= Roots
      BY <1>9 DEF ExportNextRoot, outVars, worldVars
    <2>3. cmd.root \in 1..Roots
      BY <1>1, <1>2, <2>2, CommandShapes
    <2>4. ASSUME NEW a \in began, a \notin cmd.copied, ~(Root[a] > cmd.root + 1)
          PROVE  a \in FilesOf(cmd.root + 1) /\ cmd.root # Roots
      <3>1. Root[a] > cmd.root /\ a \in Existing /\ Root[a] \in 1..Roots
        BY <1>1, <1>2, <2>2, <2>4 DEF ExportFollows
      <3>2. Root[a] = cmd.root + 1 /\ cmd.root # Roots
        BY <1>2, <2>3, <2>4, <3>1
      <3>3. QED
        BY <3>1, <3>2 DEF FilesOf, Existing
    <2>5. \A a \in began' : a \in cmd'.copied \union cmd'.queue \/ Root[a] > cmd'.root
      BY <2>1, <2>2, <2>4
    <2>6. cmd'.root > Roots => Input \in cmd'.copied \union cmd'.queue
      BY <1>2, <2>1, <2>3
    <2>7. QED
      BY <1>2, <1>4, <2>1, <2>2, <2>5, <2>6 DEF ExportFollows
  <1>10. CASE ReadCommit
    <2>1. /\ cmd' = [at |-> "status", copied |-> cmd.copied, commit |-> HEAD]
          /\ cmd.at = "copy" /\ cmd.queue = {} /\ cmd.root > Roots
          /\ UNCHANGED <<out, disk, working, inputs, began, touched>>
      BY <1>10 DEF ReadCommit, outVars, worldVars
    <2>2. cmd.root \in 1..Roots + 1
      BY <1>1, <2>1, CommandShapes
    <2>3. \A a \in began : a \in cmd.copied
      BY <1>1, <1>2, <2>1, <2>2 DEF ExportFollows
    <2>4. HEAD' = HEAD /\ HEAD \in 1..HEAD
      BY <2>1 DEF HEAD, WorldOK, Commits
    <2>5. QED
      BY <1>2, <1>4, <2>1, <2>3, <2>4 DEF ExportFollows
  <1>11. ASSUME cmd'.at \notin Exporting PROVE ExportFollows'
    BY <1>2, <1>11 DEF ExportFollows
  <1>12. \/ cmd'.at \notin Exporting
         \/ UNCHANGED <<out, cmd, began, touched, working, inputs>>
         \/ UseGit \/ ExportStart \/ ExportNextRoot \/ ReadCommit
         \/ \E i \in Items : ExportCopy(i)
    <2>1. ASSUME \/ WriteManifest \/ SealStart \/ WriteSums \/ SealReport \/ Kill \/ Discard
                 \/ \E i \in Items : Tamper(i)
          PROVE  cmd'.at \notin Exporting
      <3>1. cmd' \in {Idle} \union SealCmd
        BY <2>1 DEF WriteManifest, SealStart, WriteSums, SealReport, Kill, Discard, Tamper, SealCmd
      <3>2. QED
        BY <1>2, <3>1 DEF SealCmd, Exporting
    <2>2. ASSUME \/ \E a \in Artifacts : CreateArtifact(a) \/ FillArtifact(a)
                 \/ UNCHANGED vars
          PROVE  UNCHANGED <<out, cmd, began, touched, working, inputs>>
      BY <2>2 DEF CreateArtifact, FillArtifact, vars, outVars, worldVars
    <2>3. QED
      BY <2>1, <2>2 DEF Next
  <1>13. QED
    BY <1>5, <1>6, <1>7, <1>8, <1>9, <1>10, <1>11, <1>12
-----------------------------------------------------------------------------
\* What the manifest says of artifacts and commits: every artifact that was
\* there when the export began is listed; if the tree was clean, the listed
\* artifacts Git can see were made before HEAD, and the inputs are those of
\* the commit, when Git was left alone.
ManifestTells ==
  manifest \notin {Absent, Torn} =>
    /\ began \subseteq DOMAIN manifest.files /\ Input \in DOMAIN manifest.files
    /\ manifest.commit \in 1..HEAD
    /\ \A a \in DOMAIN manifest.files \intersect Artifacts :
         a \in Existing /\ IsCopyOf(manifest.files[a], disk[a])
    /\ manifest.clean =>
         /\ ~touched => manifest.files[Input] = Whole(inputs[manifest.commit])
         /\ \A a \in (DOMAIN manifest.files \intersect Artifacts) \ Ignored[network] :
              disk[a].commit < HEAD

LEMMA StepKeepsManifest ==
  ASSUME WorldOK, ExportOK, ExportFollows, ManifestTells, [Next]_vars
  PROVE  ManifestTells'
  <1>1. /\ cmd \in {Idle} \union CopyCmd \union StatusCmd \union SealCmd
        /\ out \in Copies /\ Input \notin Artifacts
        /\ disk \in [Artifacts -> File \union {Absent}]
        /\ inputs \in Seq(Commits) /\ HEAD = Len(inputs)
    BY EvidenceInputs DEF ExportOK, WorldOK, HEAD
  <1>2. /\ HEAD \in Nat /\ HEAD' \in Nat /\ HEAD <= HEAD'
        /\ \A c \in 1..HEAD : inputs'[c] = inputs[c]
    BY HistoryGrows
  <1>3. \A a \in Existing : /\ disk[a].commit \in Nat /\ disk'[a].commit = disk[a].commit
                            /\ a \in Existing'
    BY ArtifactsStay, Files
  <1>4. ASSUME UNCHANGED <<network, manifest, began>>, touched => touched'
        PROVE  ManifestTells'
    <2>1. SUFFICES ASSUME manifest \notin {Absent, Torn} PROVE ManifestTells'
      BY <1>4 DEF ManifestTells
    <2>2. manifest.commit \in 1..HEAD' /\ inputs'[manifest.commit] = inputs[manifest.commit]
      BY <1>2, <2>1 DEF ManifestTells
    <2>3. \A a \in DOMAIN manifest.files \intersect Artifacts :
            /\ a \in Existing' /\ IsCopyOf(manifest.files[a], disk'[a])
            /\ disk[a].commit < HEAD => disk'[a].commit < HEAD'
      BY <1>2, <1>3, <2>1, CopiesStay DEF ManifestTells
    <2>4. manifest.clean =>
            \A a \in (DOMAIN manifest.files \intersect Artifacts) \ Ignored[network] :
              disk'[a].commit < HEAD'
      BY <2>1, <2>3 DEF ManifestTells
    <2>5. manifest.clean /\ ~touched' =>
            manifest.files[Input] = Whole(inputs'[manifest.commit])
      BY <1>4, <2>1, <2>2 DEF ManifestTells
    <2>6. QED
      BY <1>4, <2>1, <2>2, <2>3, <2>4, <2>5 DEF ManifestTells
  <1>5. CASE WriteManifest
    <2>1. /\ cmd.at = "status" /\ UNCHANGED <<network, disk, inputs, working, tracked, began, touched>>
          /\ manifest' = [commit |-> cmd.commit, clean |-> Clean,
                          files |-> [i \in cmd.copied |-> out[i]],
                          present |-> Categories(cmd.copied)]
      BY <1>5 DEF WriteManifest, worldVars
    <2>2. /\ began \subseteq cmd.copied /\ Input \in cmd.copied /\ cmd.commit \in 1..HEAD
          /\ \A a \in cmd.copied \intersect Artifacts : a \in Existing /\ IsCopyOf(out[a], disk[a])
          /\ ~touched => out[Input] = Whole(working) /\ cmd.commit = HEAD
      BY <2>1 DEF ExportFollows, Exporting
    <2>3. /\ DOMAIN manifest'.files = cmd.copied /\ manifest'.commit = cmd.commit
          /\ manifest'.clean = Clean /\ \A i \in cmd.copied : manifest'.files[i] = out[i]
      BY <2>1
    <2>4. HEAD' = HEAD /\ Existing' = Existing
      BY <2>1 DEF HEAD, Existing
    <2>5. Clean /\ ~touched => manifest'.files[Input] = Whole(inputs[cmd.commit])
      BY <2>2, <2>3 DEF Clean
    <2>6. ASSUME Clean, NEW a \in (cmd.copied \intersect Artifacts) \ Ignored[network]
          PROVE  disk[a].commit < HEAD
      <3>1. disk[a] = tracked[a] /\ a \in Existing
        BY <2>2, <2>6 DEF Clean
      <3>2. tracked[a] # Absent
        BY <3>1 DEF Existing
      <3>3. QED
        BY <3>1, <3>2 DEF WorldOK
    <2>7. QED
      BY <2>1, <2>2, <2>3, <2>4, <2>5, <2>6 DEF ManifestTells
  <1>6. CASE ExportStart
    <2>1. manifest' = Absent
      BY <1>6 DEF ExportStart, outVars
    <2>2. QED
      BY <2>1 DEF ManifestTells
  <1>7. CASE Kill
    <2>1. CASE manifest' = Torn
      BY <2>1 DEF ManifestTells
    <2>2. CASE manifest' # Torn
      <3>1. UNCHANGED <<network, manifest, began, touched>>
        BY <1>7, <2>2 DEF Kill, outVars
      <3>2. QED
        BY <1>4, <3>1
    <2>3. QED
      BY <2>1, <2>2
  <1>8. CASE Discard
    BY <1>8 DEF Discard, ManifestTells
  <1>9. \/ UNCHANGED <<network, manifest, began>> /\ (touched => touched')
        \/ WriteManifest \/ ExportStart \/ Kill \/ Discard
    BY DEF Next, vars, outVars, CreateArtifact, FillArtifact, UseGit, ExportNextRoot, ReadCommit,
           ExportCopy, Tamper, SealStart, WriteSums, SealReport
  <1>10. QED
    BY <1>4, <1>5, <1>6, <1>7, <1>8, <1>9
-----------------------------------------------------------------------------
\* A seal in progress: nobody touches the export, so what was found is so.
SealFollows ==
  /\ cmd.at \in {"sums", "verify"} =>
       /\ manifest \notin {Absent, Torn} /\ manifest \in Manifest /\ manifest.clean
       /\ Inventory /\ \A i \in DOMAIN manifest.files : PayloadOf(i)
       /\ DOMAIN manifest.files \intersect Bound \subseteq Ignored[network]
  /\ cmd.at = "sums" => sums.state = "absent"
  /\ cmd.at = "verify" => sums = Rendered
  /\ \/ sums \in [state : {"absent", "torn"}]
     \/ sums \in [state : {"whole"}, out : Copies, manifest : Manifest]
  /\ \A r \in reports : sums = [state |-> "whole", out |-> r.out, manifest |-> r.manifest]

\* What can be sealed hides its commits from Git.
LEMMA SealableIsHidden ==
  ASSUME WorldOK, ManifestTells, Sealable
  PROVE  DOMAIN manifest.files \intersect Bound \subseteq Ignored[network]
  <1>1. SUFFICES ASSUME NEW a \in DOMAIN manifest.files, a \in Bound, a \notin Ignored[network]
                 PROVE  FALSE
    OBVIOUS
  <1>2. /\ manifest \notin {Absent, Torn} /\ manifest.clean /\ manifest.commit = HEAD
        /\ Inventory /\ PayloadOf(a)
    BY DEF Sealable, ManifestIsCurrent
  <1>3. a \in Artifacts
    BY <1>1, EvidenceInputs
  <1>4. manifest.files[a].commit = disk[a].commit /\ disk[a].commit < HEAD
    BY <1>1, <1>2, <1>3 DEF ManifestTells, IsCopyOf
  <1>5. manifest.files[a].commit = HEAD
    <2>1. a \in Present /\ out[a] = manifest.files[a]
      BY <1>2 DEF Inventory
    <2>2. QED
      BY <1>1, <1>2, <2>1, EvidenceInputs DEF PayloadOf
  <1>6. HEAD \in Nat
    BY DEF WorldOK, Commits
  <1>7. QED
    BY <1>4, <1>5, <1>6

LEMMA StepKeepsSeal ==
  ASSUME WorldOK, ExportOK, ManifestTells, SealFollows, [Next]_vars
  PROVE  SealFollows'
  <1>1. /\ Idle.at = "idle" /\ out \in Copies
        /\ cmd \in {Idle} \union CopyCmd \union StatusCmd \union SealCmd
        /\ manifest \in {Absent, Torn} \/ manifest \in Manifest
    BY DEF Idle, ExportOK
  <1>2. CASE SealStart
    <2>1. /\ Sealable /\ SumsAgree /\ UNCHANGED <<network, out, manifest, sums, reports>>
          /\ cmd' = [at |-> IF sums.state = "absent" THEN "sums" ELSE "verify"]
      BY <1>2 DEF SealStart, outVars
    <2>2. /\ manifest \notin {Absent, Torn} /\ manifest \in Manifest /\ manifest.clean
          /\ Inventory /\ \A i \in DOMAIN manifest.files : PayloadOf(i)
          /\ DOMAIN manifest.files \intersect Bound \subseteq Ignored[network]
      BY <1>1, <2>1, SealableIsHidden DEF Sealable, ManifestIsCurrent
    <2>3. /\ manifest' \notin {Absent, Torn} /\ manifest' \in Manifest /\ manifest'.clean
          /\ Inventory' /\ \A i \in DOMAIN manifest'.files : PayloadOf(i)'
          /\ DOMAIN manifest'.files \intersect Bound \subseteq Ignored[network']
      BY <2>1, <2>2 DEF Inventory, Present, PayloadOf
    <2>4. (cmd'.at = "sums" => sums'.state = "absent") /\ (cmd'.at = "verify" => sums' = Rendered')
      BY <2>1 DEF SumsAgree, Rendered
    <2>5. QED
      BY <2>1, <2>3, <2>4 DEF SealFollows
  <1>3. CASE WriteSums
    <2>1. /\ cmd.at = "sums" /\ cmd' = [at |-> "verify"] /\ sums' = Rendered
          /\ UNCHANGED <<network, out, manifest, reports>>
      BY <1>3 DEF WriteSums, outVars
    <2>2. reports = {}
      BY <2>1 DEF SealFollows
    <2>3. /\ manifest' \notin {Absent, Torn} /\ manifest' \in Manifest /\ manifest'.clean
          /\ Inventory' /\ \A i \in DOMAIN manifest'.files : PayloadOf(i)'
          /\ DOMAIN manifest'.files \intersect Bound \subseteq Ignored[network']
      BY <2>1 DEF SealFollows, Inventory, Present, PayloadOf
    <2>4. sums' = Rendered' /\ sums' \in [state : {"whole"}, out : Copies, manifest : Manifest]
      BY <1>1, <2>1, <2>3 DEF Rendered
    <2>5. QED
      BY <2>1, <2>2, <2>3, <2>4 DEF SealFollows
  <1>4. CASE SealReport
    <2>1. /\ cmd.at = "verify" /\ cmd' = Idle /\ UNCHANGED sums
          /\ reports' = reports \union
               {[out |-> out, manifest |-> manifest, began |-> began, touched |-> touched]}
      BY <1>4 DEF SealReport
    <2>2. \A r \in reports' : sums = [state |-> "whole", out |-> r.out, manifest |-> r.manifest]
      BY <2>1 DEF SealFollows, Rendered
    <2>3. QED
      BY <1>1, <2>1, <2>2 DEF SealFollows
  <1>5. ASSUME cmd'.at \notin {"sums", "verify"}, UNCHANGED <<sums, reports>> PROVE SealFollows'
    BY <1>5 DEF SealFollows
  <1>6. CASE Kill
    <2>1. cmd' = Idle /\ UNCHANGED reports
          /\ (UNCHANGED sums \/ (cmd.at = "sums" /\ sums' = [state |-> "torn"]))
      BY <1>6 DEF Kill
    <2>2. CASE UNCHANGED sums
      BY <1>1, <1>5, <2>1, <2>2
    <2>3. CASE cmd.at = "sums" /\ sums' = [state |-> "torn"]
      <3>1. reports = {}
        BY <2>3 DEF SealFollows
      <3>2. QED
        BY <1>1, <2>1, <2>3, <3>1 DEF SealFollows
    <2>4. QED
      BY <2>1, <2>2, <2>3
  <1>7. CASE Discard
    <2>1. cmd' = Idle /\ UNCHANGED reports
          /\ sums' = IF reports = {} THEN [state |-> "absent"] ELSE sums
      BY <1>7 DEF Discard
    <2>2. QED
      BY <1>1, <2>1 DEF SealFollows
  <1>8. ASSUME UNCHANGED <<network, outVars, sums, cmd, reports>> PROVE SealFollows'
    BY <1>8 DEF SealFollows, outVars, Inventory, Present, PayloadOf, Rendered
  <1>9. ASSUME \/ ExportStart \/ ExportNextRoot \/ ReadCommit \/ WriteManifest
               \/ \E i \in Items : ExportCopy(i) \/ Tamper(i)
        PROVE  cmd'.at \notin {"sums", "verify"} /\ UNCHANGED <<sums, reports>>
    <2>1. ASSUME NEW i \in Items, Tamper(i)
          PROVE  cmd'.at \notin {"sums", "verify"} /\ UNCHANGED <<sums, reports>>
      BY <1>1, <2>1 DEF Tamper
    <2>2. ASSUME NEW i \in Items, ExportCopy(i)
          PROVE  cmd'.at \notin {"sums", "verify"} /\ UNCHANGED <<sums, reports>>
      BY <2>2, CopySteps DEF ExportCopy
    <2>3. ASSUME ExportNextRoot
          PROVE  cmd'.at \notin {"sums", "verify"} /\ UNCHANGED <<sums, reports>>
      BY <2>3, CopySteps DEF ExportNextRoot
    <2>4. ASSUME ExportStart \/ ReadCommit \/ WriteManifest
          PROVE  cmd'.at \notin {"sums", "verify"} /\ UNCHANGED <<sums, reports>>
      BY <1>1, <2>4 DEF ExportStart, ReadCommit, WriteManifest
    <2>5. QED
      BY <1>9, <2>1, <2>2, <2>3, <2>4
  <1>10. ASSUME \/ \E a \in Artifacts : CreateArtifact(a) \/ FillArtifact(a)
                \/ UseGit \/ UNCHANGED vars
         PROVE  UNCHANGED <<network, outVars, sums, cmd, reports>>
    BY <1>10 DEF CreateArtifact, FillArtifact, UseGit, vars
  <1>11. QED
    BY <1>2, <1>3, <1>4, <1>5, <1>6, <1>7, <1>8, <1>9, <1>10 DEF Next
-----------------------------------------------------------------------------
\* What was reported sealed: true then, and of things that do not change.
ReportHolds(r) ==
  /\ r.began \subseteq DOMAIN r.manifest.files
  /\ r.manifest.commit \in 1..HEAD
  /\ \A a \in DOMAIN r.manifest.files \ {Input} :
       /\ a \in Existing /\ IsCopyOf(r.out[a], disk[a]) /\ (a \in Json => r.out[a].whole)
       /\ a \in Bound => r.out[a].commit = r.manifest.commit
  /\ ~r.touched => r.out[Input] = Whole(inputs[r.manifest.commit])
  /\ DOMAIN r.manifest.files \intersect Bound \subseteq Ignored[network]

ReportsHold == \A r \in reports : ReportHolds(r)

LEMMA ReportStays ==
  ASSUME WorldOK, [Next]_vars
  PROVE  \A r \in reports : ReportHolds(r) =>
           /\ r.began \subseteq DOMAIN r.manifest.files
           /\ r.manifest.commit \in 1..HEAD'
           /\ \A a \in DOMAIN r.manifest.files \ {Input} :
                /\ a \in Existing' /\ IsCopyOf(r.out[a], disk'[a])
                /\ a \in Json => r.out[a].whole
                /\ a \in Bound => r.out[a].commit = r.manifest.commit
           /\ ~r.touched => r.out[Input] = Whole(inputs'[r.manifest.commit])
           /\ DOMAIN r.manifest.files \intersect Bound \subseteq Ignored[network']
  <1>1. UNCHANGED network
    BY DEF Next, vars, CreateArtifact, FillArtifact, UseGit, ExportStart, ExportNextRoot,
           ReadCommit, WriteManifest, ExportCopy, Tamper, SealStart, WriteSums, SealReport,
           Kill, Discard
  <1>2. /\ HEAD \in Nat /\ HEAD' \in Nat /\ HEAD <= HEAD'
        /\ \A c \in 1..HEAD : inputs'[c] = inputs[c]
    BY HistoryGrows
  <1>3. \A a \in Existing : \A f :
           IsCopyOf(f, disk[a]) => a \in Existing' /\ IsCopyOf(f, disk'[a])
    BY CopiesStay
  <1>4. QED
    BY <1>1, <1>2, <1>3 DEF ReportHolds

LEMMA StepKeepsReports ==
  ASSUME WorldOK, ExportOK, ManifestTells, SealFollows, ReportsHold, [Next]_vars
  PROVE  ReportsHold'
  <1>1. CASE SealReport
    <2> DEFINE new == [out |-> out, manifest |-> manifest, began |-> began, touched |-> touched]
    <2>1. cmd.at = "verify" /\ reports' = reports \union {new} /\ UNCHANGED <<network, worldVars>>
      BY <1>1 DEF SealReport
    <2>2. /\ manifest \notin {Absent, Torn} /\ manifest \in Manifest /\ manifest.clean
          /\ Inventory /\ \A i \in DOMAIN manifest.files : PayloadOf(i)
          /\ DOMAIN manifest.files \intersect Bound \subseteq Ignored[network]
      BY <2>1 DEF SealFollows
    <2>3. /\ began \subseteq DOMAIN manifest.files /\ Input \in DOMAIN manifest.files
          /\ manifest.commit \in 1..HEAD
          /\ ~touched => manifest.files[Input] = Whole(inputs[manifest.commit])
      BY <2>2 DEF ManifestTells
    <2>4. DOMAIN manifest.files \subseteq Items
      BY <2>2 DEF Manifest
    <2>5. \A i \in DOMAIN manifest.files :
             /\ out[i] = manifest.files[i] /\ (i \in Json => out[i].whole)
             /\ i \in Bound => out[i].commit = manifest.commit
      BY <2>2, EvidenceInputs DEF Inventory, PayloadOf
    <2>6. ASSUME NEW a \in DOMAIN manifest.files \ {Input}
          PROVE  /\ a \in Existing /\ IsCopyOf(out[a], disk[a]) /\ (a \in Json => out[a].whole)
                 /\ a \in Bound => out[a].commit = manifest.commit
      BY <2>2, <2>4, <2>5 DEF ManifestTells, Items
    <2>7. /\ new.out = out /\ new.manifest = manifest /\ new.began = began
          /\ new.touched = touched
      OBVIOUS
    <2> HIDE DEF new
    <2>8. ReportHolds(new)
      BY <2>2, <2>3, <2>5, <2>6, <2>7 DEF ReportHolds
    <2>9. \A r \in reports' : ReportHolds(r)
      BY <2>1, <2>8 DEF ReportsHold
    <2>10. HEAD' = HEAD /\ Existing' = Existing
      BY <2>1 DEF worldVars, HEAD, Existing
    <2>11. QED
      BY <2>1, <2>9, <2>10 DEF ReportsHold, ReportHolds, worldVars
  <1>2. CASE UNCHANGED reports
    BY <1>2, ReportStays DEF ReportsHold, ReportHolds
  <1>3. SealReport \/ UNCHANGED reports
    BY DEF Next, vars, CreateArtifact, FillArtifact, UseGit, ExportStart, ExportNextRoot,
           ReadCommit, WriteManifest, ExportCopy, Tamper, SealStart, WriteSums, Kill, Discard
  <1>4. QED
    BY <1>1, <1>2, <1>3
-----------------------------------------------------------------------------
IInv == WorldOK /\ ExportOK /\ ExportFollows /\ ManifestTells /\ SealFollows /\ ReportsHold

LEMMA EvidenceInvariant == Spec => []IInv
  <1>1. Init => IInv
    <2> SUFFICES ASSUME Init PROVE IInv
      OBVIOUS
    <2>1. /\ network \in Networks /\ inputs = <<1>> /\ working = 1
          /\ disk = [a \in Artifacts |-> Absent] /\ tracked = [a \in Artifacts |-> Absent]
          /\ out = Empty /\ manifest = Absent /\ sums = [state |-> "absent"] /\ cmd = Idle
          /\ reports = {} /\ began = {} /\ touched = FALSE
      BY DEF Init
    <2>2. HEAD = 1 /\ 1 \in Commits /\ inputs \in Seq(Commits) /\ 1 \in 0..MaxCommits
      BY <2>1, EvidenceInputs DEF HEAD, Commits
    <2>3. WorldOK
      BY <2>1, <2>2 DEF WorldOK, Existing
    <2>4. cmd.at = "idle"
      BY <2>1 DEF Idle
    <2>5. ExportOK
      BY <2>1, <2>4 DEF ExportOK, Empty, Copies, Exporting
    <2>6. ExportFollows /\ ManifestTells /\ SealFollows /\ ReportsHold
      BY <2>1, <2>4 DEF ExportFollows, ManifestTells, SealFollows, ReportsHold, Exporting
    <2>7. QED
      BY <2>3, <2>5, <2>6 DEF IInv
  <1>2. IInv /\ [Next]_vars => IInv'
    BY StepKeepsWorld, StepKeepsExport, StepKeepsFollowing, StepKeepsManifest, StepKeepsSeal,
       StepKeepsReports DEF IInv
  <1>3. QED
    BY <1>1, <1>2, PTL DEF Spec

\* The types, with every copy a running export claims to have made in place.
THEOREM EvidenceTypes == Spec => []EvTypeOK
  <1>1. IInv => EvTypeOK
    <2> SUFFICES ASSUME IInv PROVE EvTypeOK
      OBVIOUS
    <2>1. /\ WorldOK /\ ExportOK
          /\ \/ sums \in [state : {"absent", "torn"}]
             \/ sums \in [state : {"whole"}, out : Copies, manifest : Manifest]
      BY DEF IInv, SealFollows
    <2>2. cmd.at \in Exporting \union {"idle", "sums", "verify"}
      BY <2>1, CommandShapes DEF ExportOK, Exporting
    <2>3. cmd.at \in Exporting => cmd.copied \subseteq Items /\ \A i \in cmd.copied : out[i] # Absent
      BY <2>1, CommandShapes DEF ExportOK, Exporting
    <2>4. began \subseteq Artifacts
      BY <2>1 DEF ExportOK, Existing
    <2>5. QED
      BY <2>1, <2>2, <2>3, <2>4 DEF EvTypeOK, WorldOK, ExportOK
  <1>2. QED
    BY <1>1, EvidenceInvariant, PTL

\* A copy is the artifact, or as much of it as there was.
LEMMA CopiesAreTrue ==
  ASSUME NEW f, NEW d, IsCopyOf(f, d)
  PROVE  f \in {d, Part(d)} /\ (f.whole => f = d /\ d.whole)
  <1>1. f \in File /\ d \in File /\ f.commit = d.commit /\ (f.whole => d.whole)
    BY DEF IsCopyOf
  <1>2. Part(d) \in File /\ Part(d).commit = d.commit /\ Part(d).whole = FALSE
    BY <1>1, Files DEF Part
  <1>3. CASE f.whole
    BY <1>1, <1>3, Files
  <1>4. CASE ~f.whole
    <2>1. f.whole = FALSE
      BY <1>1, <1>4, Files
    <2>2. f = Part(d)
      BY <1>1, <1>2, <2>1, Files
    <2>3. QED
      BY <1>4, <2>2
  <1>5. QED
    BY <1>3, <1>4

\* What is sealed is what was there when it was copied, JSON whole and of one
\* commit, whatever was written, committed, killed or tampered with
\* on the way.
THEOREM EvidenceSealedIsTrue == Spec => []SealedIsTrue
  <1>1. IInv => SealedIsTrue
    BY CopiesAreTrue DEF IInv, ReportsHold, ReportHolds, SealedIsTrue
  <1>2. QED
    BY <1>1, EvidenceInvariant, PTL

\* SEALED is never said of two different contents of one directory.
THEOREM EvidenceSealsAgree == Spec => []SealsAgree
  <1>1. IInv => SealsAgree
    <2> SUFFICES ASSUME IInv, NEW r \in reports, NEW s \in reports
                 PROVE  r.out = s.out /\ r.manifest = s.manifest
      BY DEF SealsAgree
    <2>1. /\ sums = [state |-> "whole", out |-> r.out, manifest |-> r.manifest]
          /\ sums = [state |-> "whole", out |-> s.out, manifest |-> s.manifest]
      BY DEF IInv, SealFollows
    <2>2. QED
      BY <2>1
  <1>2. QED
    BY <1>1, EvidenceInvariant, PTL

\* Evidence with a commit in it that Git can see is never sealed, for any
\* network, set of artifacts and history.
THEOREM EvidenceIsHiddenFromGit == Spec => []SealedIsHiddenFromGit
  <1>1. IInv => SealedIsHiddenFromGit
    BY DEF IInv, ReportsHold, ReportHolds, SealedIsHiddenFromGit
  <1>2. QED
    BY <1>1, EvidenceInvariant, PTL
=============================================================================
