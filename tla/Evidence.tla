-------------------------------- MODULE Evidence --------------------------------
(***************************************************************************)
(* evidence export-rc3 and seal-rc3.  The export copies the artifacts of a *)
(* network, root by root, and the release inputs into an empty directory,  *)
(* and describes the copies in a manifest.  The seal compares directory,   *)
(* manifest and Git, and writes SHA256SUMS, once.  Meanwhile other         *)
(* commands write artifacts, people work with Git, commands are killed,    *)
(* and files of the export are changed or lost.                            *)
(*                                                                         *)
(* A file is what the properties tell apart: the commit it was made at,    *)
(* and whether all of it is there.  A digest stands for its file.  The six *)
(* release inputs are one file, which is in Git.                           *)
(***************************************************************************)
EXTENDS Naturals, Sequences, FiniteSets

CONSTANTS
  Artifacts,   \* files of the network under artifacts/
  Networks,
  Ignored,     \* Ignored[network]: artifacts that .gitignore hides from Git
  Json,        \* files whose name ends in .json
  Bound,       \* those of them with a sourceCommit or gitCommit in them
  Root,        \* Root[a]: which of the source roots the artifact is in
  Roots,       \* number of source roots
  Category,    \* Category[a]
  Required,    \* rc3_required_categories
  Input,       \* the release inputs
  MaxCommits,  \* bound: commits
  Substitutes, \* bound: what a file of an export is replaced by
  Absent, Torn

ASSUME EvidenceInputs ==
  /\ Input \notin Artifacts
  /\ Roots \in Nat \ {0} /\ Root \in [Artifacts -> 1..Roots]
  /\ Ignored \in [Networks -> SUBSET Artifacts]
  /\ Json \subseteq Artifacts /\ Bound \subseteq Json
  /\ MaxCommits \in Nat \ {0}

VARIABLES
  network,
  disk,      \* disk[a]: the artifact
  inputs,    \* inputs[c]: the release inputs in commit c; the last is HEAD
  working,   \* the release inputs in the working tree, 0 when edited
  tracked,   \* tracked[a]: the artifact in HEAD
  out,       \* out[i]: the copy of an artifact or of the inputs
  manifest,  \* RC3_EVIDENCE_MANIFEST.json
  sums,      \* SHA256SUMS: whether it is there, and what it is the list of
  cmd,       \* the running command
  reports,   \* history: what SEALED was said of
  began,     \* history: artifacts there when the last export began
  touched    \* history: whether Git was used while it ran

worldVars == <<disk, inputs, working, tracked>>
outVars == <<out, manifest>>
vars == <<network, worldVars, outVars, sums, cmd, reports, began, touched>>

Items == Artifacts \union {Input}
HEAD == Len(inputs)
Commits == 1..MaxCommits
File == [commit : 0..MaxCommits, whole : BOOLEAN]
Whole(c) == [commit |-> c, whole |-> TRUE]
Part(f) == [commit |-> f.commit, whole |-> FALSE]

ASSUME Markers == Absent \notin File /\ Substitutes \subseteq File \union {Absent}

Empty == [i \in Items |-> Absent]
Idle == [at |-> "idle"]
Exporting == {"copy", "status"}

Init ==
  /\ network \in Networks
  /\ disk = [a \in Artifacts |-> Absent]
  /\ inputs = <<1>> /\ working = 1
  /\ tracked = [a \in Artifacts |-> Absent]
  /\ out = Empty /\ manifest = Absent
  /\ sums = [state |-> "absent"]
  /\ cmd = Idle
  /\ reports = {} /\ began = {} /\ touched = FALSE
-----------------------------------------------------------------------------
(* Other commands and people.                                              *)

\* immutable_write creates the file and fills it; it is never written again.
CreateArtifact(a) ==
  /\ disk[a] = Absent
  /\ disk' = [disk EXCEPT ![a] = Part(Whole(HEAD))]
  /\ UNCHANGED <<network, inputs, working, tracked, outVars, sums, cmd, reports, began, touched>>

FillArtifact(a) ==
  /\ disk[a] # Absent /\ ~disk[a].whole
  /\ disk' = [disk EXCEPT ![a].whole = TRUE]
  /\ UNCHANGED <<network, inputs, working, tracked, outVars, sums, cmd, reports, began, touched>>

\* The inputs are edited, the edit is taken back, or everything Git sees is
\* committed.  Nobody commits an export.
UseGit ==
  /\ \/ working' = 0 /\ UNCHANGED <<inputs, tracked>>
     \/ working' = inputs[HEAD] /\ UNCHANGED <<inputs, tracked>>
     \/ /\ HEAD < MaxCommits
        /\ inputs' = Append(inputs, IF working = 0 THEN HEAD + 1 ELSE working)
        /\ working' = inputs'[HEAD + 1]
        /\ tracked' = [a \in Artifacts |->
                         IF a \in Ignored[network] THEN Absent ELSE disk[a]]
  /\ touched' = (touched \/ cmd.at \in Exporting)
  /\ UNCHANGED <<network, disk, outVars, sums, cmd, reports, began>>

\* git status --porcelain says nothing.  The export itself is in a directory
\* Git ignores.
CleanFault == working = inputs[HEAD]   \* FAULT: untracked files do not count.
Clean ==
  /\ working = inputs[HEAD]
  /\ \A a \in Artifacts \ Ignored[network] : disk[a] = tracked[a]
-----------------------------------------------------------------------------
(* evidence export-rc3                                                     *)

\* FAULT: files are listed that should be there.
FilesOfExpected(root) == {a \in Artifacts : Root[a] = root}
\* The files of a root are listed before the first of them is copied.
FilesOf(root) == {a \in Artifacts : Root[a] = root /\ disk[a] # Absent}

ExportStart ==
  /\ cmd = Idle
  /\ out = Empty /\ manifest = Absent
  /\ cmd' = [at |-> "copy", root |-> 1, queue |-> FilesOf(1), copied |-> {}]
  /\ began' = {a \in Artifacts : disk[a] # Absent}
  /\ touched' = FALSE
  /\ UNCHANGED <<network, worldVars, outVars, sums, reports>>

SourceOf(i) == IF i = Input THEN Whole(working) ELSE disk[i]

\* The order in which the files of one root are copied is left open.
ExportCopy(i) ==
  /\ cmd.at = "copy"
  /\ i \in cmd.queue
  /\ out' = [out EXCEPT ![i] = SourceOf(i)]
  /\ cmd' = [cmd EXCEPT !.queue = @ \ {i}, !.copied = @ \union {i}]
  /\ UNCHANGED <<network, worldVars, manifest, sums, reports, began, touched>>

\* The inputs come after the last root.
ExportNextRoot ==
  /\ cmd.at = "copy" /\ cmd.queue = {} /\ cmd.root <= Roots
  /\ cmd' = [cmd EXCEPT !.root = @ + 1,
                        !.queue = IF cmd.root = Roots THEN {Input} ELSE FilesOf(cmd.root + 1)]
  /\ UNCHANGED <<network, worldVars, outVars, sums, reports, began, touched>>

ReadCommit ==
  /\ cmd.at = "copy" /\ cmd.queue = {} /\ cmd.root > Roots
  /\ cmd' = [at |-> "status", copied |-> cmd.copied, commit |-> HEAD]
  /\ UNCHANGED <<network, worldVars, outVars, sums, reports, began, touched>>

\* FAULT: in the roots but the first, the directory before the network is not
\* translated into a category.
CategoriesFault(items) ==
  {IF Root[a] = 1 THEN Category[a] ELSE "other" : a \in items \intersect Artifacts}
Categories(items) == {Category[a] : a \in items \intersect Artifacts}

WriteManifest ==
  /\ cmd.at = "status"
  /\ manifest' = [commit |-> cmd.commit, clean |-> Clean,
                  files |-> [i \in cmd.copied |-> out[i]],
                  present |-> Categories(cmd.copied)]
  /\ cmd' = Idle
  /\ UNCHANGED <<network, worldVars, out, sums, reports, began, touched>>
-----------------------------------------------------------------------------
(* evidence seal-rc3.  A run that refuses leaves everything as it is.      *)

Present == {i \in Items : out[i] # Absent}

\* A JSON payload parses and is of the commit of the manifest.  Of another
\* file only the digest is compared.
PayloadOf(i) ==
  i \in Json =>
    /\ out[i].whole
    /\ i \in Bound => out[i].commit = manifest.commit

\* validate-rc3-schemas.py reads every JSON file of the export.
SchemasHold == \A i \in Present \intersect Json : out[i].whole

\* FAULT: what the manifest says of the working tree is not looked at.
ManifestIsCurrentFault == manifest.commit = HEAD
ManifestIsCurrent == manifest.commit = HEAD /\ manifest.clean

Inventory ==
  /\ Present = DOMAIN manifest.files
  /\ \A i \in Present : out[i] = manifest.files[i]

Sealable ==
  /\ manifest \notin {Absent, Torn}
  /\ ManifestIsCurrent
  /\ DOMAIN manifest.files # {}
  /\ Inventory
  /\ \A i \in DOMAIN manifest.files : PayloadOf(i)
  /\ manifest.present = Categories(DOMAIN manifest.files)
  /\ Required \subseteq Categories(DOMAIN manifest.files)
  /\ SchemasHold

Rendered == [state |-> "whole", out |-> out, manifest |-> manifest]

SumsAgreeFault == sums.state # "torn"   \* FAULT: an existing list is taken for the new one.
SumsAgree == sums.state = "absent" \/ sums = Rendered

\* Nobody touches the directory while it is being sealed.
SealStart ==
  /\ cmd = Idle
  /\ Sealable
  /\ SumsAgree
  /\ cmd' = [at |-> IF sums.state = "absent" THEN "sums" ELSE "verify"]
  /\ UNCHANGED <<network, worldVars, outVars, sums, reports, began, touched>>

WriteSums ==
  /\ cmd.at = "sums"
  /\ sums' = Rendered
  /\ cmd' = [at |-> "verify"]
  /\ UNCHANGED <<network, worldVars, outVars, reports, began, touched>>

SealReport ==
  /\ cmd.at = "verify"
  /\ reports' = reports \union
       {[out |-> out, manifest |-> manifest, began |-> began, touched |-> touched]}
  /\ cmd' = Idle
  /\ UNCHANGED <<network, worldVars, outVars, sums, began, touched>>
-----------------------------------------------------------------------------
(* Failures.                                                               *)

\* A command is killed, in the middle of a file it writes or elsewhere.
Kill ==
  /\ cmd # Idle
  /\ \/ UNCHANGED <<outVars, sums>>
     \/ /\ cmd.at = "copy"
        /\ \E i \in cmd.queue : out' = [out EXCEPT ![i] = Part(SourceOf(i))]
        /\ UNCHANGED <<manifest, sums>>
     \/ cmd.at = "status" /\ manifest' = Torn /\ UNCHANGED <<out, sums>>
     \/ cmd.at = "sums" /\ sums' = [state |-> "torn"] /\ UNCHANGED outVars
  /\ cmd' = Idle
  /\ UNCHANGED <<network, worldVars, reports, began, touched>>

\* A file of an export is changed, lost or added.
Tamper(i) ==
  /\ cmd = Idle
  /\ manifest \notin {Absent, Torn}
  /\ \E f \in Substitutes : out' = [out EXCEPT ![i] = f]
  /\ UNCHANGED <<network, worldVars, manifest, sums, cmd, reports, began, touched>>

\* The export is removed, to export again into the same place; SHA256SUMS,
\* which is beside it, only when nothing was sealed.
Discard ==
  /\ cmd = Idle
  /\ out # Empty \/ manifest # Absent \/ sums.state = "torn"
  /\ out' = Empty /\ manifest' = Absent
  /\ sums' = IF reports = {} THEN [state |-> "absent"] ELSE sums
  /\ began' = {} /\ touched' = FALSE
  /\ UNCHANGED <<network, worldVars, cmd, reports>>

ExportStep == (\E i \in Items : ExportCopy(i)) \/ ExportNextRoot \/ ReadCommit \/ WriteManifest
SealStep == WriteSums \/ SealReport

Next ==
  \/ \E a \in Artifacts : CreateArtifact(a) \/ FillArtifact(a)
  \/ UseGit
  \/ ExportStart \/ ExportNextRoot \/ ReadCommit \/ WriteManifest
  \/ \E i \in Items : ExportCopy(i) \/ Tamper(i)
  \/ SealStart \/ WriteSums \/ SealReport
  \/ Kill \/ Discard

Spec == Init /\ [][Next]_vars

\* A command that was started ends.  The operator exports, seals what can be
\* sealed, and begins again with what cannot.
Fairness ==
  /\ WF_vars(ExportStep \/ SealStep)
  /\ SF_vars(ExportStart)
  /\ SF_vars(SealStart)
  /\ SF_vars(~(Sealable /\ SumsAgree) /\ Discard)
FairSpec == Spec /\ Fairness
-----------------------------------------------------------------------------
(* Properties.                                                             *)

Copies == [Items -> File \union {Absent}]
Manifest == [commit : Commits, clean : BOOLEAN,
             files : UNION {[S -> File] : S \in SUBSET Items},
             present : SUBSET {Category[a] : a \in Artifacts}]

\* Every variable has its type, and a running export has copied what it says.
EvTypeOK ==
  /\ network \in Networks
  /\ disk \in [Artifacts -> File \union {Absent}]
  /\ HEAD \in Commits /\ inputs \in Seq(Commits) /\ working \in 0..MaxCommits
  /\ tracked \in [Artifacts -> File \union {Absent}]
  /\ out \in Copies
  /\ manifest \in {Absent, Torn} \/ manifest \in Manifest
  /\ \/ sums \in [state : {"absent", "torn"}]
     \/ sums \in [state : {"whole"}, out : Copies, manifest : Manifest]
  /\ cmd.at \in Exporting \union {"idle", "sums", "verify"}
  /\ cmd.at \in Exporting => cmd.copied \subseteq Items /\ \A i \in cmd.copied : out[i] # Absent
  /\ began \subseteq Artifacts /\ touched \in BOOLEAN

\* What is sealed is what was there: every artifact that existed when the
\* export began is in it, a JSON file in full, also one that was being written
\* while it was copied, any other as far as it was written by then; what names
\* a commit names that of the manifest, and the release inputs are those of
\* this commit, when Git was left alone during the export; whatever was killed,
\* changed or lost before.
SealedIsTrue ==
  \A r \in reports :
    /\ r.began \subseteq DOMAIN r.manifest.files
    /\ \A a \in DOMAIN r.manifest.files \ {Input} :
         /\ r.out[a] \in {disk[a], Part(disk[a])}
         /\ a \in Json => r.out[a] = disk[a] /\ disk[a].whole
         /\ a \in Bound => r.out[a].commit = r.manifest.commit
    /\ ~r.touched => r.out[Input] = Whole(inputs[r.manifest.commit])

\* One directory is sealed once: SEALED said again means that nothing has
\* changed since it was said first.
SealsAgree == \A r, s \in reports : r.out = s.out /\ r.manifest = s.manifest

\* An artifact with a commit in it is sealed only where Git cannot see it.
\* Untracked, it makes the tree dirty, and when it is committed, HEAD is no
\* longer the commit it names.
SealedIsHiddenFromGit ==
  \A r \in reports : DOMAIN r.manifest.files \intersect Bound \subseteq Ignored[network]

\* All JSON artifacts are complete and of this commit, and the tree is clean.
ReadyToSeal ==
  /\ Clean
  /\ Required \subseteq {Category[a] : a \in {b \in Artifacts : disk[b] # Absent}}
  /\ \A a \in Artifacts : disk[a] # Absent =>
       /\ a \in Json => disk[a].whole
       /\ a \in Bound => disk[a].commit = HEAD

NobodyKills == <>[][~Kill]_vars
NobodyTampers == <>[][\A i \in Items : ~Tamper(i)]_vars
NobodyDiscardsInVain == <>[][Discard => ~(Sealable /\ SumsAgree)]_vars

\* Complete evidence gets sealed, whatever was killed or spoilt before.
CompleteEvidenceIsSealed ==
  NobodyKills /\ NobodyTampers /\ NobodyDiscardsInVain =>
    (<>[]ReadyToSeal => <>(reports # {}))
=============================================================================
