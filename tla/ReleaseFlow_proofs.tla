------------------------- MODULE ReleaseFlow_proofs -------------------------
(***************************************************************************)
(* Theorems about ReleaseFlow, for all sets of runs and commits, any number *)
(* of attempts and of changes of the tag.                                   *)
(***************************************************************************)
EXTENDS ReleaseFlow, TLAPS

\* Commits of the version that the tag has named as an annotated tag.
Releasable(c) == c \in tagged /\ VersionOf[c] = Version

\* What was validated, built and published is releasable.
OriginInv ==
  /\ tag.annotated => tag.commit \in tagged
  /\ \A w \in Runs : commit[w] # NoCommit => Releasable(commit[w])
  /\ \A w \in Runs : artifact[w] # NoBuild => Releasable(artifact[w].commit)
  /\ \A f \in FileNames : index[f] # NoBuild => Releasable(index[f].commit)

\* A job has what the jobs before it produced, and a verified job's clone
\* shows the tag where it was validated.
JobInv ==
  \A w \in Runs :
    /\ job[w] \in {"build", "publish", "github-release", "done"} => commit[w] # NoCommit
    /\ job[w] \in {"publish", "github-release", "done"} => artifact[w] # NoBuild
    /\ job[w] # "none" => attempt[w] # 0
    /\ step[w] = "verified" => clone[w].commit = commit[w]

\* Files are uploaded in one order, and those of a job are of its artifact.
UploadInv ==
  \A w \in Runs :
    /\ job[w] \in {"none", "validate", "build"} => uploaded[w] = 0
    /\ job[w] = "publish" => uploaded[w] \in {0, 1}
    /\ uploaded[w] = 1 => index["wheel"] = artifact[w]
    /\ job[w] \in {"github-release", "done"} =>
         index["wheel"] = artifact[w] /\ index["sdist"] = artifact[w]

\* The index never holds the second file of one build and the first of another.
IndexInv ==
  /\ index["sdist"] # NoBuild => index["wheel"] = index["sdist"]
  /\ release # NoBuild => index["wheel"] = release /\ index["sdist"] = release

IInv == TypeOK /\ OriginInv /\ JobInv /\ UploadInv /\ IndexInv

\* The files, in the order in which twine takes them.
LEMMA FileFacts ==
  /\ Len(Files) = 2
  /\ Files[1] = "wheel" /\ Files[2] = "sdist"
  /\ FileNames = {"wheel", "sdist"}
  BY DEF Files, FileNames

\* A build is not the lack of one.
LEMMA BuildFacts ==
  /\ \A b \in Builds : b # NoBuild /\ b.commit \in Commits
  /\ NoTag \in Tags /\ NoTag.commit = NoCommit /\ NoTag.annotated = FALSE
  /\ \A t \in Tags : t.annotated \in BOOLEAN /\ t.commit \in Commits \cup {NoCommit}
<1>1. \A b \in Builds : b.commit \in Commits
  BY DEF Builds
<1>2. \A b \in Builds : b # NoBuild
  BY <1>1, ReleaseAssumption DEF NoBuild
<1> QED
  BY <1>1, <1>2 DEF NoTag, Tags

\* The inductive invariant holds before any run.
LEMMA InitIInv == Init => IInv
<1> SUFFICES ASSUME Init PROVE IInv
  OBVIOUS
<1> USE ReleaseAssumption, FileFacts, BuildFacts DEF Init
<1>1. tag \in Tags
  BY DEF Tags
<1>2. tagged \subseteq Commits /\ (tag.annotated => tag.commit \in tagged)
  BY DEF NoTag
<1>3. TypeOK
  BY <1>1, <1>2 DEF TypeOK
<1>4. OriginInv
  BY <1>2 DEF OriginInv
<1>5. JobInv /\ UploadInv /\ IndexInv
  BY DEF JobInv, UploadInv, IndexInv
<1> QED
  BY <1>3, <1>4, <1>5 DEF IInv

-----------------------------------------------------------------------------
(***************************************************************************)
(* Every step keeps the inductive invariant.                                *)
(***************************************************************************)

\* A run starts from the validation.
LEMMA DispatchKeeps == ASSUME IInv, NEW w \in Runs, Dispatch(w) PROVE IInv'
<1> USE ReleaseAssumption, FileFacts, BuildFacts DEF IInv, TypeOK, Dispatch, Start
<1>1. TypeOK'
  OBVIOUS
<1>2. OriginInv'
  BY DEF OriginInv, Releasable
<1>3. JobInv'
  BY DEF JobInv
<1>4. UploadInv' /\ IndexInv'
  BY DEF UploadInv, IndexInv
<1> QED
  BY <1>1, <1>2, <1>3, <1>4

\* A run starts again from the job that failed, with nothing uploaded.
LEMMA RerunKeeps == ASSUME IInv, NEW w \in Runs, RerunFailed(w) PROVE IInv'
<1> USE ReleaseAssumption, FileFacts, BuildFacts DEF IInv, TypeOK, RerunFailed, Start, Stopped
<1>1. TypeOK'
  OBVIOUS
<1>2. OriginInv'
  BY DEF OriginInv, Releasable
<1>3. JobInv'
  BY DEF JobInv
<1>4. UploadInv' /\ IndexInv'
  BY DEF UploadInv, IndexInv
<1> QED
  BY <1>1, <1>2, <1>3, <1>4

\* A job fails.
LEMMA FailKeeps == ASSUME IInv, NEW w \in Runs, Fail(w) PROVE IInv'
<1> USE ReleaseAssumption, FileFacts, BuildFacts DEF IInv, TypeOK, Fail
<1>1. TypeOK'
  OBVIOUS
<1>2. OriginInv'
  BY DEF OriginInv, Releasable
<1>3. JobInv'
  BY DEF JobInv
<1>4. UploadInv' /\ IndexInv'
  BY DEF UploadInv, IndexInv
<1> QED
  BY <1>1, <1>2, <1>3, <1>4

\* A job fetches the tag.
LEMMA CloneKeeps == ASSUME IInv, NEW w \in Runs, Clone(w) PROVE IInv'
<1> USE ReleaseAssumption, FileFacts, BuildFacts DEF IInv, TypeOK, Clone
<1>1. TypeOK'
  OBVIOUS
<1>2. OriginInv'
  BY DEF OriginInv, Releasable
<1>3. JobInv'
  BY DEF JobInv
<1>4. UploadInv' /\ IndexInv'
  BY DEF UploadInv, IndexInv
<1> QED
  BY <1>1, <1>2, <1>3, <1>4

\* A job verifies the tag in its clone.
LEMMA VerifyKeeps == ASSUME IInv, NEW w \in Runs, Verify(w) PROVE IInv'
<1> USE ReleaseAssumption, FileFacts, BuildFacts DEF IInv, TypeOK, Verify, Unmoved
<1>1. TypeOK'
  OBVIOUS
<1>2. OriginInv'
  BY DEF OriginInv, Releasable
<1>3. JobInv'
  BY DEF JobInv
<1>4. UploadInv' /\ IndexInv'
  BY DEF UploadInv, IndexInv
<1> QED
  BY <1>1, <1>2, <1>3, <1>4

\* The tag is changed: what it has named so far stays named.
LEMMA MoveTagKeeps ==
  ASSUME IInv, NEW t \in {NoTag} \cup [commit : Commits, annotated : BOOLEAN], MoveTag(t)
  PROVE  IInv'
<1> USE ReleaseAssumption, BuildFacts DEF IInv, MoveTag
<1>1. t \in Tags /\ (t.annotated => t.commit \in Commits)
  BY DEF Tags, NoTag
<1>2. tagged \subseteq tagged' /\ tagged' \subseteq Commits /\ (tag'.annotated => tag'.commit \in tagged')
  BY <1>1 DEF TypeOK
<1>3. TypeOK'
  BY <1>1, <1>2 DEF TypeOK
<1>4. OriginInv'
  BY <1>2 DEF OriginInv, Releasable
<1>5. JobInv' /\ UploadInv' /\ IndexInv'
  BY DEF JobInv, UploadInv, IndexInv
<1> QED
  BY <1>3, <1>4, <1>5

\* The validation hands on a commit that the tag names.
LEMMA ValidateKeeps == ASSUME IInv, NEW w \in Runs, Validate(w) PROVE IInv'
<1> USE ReleaseAssumption, BuildFacts DEF IInv, Validate
<1>1. UNCHANGED <<tag, tagged, clone, artifact, uploaded, index, release>>
  OBVIOUS
<1>2. CASE Errors(inputs[w], tag) = {}
  <2>1. commit' = [commit EXCEPT ![w] = tag.commit] /\ job' = [job EXCEPT ![w] = "build"]
        /\ UNCHANGED step /\ job[w] = "validate" /\ step[w] = "queued"
    BY <1>2 DEF Peeled
  <2>2. inputs[w].ref = "full" /\ tag.commit # NoCommit
    BY <1>2 DEF Errors
  <2>3. VersionOf[tag.commit] = Version /\ tag.annotated
    <3>1. "pyproject" \notin Errors(inputs[w], tag) /\ "lightweight" \notin Errors(inputs[w], tag)
      BY <1>2
    <3> QED BY <2>2, <3>1 DEF Errors, CheckAnnotated
  <2>4. Releasable(tag.commit)
    BY <2>3 DEF OriginInv, Releasable
  <2>5. TypeOK'
    BY <2>1 DEF TypeOK
  <2>6. OriginInv'
    BY <1>1, <2>1, <2>4 DEF TypeOK, OriginInv, Releasable
  <2>7. JobInv' /\ UploadInv' /\ IndexInv'
    BY <1>1, <2>1, <2>2 DEF TypeOK, JobInv, UploadInv, IndexInv
  <2> QED BY <2>5, <2>6, <2>7
<1>3. CASE Errors(inputs[w], tag) # {}
  <2>1. step' = [step EXCEPT ![w] = "rejected"] /\ UNCHANGED <<commit, job>>
    BY <1>3
  <2>2. TypeOK'
    BY <2>1 DEF TypeOK
  <2>3. OriginInv' /\ JobInv' /\ UploadInv' /\ IndexInv'
    BY <1>1, <2>1 DEF TypeOK, OriginInv, Releasable, JobInv, UploadInv, IndexInv
  <2> QED BY <2>2, <2>3
<1> QED
  BY <1>2, <1>3

\* A build is of the validated commit.
LEMMA BuildKeeps == ASSUME IInv, NEW w \in Runs, Build(w) PROVE IInv'
<1> USE ReleaseAssumption, BuildFacts DEF IInv, Build
<1> DEFINE b == [commit |-> commit[w], run |-> w, attempt |-> attempt[w]]
<1>1. commit[w] \in Commits
  BY DEF TypeOK, JobInv
<1>2. attempt[w] \in 1 .. MaxAttempts
  BY DEF TypeOK, JobInv
<1>3. b \in Builds /\ b.commit = commit[w]
  BY <1>1, <1>2 DEF Builds
<1> HIDE DEF b
<1>4. artifact' = [artifact EXCEPT ![w] = b]
  BY DEF b
<1>5. TypeOK'
  BY <1>3, <1>4 DEF TypeOK
<1>6. OriginInv'
  BY <1>1, <1>3, <1>4 DEF TypeOK, OriginInv, Releasable
<1>7. JobInv'
  BY <1>3, <1>4 DEF TypeOK, JobInv
<1>8. UploadInv' /\ IndexInv'
  BY <1>4 DEF TypeOK, UploadInv, IndexInv
<1> QED
  BY <1>5, <1>6, <1>7, <1>8

\* A file that the index takes is the next one of the job's artifact.
LEMMA TakenFile ==
  ASSUME IInv, NEW w \in Runs, job[w] = "publish", Accepts(Files[uploaded[w] + 1]),
         index' = [index EXCEPT ![Files[uploaded[w] + 1]] = artifact[w]]
  PROVE  /\ artifact[w] \in Builds /\ Releasable(artifact[w].commit)
         /\ \/ /\ uploaded[w] = 0 /\ Files[uploaded[w] + 1] = "wheel"
               /\ index["wheel"] = NoBuild /\ index["sdist"] = NoBuild
               /\ index'["wheel"] = artifact[w] /\ index'["sdist"] = NoBuild
            \/ /\ uploaded[w] = 1 /\ Files[uploaded[w] + 1] = "sdist"
               /\ index["sdist"] = NoBuild /\ index["wheel"] = artifact[w]
               /\ index'["wheel"] = artifact[w] /\ index'["sdist"] = artifact[w]
         /\ release = NoBuild
         /\ index' \in [FileNames -> Builds \cup {NoBuild}]
         /\ \A f \in FileNames : index[f] # NoBuild => index'[f] = index[f]
<1> USE FileFacts, BuildFacts DEF IInv
<1>1. artifact[w] \in Builds /\ Releasable(artifact[w].commit)
  BY DEF TypeOK, JobInv, OriginInv
<1>2. uploaded[w] \in {0, 1}
  BY DEF UploadInv
<1>3. CASE uploaded[w] = 0
  <2>1. Files[uploaded[w] + 1] = "wheel"
    BY <1>3
  <2> QED BY <1>1, <1>3, <2>1 DEF TypeOK, Accepts, IndexInv
<1>4. CASE uploaded[w] = 1
  <2>1. Files[uploaded[w] + 1] = "sdist"
    BY <1>4
  <2> QED BY <1>1, <1>4, <2>1 DEF TypeOK, Accepts, IndexInv, UploadInv
<1> QED
  BY <1>2, <1>3, <1>4

\* What the index then holds, whatever else changes.
LEMMA IndexGrows ==
  ASSUME IInv, NEW w \in Runs, job[w] = "publish", Accepts(Files[uploaded[w] + 1]),
         index' = [index EXCEPT ![Files[uploaded[w] + 1]] = artifact[w]],
         UNCHANGED <<tag, tagged, commit, artifact, release>>
  PROVE  OriginInv' /\ IndexInv'
<1> USE FileFacts, BuildFacts, TakenFile DEF IInv
<1>1. OriginInv'
  BY DEF OriginInv, Releasable
<1>2. IndexInv'
  BY DEF IndexInv
<1> QED
  BY <1>1, <1>2

\* What the other jobs have uploaded stays.
LEMMA OthersKept ==
  ASSUME IInv, \A f \in FileNames : index[f] # NoBuild => index'[f] = index[f],
         NEW x \in Runs
  PROVE  /\ uploaded[x] = 1 => index'["wheel"] = artifact[x]
         /\ job[x] \in {"github-release", "done"} =>
              index'["wheel"] = artifact[x] /\ index'["sdist"] = artifact[x]
<1>0. job[x] \in {"none", "validate", "build", "publish", "github-release", "done"}
  BY DEF IInv, TypeOK
<1>1. uploaded[x] = 1 => job[x] \in {"publish", "github-release", "done"}
  BY <1>0 DEF IInv, UploadInv
<1>2. uploaded[x] = 1 \/ job[x] \in {"github-release", "done"} => artifact[x] # NoBuild
  BY <1>1 DEF IInv, JobInv
<1> QED
  BY <1>2, FileFacts DEF IInv, UploadInv

\* A file is uploaded, and the job goes on to the next one or is done.
LEMMA UploadKeeps == ASSUME IInv, NEW w \in Runs, Upload(w) PROVE IInv'
<1> USE FileFacts, BuildFacts DEF IInv
<1>1. /\ job[w] = "publish" /\ step[w] = "verified"
      /\ Accepts(Files[uploaded[w] + 1])
      /\ index' = [index EXCEPT ![Files[uploaded[w] + 1]] = artifact[w]]
      /\ uploaded' = [uploaded EXCEPT ![w] = @ + 1]
      /\ UNCHANGED <<tag, moves, tagged, inputs, attempt, commit, clone, resolved, artifact,
                     release>>
  BY DEF Upload, Taken
<1>2. \/ uploaded[w] = 1 /\ job' = [job EXCEPT ![w] = "github-release"]
         /\ step' = [step EXCEPT ![w] = "queued"]
      \/ uploaded[w] = 0 /\ UNCHANGED <<job, step>>
  BY <1>1 DEF Upload, UploadInv
<1>3. OriginInv' /\ IndexInv'
  BY <1>1, IndexGrows
<1>a. /\ artifact[w] \in Builds
      /\ \/ uploaded[w] = 0 /\ index["wheel"] = NoBuild /\ index["sdist"] = NoBuild
            /\ index'["wheel"] = artifact[w] /\ index'["sdist"] = NoBuild
         \/ uploaded[w] = 1 /\ index["sdist"] = NoBuild /\ index["wheel"] = artifact[w]
            /\ index'["wheel"] = artifact[w] /\ index'["sdist"] = artifact[w]
      /\ index' \in [FileNames -> Builds \cup {NoBuild}]
  BY <1>1, TakenFile
<1>b. \A f \in FileNames : index[f] # NoBuild => index'[f] = index[f]
  BY <1>1, TakenFile
<1>4. TypeOK'
  <2>1. uploaded' \in [Runs -> 0 .. Len(Files)]
    BY <1>1, <1>2 DEF TypeOK
  <2>2. /\ job' \in [Runs -> {"none", "validate", "build", "publish", "github-release", "done"}]
        /\ step' \in [Runs -> {"queued", "cloned", "verified", "rejected", "failed"}]
    BY <1>1, <1>2 DEF TypeOK
  <2> QED BY <1>1, <1>a, <2>1, <2>2 DEF TypeOK
<1>5. JobInv'
  BY <1>1, <1>2 DEF TypeOK, JobInv
<1>6. UploadInv'
  <2> SUFFICES ASSUME NEW x \in Runs
               PROVE  /\ job'[x] \in {"none", "validate", "build"} => uploaded'[x] = 0
                      /\ job'[x] = "publish" => uploaded'[x] \in {0, 1}
                      /\ uploaded'[x] = 1 => index'["wheel"] = artifact'[x]
                      /\ job'[x] \in {"github-release", "done"} =>
                           index'["wheel"] = artifact'[x] /\ index'["sdist"] = artifact'[x]
    BY DEF UploadInv
  <2>1. CASE x = w
    <3>1. CASE uploaded[w] = 1 /\ job' = [job EXCEPT ![w] = "github-release"]
      <4>1. job'[w] = "github-release" /\ uploaded'[w] = 2 /\ artifact'[w] = artifact[w]
        BY <1>1, <3>1 DEF TypeOK
      <4> QED BY <1>a, <2>1, <3>1, <4>1
    <3>2. CASE uploaded[w] = 0 /\ UNCHANGED job
      <4>1. job'[w] = "publish" /\ uploaded'[w] = 1 /\ artifact'[w] = artifact[w]
        BY <1>1, <3>2 DEF TypeOK
      <4> QED BY <1>a, <2>1, <3>2, <4>1
    <3> QED BY <1>2, <3>1, <3>2
  <2>2. CASE x # w
    <3>1. job'[x] = job[x] /\ uploaded'[x] = uploaded[x] /\ artifact'[x] = artifact[x]
      BY <1>1, <1>2, <2>2 DEF TypeOK
    <3> QED BY <1>b, <3>1, OthersKept DEF UploadInv
  <2> QED BY <2>1, <2>2
<1> QED
  BY <1>3, <1>4, <1>5, <1>6

\* A file is uploaded, and the job fails.
LEMMA UploadLostKeeps == ASSUME IInv, NEW w \in Runs, UploadLost(w) PROVE IInv'
<1> USE FileFacts, BuildFacts DEF IInv
<1>1. /\ job[w] = "publish"
      /\ Accepts(Files[uploaded[w] + 1])
      /\ index' = [index EXCEPT ![Files[uploaded[w] + 1]] = artifact[w]]
      /\ step' = [step EXCEPT ![w] = "failed"]
      /\ UNCHANGED <<tag, moves, tagged, job, inputs, attempt, commit, clone, resolved,
                     artifact, uploaded, release>>
  BY DEF UploadLost
<1>2. OriginInv' /\ IndexInv'
  BY <1>1, IndexGrows
<1>3. TypeOK'
  BY <1>1, TakenFile DEF TypeOK
<1>4. JobInv'
  BY <1>1 DEF TypeOK, JobInv
<1>5. UploadInv'
  <2>1. \A f \in FileNames : index[f] # NoBuild => index'[f] = index[f]
    BY <1>1, TakenFile
  <2> QED BY <1>1, <2>1, OthersKept DEF UploadInv
<1> QED
  BY <1>2, <1>3, <1>4, <1>5

\* The release takes the artifact that is on the index.
LEMMA CreateReleaseKeeps == ASSUME IInv, NEW w \in Runs, CreateRelease(w) PROVE IInv'
<1> USE ReleaseAssumption, FileFacts, BuildFacts DEF IInv, TypeOK, CreateRelease
<1>1. TypeOK'
  OBVIOUS
<1>2. OriginInv'
  BY DEF OriginInv, Releasable
<1>3. JobInv'
  BY DEF JobInv
<1>4. UploadInv' /\ IndexInv'
  BY DEF UploadInv, IndexInv
<1> QED
  BY <1>1, <1>2, <1>3, <1>4

\* Every step keeps the inductive invariant.
LEMMA NextIInv == IInv /\ [Next]_vars => IInv'
<1> SUFFICES ASSUME IInv, [Next]_vars PROVE IInv'
  OBVIOUS
<1>1. CASE UNCHANGED vars
  BY <1>1 DEF vars, IInv, TypeOK, OriginInv, Releasable, JobInv, UploadInv, IndexInv
<1>2. CASE Next
  BY <1>2, DispatchKeeps, RerunKeeps, FailKeeps, CloneKeeps, VerifyKeeps, MoveTagKeeps,
     ValidateKeeps, BuildKeeps, UploadKeeps, UploadLostKeeps, CreateReleaseKeeps DEF Next
<1> QED
  BY <1>1, <1>2

\* The inductive invariant holds.
THEOREM Invariance == Spec => []IInv
  BY InitIInv, NextIInv, PTL DEF Spec

-----------------------------------------------------------------------------
(***************************************************************************)
(* The theorems.                                                            *)
(***************************************************************************)

\* The type invariant.
THEOREM ReleaseTyped == Spec => []TypeOK
  BY Invariance, PTL DEF IInv

\* What is on PyPI for a version is of one build.
THEOREM OneBuild == Spec => []IndexIsOneBuild
<1>1. IInv => IndexIsOneBuild
  BY FileFacts DEF IInv, IndexInv, IndexIsOneBuild
<1> QED
  BY <1>1, Invariance, PTL

\* Only commits that the tag has named are published.
THEOREM OnlyTagged == Spec => []PublishedWasTagged
<1>1. IInv => PublishedWasTagged
  BY DEF IInv, OriginInv, Releasable, PublishedWasTagged
<1> QED
  BY <1>1, Invariance, PTL

\* The GitHub Release holds what is on PyPI.
THEOREM SameFiles == Spec => []ReleaseMatchesIndex
<1>1. IInv => ReleaseMatchesIndex
  BY FileFacts DEF IInv, IndexInv, ReleaseMatchesIndex
<1> QED
  BY <1>1, Invariance, PTL

\* A job whose clone shows that the tag has moved publishes nothing.
THEOREM MovedIsStopped == Spec => MovedTagStopsJob
<1> DEFINE Stops ==
      \A w \in Runs :
        uploaded'[w] > uploaded[w] \/ (job[w] # "done" /\ job'[w] = "done")
          => clone[w].commit = commit[w]
<1>1. IInv /\ [Next]_vars => [Stops]_vars
  <2> SUFFICES ASSUME IInv, Next, NEW w \in Runs,
                      uploaded'[w] > uploaded[w] \/ (job[w] # "done" /\ job'[w] = "done")
               PROVE  clone[w].commit = commit[w]
    OBVIOUS
  <2>0. uploaded[w] \in Nat
    BY FileFacts DEF IInv, TypeOK
  <2>1. step[w] = "verified"
    <3>1. ASSUME NEW x \in Runs, Dispatch(x) \/ RerunFailed(x) \/ Fail(x) \/ Clone(x) \/ Verify(x)
          PROVE  FALSE
      <4>1. CASE Dispatch(x) \/ RerunFailed(x)
        <5>1. uploaded' = [uploaded EXCEPT ![x] = 0]
              /\ (UNCHANGED job \/ job' = [job EXCEPT ![x] = "validate"])
          BY <4>1 DEF Dispatch, RerunFailed, Start
        <5>2. uploaded'[w] \in {0, uploaded[w]} /\ job'[w] \in {job[w], "validate"}
          BY <5>1 DEF IInv, TypeOK
        <5> QED BY <2>0, <5>2
      <4>2. CASE Fail(x) \/ Clone(x) \/ Verify(x)
        BY <2>0, <4>2 DEF Fail, Clone, Verify
      <4> QED BY <3>1, <4>1, <4>2
    <3>2. ASSUME NEW x \in Runs, Validate(x) \/ Build(x) \/ UploadLost(x)
          PROVE  FALSE
      BY <2>0, <3>2 DEF Validate, Build, UploadLost, IInv, TypeOK
    <3>3. ASSUME NEW x \in Runs, Upload(x) \/ CreateRelease(x) PROVE step[w] = "verified"
      <4>1. x = w
        BY <2>0, <3>3 DEF Upload, CreateRelease, IInv, TypeOK
      <4> QED BY <3>3, <4>1 DEF Upload, CreateRelease
    <3>4. ASSUME NEW t \in {NoTag} \cup [commit : Commits, annotated : BOOLEAN], MoveTag(t)
          PROVE  FALSE
      BY <2>0, <3>4 DEF MoveTag
    <3> QED BY <3>1, <3>2, <3>3, <3>4 DEF Next
  <2> QED BY <2>1 DEF IInv, JobInv
<1> QED
  BY <1>1, Invariance, PTL DEF Spec, MovedTagStopsJob
=============================================================================
