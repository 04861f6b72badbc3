----------------------------- MODULE ReleaseFlow -----------------------------
(***************************************************************************)
(* The release of one version: the jobs of .github/workflows/release.yml    *)
(* and the checks of scripts/validate_release_ref.py that gate them.        *)
(*                                                                         *)
(* A run validates the tag, then builds, publishes and releases the commit  *)
(* the tag peeled to, each job on a machine and a clone of its own, each    *)
(* verifying again that the tag has not moved.  Meanwhile maintainers may   *)
(* move the tag, jobs may fail at any step, and runs may be dispatched      *)
(* again or re-run, from the start or from the job that failed.             *)
(***************************************************************************)
EXTENDS Naturals, Sequences

CONSTANTS
  Runs,          \* runs of the workflow
  Commits,
  NoCommit,
  VersionOf,     \* VersionOf[c]: [project.version] of pyproject.toml at c
  Version,       \* the version X.Y.Z of the tag vX.Y.Z
  Refs,          \* forms of inputs.ref that are dispatched: see Forms
  InputVersions, \* values of inputs.version that are dispatched
  MaxAttempts,   \* bound: attempts of one run
  MaxMoves       \* bound: changes of the tag

\* refs/tags/vX.Y.Z, vX.Y.Z, and anything else
Forms == {"full", "short", "other"}

ASSUME ReleaseAssumption ==
  /\ NoCommit \notin Commits
  /\ DOMAIN VersionOf = Commits
  /\ Refs \subseteq Forms
  /\ MaxAttempts \in Nat
  /\ MaxMoves \in Nat

VARIABLES
  tag,        \* what vX.Y.Z is in the repository
  moves,      \* how often it was changed
  tagged,     \* commits it has named as an annotated tag
  job,        \* job[w]: the job run w is at
  step,       \* step[w]: how far that job is
  inputs,     \* inputs[w]: what w was dispatched with
  attempt,    \* attempt[w]
  commit,     \* commit[w]: needs.validate.outputs.commit_sha
  clone,      \* clone[w]: the tag in the clone of w's job
  resolved,   \* resolved[w]: where the tag was when w last verified it
  artifact,   \* artifact[w]: the build uploaded as release-dist
  uploaded,   \* uploaded[w]: files that w's publish job has uploaded
  index,      \* index[f]: the build that file f of the version on PyPI is of
  release     \* the build attached to the GitHub Release of the tag

vars == <<tag, moves, tagged, job, step, inputs, attempt, commit, clone, resolved,
          artifact, uploaded, index, release>>

Tags == [commit : Commits \cup {NoCommit}, annotated : BOOLEAN]
NoTag == [commit |-> NoCommit, annotated |-> FALSE]

Builds == [commit : Commits, run : Runs, attempt : 1 .. MaxAttempts]
NoBuild == [commit |-> NoCommit]

\* dist/* as twine is given it.
Files == <<"wheel", "sdist">>
FileNames == {"wheel", "sdist"}

TypeOK ==
  /\ tag \in Tags
  /\ moves \in 0 .. MaxMoves
  /\ tagged \subseteq Commits
  /\ job \in [Runs -> {"none", "validate", "build", "publish", "github-release", "done"}]
  /\ step \in [Runs -> {"queued", "cloned", "verified", "rejected", "failed"}]
  /\ inputs \in [Runs -> [ref : Refs, version : InputVersions]]
  /\ attempt \in [Runs -> 0 .. MaxAttempts]
  /\ commit \in [Runs -> Commits \cup {NoCommit}]
  /\ clone \in [Runs -> Tags]
  /\ resolved \in [Runs -> Commits \cup {NoCommit}]
  /\ artifact \in [Runs -> Builds \cup {NoBuild}]
  /\ uploaded \in [Runs -> 0 .. Len(Files)]
  /\ index \in [FileNames -> Builds \cup {NoBuild}]
  /\ release \in Builds \cup {NoBuild}

Init ==
  /\ tag \in {NoTag} \cup [commit : Commits, annotated : BOOLEAN]
  /\ moves = 0
  /\ tagged = IF tag.annotated THEN {tag.commit} ELSE {}
  /\ job = [w \in Runs |-> "none"]
  /\ step = [w \in Runs |-> "queued"]
  /\ inputs \in [Runs -> [ref : Refs, version : InputVersions]]
  /\ attempt = [w \in Runs |-> 0]
  /\ commit = [w \in Runs |-> NoCommit]
  /\ clone = [w \in Runs |-> NoTag]
  /\ resolved = [w \in Runs |-> NoCommit]
  /\ artifact = [w \in Runs |-> NoBuild]
  /\ uploaded = [w \in Runs |-> 0]
  /\ index = [f \in FileNames |-> NoBuild]
  /\ release = NoBuild

-----------------------------------------------------------------------------
(***************************************************************************)
(* Maintainers.                                                             *)
(***************************************************************************)

Stopped == {"rejected", "failed"}

Active(w) == job[w] \notin {"none", "done"} /\ step[w] \notin Stopped

\* The concurrency group: one run at a time for each value of inputs.ref.
GroupFree(w) == \A x \in Runs \ {w} : Active(x) => inputs[x].ref # inputs[w].ref

Start(w) ==
  /\ GroupFree(w)
  /\ attempt[w] < MaxAttempts
  /\ attempt' = [attempt EXCEPT ![w] = @ + 1]
  /\ step' = [step EXCEPT ![w] = "queued"]
  /\ uploaded' = [uploaded EXCEPT ![w] = 0]

\* workflow_dispatch, or "Re-run all jobs".
Dispatch(w) ==
  /\ ~Active(w)
  /\ Start(w)
  /\ job' = [job EXCEPT ![w] = "validate"]
  /\ UNCHANGED <<tag, moves, tagged, inputs, commit, clone, resolved, artifact, index, release>>

\* "Re-run failed jobs": the jobs before keep their outputs and artifacts.
RerunFailed(w) ==
  /\ step[w] \in Stopped
  /\ Start(w)
  /\ UNCHANGED <<tag, moves, tagged, job, inputs, commit, clone, resolved, artifact, index, release>>

\* The tag is pushed, moved, made lightweight or deleted.
MoveTag(t) ==
  /\ moves < MaxMoves
  /\ t # tag
  /\ moves' = moves + 1
  /\ tag' = t
  /\ tagged' = IF t.annotated THEN tagged \cup {t.commit} ELSE tagged
  /\ UNCHANGED <<job, step, inputs, attempt, commit, clone, resolved, artifact, uploaded,
                 index, release>>

-----------------------------------------------------------------------------
(***************************************************************************)
(* Jobs.                                                                    *)
(***************************************************************************)

\* A step fails, the job runs out of time, or the run is cancelled.
Fail(w) ==
  /\ Active(w)
  /\ step' = [step EXCEPT ![w] = "failed"]
  /\ UNCHANGED <<tag, moves, tagged, job, inputs, attempt, commit, clone, resolved, artifact,
                 uploaded, index, release>>

\* Mutant of CheckAnnotated: a validator that takes any tag.
CheckAnyTag(t) == TRUE

CheckAnnotated(t) == t.annotated

\* resolve_tag_commit peels the tag to the commit it names.
Peeled(t) == t.commit

\* validate_release on what the clone of the validate job shows.
Errors(input, t) ==
  IF input.ref # "full" THEN {"malformed"}
  ELSE IF t.commit = NoCommit THEN {"unresolved"}
  ELSE {e \in {"input", "pyproject", "lightweight"} :
          \/ e = "input" /\ input.version # Version
          \/ e = "pyproject" /\ VersionOf[t.commit] # Version
          \/ e = "lightweight" /\ ~CheckAnnotated(t)}

Validate(w) ==
  /\ job[w] = "validate"
  /\ step[w] = "queued"
  /\ IF Errors(inputs[w], tag) = {}
     THEN /\ commit' = [commit EXCEPT ![w] = Peeled(tag)]
          /\ job' = [job EXCEPT ![w] = "build"]
          /\ UNCHANGED step
     ELSE /\ step' = [step EXCEPT ![w] = "rejected"]
          /\ UNCHANGED <<commit, job>>
  /\ UNCHANGED <<tag, moves, tagged, inputs, attempt, clone, resolved, artifact, uploaded,
                 index, release>>

\* actions/checkout of the commit, fetching the tags as they are now.
Clone(w) ==
  /\ job[w] \in {"build", "publish", "github-release"}
  /\ step[w] = "queued"
  /\ clone' = [clone EXCEPT ![w] = tag]
  /\ step' = [step EXCEPT ![w] = "cloned"]
  /\ UNCHANGED <<tag, moves, tagged, job, inputs, attempt, commit, resolved, artifact, uploaded,
                 index, release>>

\* Mutant of Unmoved: trusting what the validate job has checked.
TrustValidated(w) == TRUE

\* _verify_tag_unmoved, in the job's clone.
Unmoved(w) == clone[w].commit = commit[w]

Verify(w) ==
  /\ step[w] = "cloned"
  /\ step' = [step EXCEPT ![w] = IF Unmoved(w) THEN "verified" ELSE "rejected"]
  /\ resolved' = [resolved EXCEPT ![w] = tag.commit]
  /\ UNCHANGED <<tag, moves, tagged, job, inputs, attempt, commit, clone, artifact, uploaded,
                 index, release>>

\* The quality gate, the build, and the inspection of what was built.
Build(w) ==
  /\ job[w] = "build"
  /\ step[w] = "verified"
  /\ VersionOf[commit[w]] = inputs[w].version
  /\ artifact' = [artifact EXCEPT ![w] =
                    [commit |-> commit[w], run |-> w, attempt |-> attempt[w]]]
  /\ job' = [job EXCEPT ![w] = "publish"]
  /\ step' = [step EXCEPT ![w] = "queued"]
  /\ UNCHANGED <<tag, moves, tagged, inputs, attempt, commit, clone, resolved, uploaded,
                 index, release>>

\* No skip-existing: PyPI's refusal of a file it has fails the job.
Accepts(f) == index[f] = NoBuild

\* Mutant of Taken: skip-existing: true.
SkipExisting(f) == index[f] # NoBuild

Taken(f) == FALSE

\* One file of the artifact is uploaded, or taken for uploaded.
Upload(w) ==
  LET f == Files[uploaded[w] + 1]
  IN  /\ job[w] = "publish"
      /\ step[w] = "verified"
      /\ Accepts(f) \/ Taken(f)
      /\ index' = IF Accepts(f) THEN [index EXCEPT ![f] = artifact[w]] ELSE index
      /\ uploaded' = [uploaded EXCEPT ![w] = @ + 1]
      /\ IF uploaded[w] + 1 = Len(Files)
         THEN /\ job' = [job EXCEPT ![w] = "github-release"]
              /\ step' = [step EXCEPT ![w] = "queued"]
         ELSE UNCHANGED <<job, step>>
      /\ UNCHANGED <<tag, moves, tagged, inputs, attempt, commit, clone, resolved, artifact,
                     release>>

\* PyPI has the file, and the job fails before it learns of that.
UploadLost(w) ==
  LET f == Files[uploaded[w] + 1]
  IN  /\ job[w] = "publish"
      /\ step[w] = "verified"
      /\ Accepts(f)
      /\ index' = [index EXCEPT ![f] = artifact[w]]
      /\ step' = [step EXCEPT ![w] = "failed"]
      /\ UNCHANGED <<tag, moves, tagged, job, inputs, attempt, commit, clone, resolved,
                     artifact, uploaded, release>>

\* gh release create --verify-tag, which refuses a tag that is gone and one
\* that has a release.
CreateRelease(w) ==
  /\ job[w] = "github-release"
  /\ step[w] = "verified"
  /\ tag.commit # NoCommit
  /\ release = NoBuild
  /\ release' = artifact[w]
  /\ job' = [job EXCEPT ![w] = "done"]
  /\ UNCHANGED <<tag, moves, tagged, step, inputs, attempt, commit, clone, resolved, artifact,
                 uploaded, index>>

Next ==
  \/ \E w \in Runs :
       \/ Dispatch(w) \/ RerunFailed(w) \/ Fail(w)
       \/ Validate(w) \/ Clone(w) \/ Verify(w) \/ Build(w)
       \/ Upload(w) \/ UploadLost(w) \/ CreateRelease(w)
  \/ \E t \in {NoTag} \cup [commit : Commits, annotated : BOOLEAN] : MoveTag(t)

Spec == Init /\ [][Next]_vars

-----------------------------------------------------------------------------
(***************************************************************************)
(* Properties.                                                              *)
(***************************************************************************)

\* What is on PyPI for a version is of one build, however many runs, re-runs
\* and lost uploads there were ("that exact set of bytes can never be
\* replaced", docs/DEVELOPMENT.md).
IndexIsOneBuild ==
  \A f, g \in FileNames : NoBuild \in {index[f], index[g]} \/ index[f] = index[g]

\* Nothing is published but commits of the tag's version that the tag has
\* named, and named as an annotated tag.
PublishedWasTagged ==
  \A f \in FileNames : index[f] # NoBuild =>
    index[f].commit \in tagged /\ VersionOf[index[f].commit] = Version

\* The GitHub Release comes after a complete publication and holds the files
\* that are on PyPI ("A GitHub Release is never created for a version that
\* failed to publish"; "reuse the exact artifacts `build` already verified").
ReleaseMatchesIndex ==
  release # NoBuild => \A f \in FileNames : index[f] = release

\* A job whose clone shows that the tag has moved uploads and releases nothing.
MovedTagStopsJob ==
  [][\A w \in Runs :
       uploaded'[w] > uploaded[w] \/ (job[w] # "done" /\ job'[w] = "done")
         => clone[w].commit = commit[w]]_vars

\* A job that has verified the tag found it, then and there, where the
\* validate job had ("re-verifies the tag still resolves to that same SHA
\* before doing anything privileged", docs/DEVELOPMENT.md).
MovedTagIsCaught == \A w \in Runs : step[w] = "verified" => resolved[w] = commit[w]

=============================================================================
