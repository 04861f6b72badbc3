---------------------------- MODULE ArtifactCheck ----------------------------
(***************************************************************************)
(* What a release's artifacts must be to be published:                      *)
(* scripts/verify_release_artifacts.py, which the build job of the release  *)
(* workflow and a developer run on a directory of built files.              *)
(*                                                                         *)
(* An archive keeps which of the required entries it has, "modules" and     *)
(* "files" standing for one of each, and what its metadata say.  An error   *)
(* is a source and a topic.                                                 *)
(***************************************************************************)
EXTENDS Integers, Sequences, FiniteSets

EXPECTED_EXTRAS == {"a2a", "mcp"}

\* The three environments that the wheel is installed into.
Scenarios == {"base", "a2a", "mcp"}

\* Errors about one of a number of conditions, each with its topic.
Failing(source, conditions) ==
  {<<source, topic>> : topic \in {t \in DOMAIN conditions : ~ conditions[t]}}

check_common_metadata(metadata, expected_version, source) ==
  Failing(source, [Name              |-> metadata.name,
                   Version           |-> metadata.version = expected_version,
                   LicenseExpression |-> metadata.license,
                   RequiresPython    |-> metadata.python,
                   ProvidesExtra     |-> EXPECTED_EXTRAS \subseteq metadata.extras])

\* Mutant of inspect_wheel: without its metadata the wheel has no errors.
inspect_wheel_first(wheel, expected_version) ==
  IF wheel.dist_infos # 1 THEN {}
  ELSE Failing("wheel", [modules |-> "modules" \in wheel.entries, description |-> wheel.description])
       \cup check_common_metadata(wheel.metadata, expected_version, "wheel")

inspect_wheel(wheel, expected_version) ==
  Failing("wheel", [modules |-> "modules" \in wheel.entries])
  \cup IF wheel.dist_infos # 1 THEN {<<"wheel", "METADATA">>}
       ELSE check_common_metadata(wheel.metadata, expected_version, "wheel")
            \cup Failing("wheel", [description |-> wheel.description])

\* The sdist's entries lie in one directory, whatever its name; PKG-INFO is a
\* "file", a "directory" or "missing".
inspect_sdist(sdist, expected_version) ==
  IF sdist.top_level_dirs # 1 THEN {<<"sdist", "top level">>}
  ELSE Failing("sdist", [files   |-> "files" \in sdist.entries,
                         modules |-> "modules" \in sdist.entries])
       \cup IF sdist.pkg_info # "file" THEN {<<"sdist", "PKG-INFO">>}
            ELSE check_common_metadata(sdist.metadata, expected_version, "sdist")

\* Each scenario ends where its "venv", its "install" or its "import" fails; the
\* others go on.
run_smoke_tests(failures) == {<<s, failures[s]>> : s \in {t \in Scenarios : failures[t] # "nothing"}}

\* main: the exit status.  SystemExit with a message is status 1, too.
verify(dist, expected_version, skip_smoke_test) ==
  IF Len(dist.wheels) # 1 \/ Len(dist.sdists) # 1 THEN 1
  ELSE LET errors == inspect_wheel(dist.wheels[1], expected_version)
                     \cup inspect_sdist(dist.sdists[1], expected_version)
                     \cup IF skip_smoke_test THEN {} ELSE run_smoke_tests(dist.failures)
       IN  IF errors # {} THEN 1 ELSE 0
=============================================================================
