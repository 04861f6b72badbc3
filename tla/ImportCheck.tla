----------------------------- MODULE ImportCheck -----------------------------
(***************************************************************************)
(* Which imports the layers of the library may make:                        *)
(* scripts/validate_architecture.py.  A module's name is a sequence, that   *)
(* of a package's initialiser with "__init__" at its end.  A statement is   *)
(* an import of a path or, with a level of dots, from one of a name; one    *)
(* that binds several names is one statement for each, as the check lists   *)
(* them.  "unparsable" is a file that cannot be read or parsed.             *)
(***************************************************************************)
EXTENDS Integers, SequencesExt

CONSTANTS
  ForbiddenExternal   \* the infrastructure packages, for each of the inner layers

LAYERS == {"domain", "application", "adapters", "entrypoints"}

FORBIDDEN_LOCAL ==
  [domain |-> {"application", "adapters", "entrypoints"}, application |-> {"adapters", "entrypoints"}]

ASSUME ExternalAssumption == DOMAIN ForbiddenExternal = DOMAIN FORBIDDEN_LOCAL

\* The layer of a file.  The last part of its path has a suffix and is none.
layer_for(module) ==
  IF Len(module) > 2 /\ module[2] \in LAYERS THEN module[2] ELSE "no layer"

\* Mutant of imported: every dot leaves a package, the first one, too.
importedHigher(statement, module) ==
  IF statement.kind = "import" THEN statement.path
  ELSE LET package == Front(module)
           retained == SubSeq(package, 1, Len(package) - statement.level)
       IN  (IF statement.level > 0 THEN retained ELSE <<>>) \o statement.path \o <<statement.name>>

\* imported_modules of one statement.  More dots than packages leave nothing.
imported(statement, module) ==
  IF statement.kind = "import" THEN statement.path
  ELSE LET package == Front(module)
           retained == SubSeq(package, 1, Len(package) - (statement.level - 1))
       IN  (IF statement.level > 0 THEN retained ELSE <<>>) \o statement.path \o <<statement.name>>

\* What validate_file finds in the statement of a file.
validate_file(statement, module) ==
  LET layer == layer_for(module)
      name  == imported(statement, module)
  IN  IF layer \notin DOMAIN FORBIDDEN_LOCAL THEN {}
      ELSE IF statement.kind = "unparsable" THEN {"cannot parse"}
      ELSE IF Len(name) > 1 /\ name[1] = module[1] /\ name[2] \in FORBIDDEN_LOCAL[layer]
      THEN {"local layer"}
      ELSE IF name[1] \in ForbiddenExternal[layer] THEN {"infrastructure"}
      ELSE {}

\* main with a configuration that does not read ("broken") or that has the
\* layers checked or not, and no boundaries: the exit status.
validate(configuration, statement, module) ==
  CASE configuration = "broken" -> 2
    [] configuration = "off"    -> 0
    [] OTHER                    -> IF validate_file(statement, module) = {} THEN 0 ELSE 1
=============================================================================
