-------------------------- MODULE Contracts_proofs --------------------------
(***************************************************************************)
(* Theorems about Contracts: what the library's and its scripts' functions  *)
(* compute, for all inputs that the assumptions allow, of any size.         *)
(***************************************************************************)
EXTENDS Contracts, WellFoundedInduction, SequenceTheorems, TLAPS

\* A call that was made has the result of its function.
Answered ==
  \/ call = NotCalled
  \/ \E i \in Reports :
       /\ call = [function |-> "report", input |-> i]
       /\ result = [line     |-> emit_event(i.event),
                    envelope |-> IF emit_event(i.event).kind = "raised" THEN emit_event(i.event)
                                 ELSE prepare(i.event, i.clock, i.id, i.span)]
  \/ \E s \in SinkSettings :
       /\ call = [function |-> "deliver", input |-> s]
       /\ result = [accepted |-> Accepted(s), sent |-> _post(s.url)]
  \/ \E i \in Setups :
       /\ call = [function |-> "setup", input |-> i]
       /\ result = configure(i.settings, i.provider)
  \/ \E headers \in HeaderLists :
       /\ call = [function |-> "receive", input |-> headers]
       /\ result = _safe_headers(headers)
  \/ \E d \in Dists :
       /\ call = [function |-> "verify", input |-> d]
       /\ result = verify(d.dist, d.version, d.skip)
  \/ \E f \in Sources :
       /\ call = [function |-> "validate", input |-> f]
       /\ result = validate(f.configuration, f.statement, f.module)

LEMMA AnsweredStep == Answered /\ [Next]_vars => Answered'
  <1> SUFFICES ASSUME Answered, [Next]_vars PROVE Answered'
    OBVIOUS
  <1>1. CASE UNCHANGED vars
    BY <1>1 DEF vars, Answered
  <1>2. ASSUME NEW i \in Reports, Report(i) PROVE Answered'
    BY <1>2 DEF Report, Evaluate, Answered
  <1>3. ASSUME NEW s \in SinkSettings, Deliver(s) PROVE Answered'
    BY <1>3 DEF Deliver, Evaluate, Answered
  <1>4. ASSUME NEW i \in Setups, SetUp(i) PROVE Answered'
    BY <1>4 DEF SetUp, Evaluate, Answered
  <1>5. ASSUME NEW headers \in HeaderLists, Receive(headers) PROVE Answered'
    BY <1>5 DEF Receive, Evaluate, Answered
  <1>6. ASSUME NEW d \in Dists, Verify(d) PROVE Answered'
    BY <1>6 DEF Verify, Evaluate, Answered
  <1>7. ASSUME NEW f \in Sources, Validate(f) PROVE Answered'
    BY <1>7 DEF Validate, Evaluate, Answered
  <1> QED
    BY <1>1, <1>2, <1>3, <1>4, <1>5, <1>6, <1>7 DEF Next

LEMMA AnsweredHolds == Spec => []Answered
  <1>1. Init => Answered
    BY DEF Init, Answered
  <1> QED
    BY <1>1, AnsweredStep, PTL DEF Spec

-----------------------------------------------------------------------------
(***************************************************************************)
(* Settings of the sink.                                                    *)
(***************************************************************************)

\* Whatever settings are accepted: a delivery goes to the agent, over TLS or on
\* this host, or is one of the exceptions that AcceptedReachesAgent names.
THEOREM DeliveriesReachTheAgent == Spec => []AcceptedReachesAgent
  <1>1. Answered => AcceptedReachesAgent
    <2> SUFFICES ASSUME Answered, Called("deliver"), result.accepted
                 PROVE  AcceptedReachesAgent
      BY DEF AcceptedReachesAgent
    <2>1. PICK s \in SinkSettings : /\ call = [function |-> "deliver", input |-> s]
                                    /\ result = [accepted |-> Accepted(s), sent |-> _post(s.url)]
      BY DEF Answered, Called
    <2>2. Transportable(s.url)
      BY <2>1 DEF Accepted
    <2>3. s.url.rest \in {"none", "empty"}
      BY <2>2, SinkAssumption DEF Transportable
    <2>4. s.url.scheme = "https" \/ s.url.host = "localhost"
      BY <2>2 DEF Transportable
    <2> QED
      BY <2>1, <2>3, <2>4 DEF AcceptedReachesAgent, _post, Made, Raised
  <1> QED
    BY <1>1, AnsweredHolds, PTL

-----------------------------------------------------------------------------
(***************************************************************************)
(* Built files.                                                             *)
(***************************************************************************)

\* Only conditions that all hold leave no error.
LEMMA NothingFails ==
  ASSUME NEW source, NEW conditions
  PROVE  Failing(source, conditions) = {} <=> \A topic \in DOMAIN conditions : conditions[topic]
  BY DEF Failing

LEMMA MetadataPass ==
  ASSUME NEW metadata \in AnyMetadata, NEW version, NEW source
  PROVE  check_common_metadata(metadata, version, source) = {} <=> Publishable(metadata, version)
  <1> DEFINE conditions == [Name              |-> metadata.name,
                            Version           |-> metadata.version = version,
                            LicenseExpression |-> metadata.license,
                            RequiresPython    |-> metadata.python,
                            ProvidesExtra     |-> EXPECTED_EXTRAS \subseteq metadata.extras]
  <1>1. DOMAIN conditions = {"Name", "Version", "LicenseExpression", "RequiresPython", "ProvidesExtra"}
    OBVIOUS
  <1>2. conditions["Version"] = (metadata.version = version)
    OBVIOUS
  <1>3. conditions["ProvidesExtra"] = (EXPECTED_EXTRAS \subseteq metadata.extras)
    OBVIOUS
  <1>4. /\ conditions["Name"] = metadata.name
        /\ conditions["LicenseExpression"] = metadata.license
        /\ conditions["RequiresPython"] = metadata.python
    OBVIOUS
  <1>5. check_common_metadata(metadata, version, source) = Failing(source, conditions)
    BY DEF check_common_metadata
  <1> HIDE DEF conditions
  <1> QED
    BY <1>1, <1>2, <1>3, <1>4, <1>5, NothingFails DEF Publishable

LEMMA WheelPasses ==
  ASSUME NEW wheel \in AnyWheel, NEW version
  PROVE  inspect_wheel(wheel, version) = {} <=>
           /\ wheel.entries = {"modules"} /\ wheel.dist_infos = 1 /\ wheel.description
           /\ Publishable(wheel.metadata, version)
  <1>1. wheel.metadata \in AnyMetadata
    BY DEF AnyWheel
  <1>2. Failing("wheel", [modules |-> "modules" \in wheel.entries]) = {} <=> "modules" \in wheel.entries
    <2> DEFINE conditions == [modules |-> "modules" \in wheel.entries]
    <2>1. DOMAIN conditions = {"modules"}
      OBVIOUS
    <2>2. conditions["modules"] = ("modules" \in wheel.entries)
      OBVIOUS
    <2> QED
      BY <2>1, <2>2, NothingFails
  <1>3. Failing("wheel", [description |-> wheel.description]) = {} <=> wheel.description
    BY NothingFails
  <1>4. "modules" \in wheel.entries <=> wheel.entries = {"modules"}
    BY DEF AnyWheel
  <1>5. check_common_metadata(wheel.metadata, version, "wheel") = {} <=> Publishable(wheel.metadata, version)
    BY <1>1, MetadataPass
  <1>6. CASE wheel.dist_infos = 1
    BY <1>2, <1>3, <1>4, <1>5, <1>6 DEF inspect_wheel
  <1>7. CASE wheel.dist_infos # 1
    BY <1>7 DEF inspect_wheel
  <1> QED
    BY <1>6, <1>7

LEMMA SDistPasses ==
  ASSUME NEW sdist \in AnySDist, NEW version
  PROVE  inspect_sdist(sdist, version) = {} <=>
           /\ sdist.entries = {"files", "modules"} /\ sdist.top_level_dirs = 1
           /\ sdist.pkg_info = "file"
           /\ Publishable(sdist.metadata, version)
  <1>1. sdist.metadata \in AnyMetadata
    BY DEF AnySDist
  <1>2. Failing("sdist", [files   |-> "files" \in sdist.entries,
                          modules |-> "modules" \in sdist.entries]) = {}
          <=> "files" \in sdist.entries /\ "modules" \in sdist.entries
    <2> DEFINE conditions == [files |-> "files" \in sdist.entries, modules |-> "modules" \in sdist.entries]
    <2>1. DOMAIN conditions = {"files", "modules"}
      OBVIOUS
    <2>2. conditions["files"] = ("files" \in sdist.entries)
      OBVIOUS
    <2>3. conditions["modules"] = ("modules" \in sdist.entries)
      OBVIOUS
    <2> QED
      BY <2>1, <2>2, <2>3, NothingFails
  <1>3. "files" \in sdist.entries /\ "modules" \in sdist.entries <=> sdist.entries = {"files", "modules"}
    BY DEF AnySDist
  <1>4. check_common_metadata(sdist.metadata, version, "sdist") = {} <=> Publishable(sdist.metadata, version)
    BY <1>1, MetadataPass
  <1>5. CASE sdist.top_level_dirs = 1 /\ sdist.pkg_info = "file"
    BY <1>2, <1>3, <1>4, <1>5 DEF inspect_sdist
  <1>6. CASE ~ (sdist.top_level_dirs = 1 /\ sdist.pkg_info = "file")
    BY <1>6 DEF inspect_sdist
  <1> QED
    BY <1>5, <1>6

\* No early end of an inspection hides what it did not look at: files pass just
\* when they are whole, of the version, and work.
THEOREM WholeFilesPass == Spec => []PassedIsComplete
  <1>1. Answered => PassedIsComplete
    <2> SUFFICES ASSUME Answered, Called("verify")
                 PROVE  PassedIsComplete
      BY DEF PassedIsComplete
    <2>1. PICK d \in Dists : /\ call = [function |-> "verify", input |-> d]
                             /\ result = verify(d.dist, d.version, d.skip)
      BY DEF Answered, Called
    <2>2. d.dist.wheels \in Seq(AnyWheel) /\ d.dist.sdists \in Seq(AnySDist) /\ d.skip \in BOOLEAN
      BY DistAssumption
    <2>3. Len(d.dist.wheels) = 1 => d.dist.wheels[1] \in AnyWheel
      BY <2>2, ElementOfSeq
    <2>4. Len(d.dist.sdists) = 1 => d.dist.sdists[1] \in AnySDist
      BY <2>2, ElementOfSeq
    <2>5. run_smoke_tests(d.dist.failures) = {} <=> \A s \in Scenarios : d.dist.failures[s] = "nothing"
      BY DEF run_smoke_tests
    <2>6. result = 0 <=>
            /\ Len(d.dist.wheels) = 1 /\ Len(d.dist.sdists) = 1
            /\ inspect_wheel(d.dist.wheels[1], d.version) = {}
            /\ inspect_sdist(d.dist.sdists[1], d.version) = {}
            /\ d.skip \/ \A s \in Scenarios : d.dist.failures[s] = "nothing"
      BY <2>1, <2>5 DEF verify
    <2> QED
      BY <2>1, <2>3, <2>4, <2>6, WheelPasses, SDistPasses DEF PassedIsComplete
  <1> QED
    BY <1>1, AnsweredHolds, PTL

-----------------------------------------------------------------------------
(***************************************************************************)
(* Imports.                                                                 *)
(***************************************************************************)

\* The module that a statement names by Python's rules, from what its dots leave
\* of the file's package.
Base(statement, module) ==
  IF statement.kind = "import" \/ statement.level = 0 THEN statement.path
  ELSE SubSeq(Front(module), 1, Len(Front(module)) + 1 - statement.level) \o statement.path

LEMMA FrontType ==
  ASSUME NEW S, NEW s \in Seq(S), NEW n \in Int, n <= Len(Front(s))
  PROVE  SubSeq(Front(s), 1, n) \in Seq(S)
  <1>1. Len(s) \in Nat /\ \A i \in 1 .. Len(s) - 1 : s[i] \in S
    BY LenProperties, ElementOfSeq
  <1>2. Front(s) \in Seq(S)
    BY <1>1, SubSeqProperties DEF Front
  <1>3. \A i \in 1 .. n : Front(s)[i] \in S
    BY <1>2, LenProperties, ElementOfSeq
  <1> QED
    BY <1>3, SubSeqProperties

\* The non-empty prefixes of a sequence begin as it does, and it is one.
LEMMA PrefixesBegin ==
  ASSUME NEW S, NEW s \in Seq(S)
  PROVE  /\ s \in Prefixes(s)
         /\ \A m \in Prefixes(s) \ {<<>>} :
              /\ m \in Seq(S)
              /\ Len(m) \in 1 .. Len(s)
              /\ \A i \in 1 .. Len(m) : m[i] = s[i]
  <1>1. Len(s) \in Nat /\ \A i \in 1 .. Len(s) : s[i] \in S
    BY LenProperties, ElementOfSeq
  <1>2. s \in Prefixes(s)
    <2>1. SubSeq(s, 1, Len(s)) = s
      BY SubSeqFull
    <2>2. Len(s) \in 0 .. Len(s)
      BY <1>1
    <2>3. SubSeq(s, 1, Len(s)) \in Prefixes(s)
      BY <2>2, Zenon DEF Prefixes
    <2> QED
      BY <2>1, <2>3
  <1>3. ASSUME NEW n \in 0 .. Len(s), SubSeq(s, 1, n) # <<>>
        PROVE  /\ SubSeq(s, 1, n) \in Seq(S)
               /\ Len(SubSeq(s, 1, n)) \in 1 .. Len(s)
               /\ \A i \in 1 .. Len(SubSeq(s, 1, n)) : SubSeq(s, 1, n)[i] = s[i]
    <2>1. n # 0
      BY <1>1, <1>3, SubSeqEmpty
    <2>2. /\ SubSeq(s, 1, n) \in Seq(S)
          /\ Len(SubSeq(s, 1, n)) = n
          /\ \A i \in 1 .. n : SubSeq(s, 1, n)[i] = s[i]
      <3>1. \A i \in 1 .. n : s[i] \in S
        BY <1>1
      <3>2. /\ SubSeq(s, 1, n) \in Seq(S)
            /\ Len(SubSeq(s, 1, n)) = IF 1 <= n THEN n - 1 + 1 ELSE 0
            /\ \A i \in 1 .. n - 1 + 1 : SubSeq(s, 1, n)[i] = s[1 + i - 1]
        BY <3>1, SubSeqProperties
      <3>3. n - 1 + 1 = n /\ 1 <= n /\ \A i \in 1 .. n : 1 + i - 1 = i
        BY <1>1, <2>1
      <3> QED
        BY <3>2, <3>3
    <2> QED
      BY <1>1, <2>1, <2>2
  <1> QED
    BY <1>2, <1>3 DEF Prefixes

\* The check resolves a statement to what Python does, and the imported name.
LEMMA ImportedName ==
  ASSUME NEW statement \in AnyStatement, statement.kind # "unparsable",
         NEW module \in Seq(STRING),
         ~ (statement.kind = "from" /\ statement.level > Len(Front(module)))
  PROVE  /\ Base(statement, module) \in Seq(STRING)
         /\ imported(statement, module) =
              IF statement.kind = "import" THEN Base(statement, module)
              ELSE Append(Base(statement, module), statement.name)
  <1>1. CASE statement.kind = "import"
    BY <1>1 DEF Base, imported, AnyStatement
  <1>2. CASE statement.kind = "from"
    <2> DEFINE package == Front(module)
    <2>1. statement.level \in Nat /\ statement.path \in Seq(STRING) /\ statement.name \in STRING
      BY <1>2 DEF AnyStatement
    <2>2. Len(package) \in Nat
      <3>1. SubSeq(package, 1, 0) \in Seq(STRING) /\ package \in Seq(STRING)
        <4>1. Len(module) \in Nat /\ \A i \in 1 .. Len(module) - 1 : module[i] \in STRING
          BY LenProperties, ElementOfSeq
        <4> QED
          BY <4>1, SubSeqProperties, SubSeqEmpty, EmptySeq DEF Front
      <3> QED
        BY <3>1, LenProperties
    <2>3. CASE statement.level = 0
      <3>1. Base(statement, module) = statement.path
        BY <1>2, <2>3 DEF Base
      <3>2. imported(statement, module) = (<<>> \o statement.path) \o <<statement.name>>
        BY <1>2, <2>3 DEF imported
      <3> QED
        BY <1>2, <2>1, <3>1, <3>2, ConcatEmptySeq, AppendIsConcat
    <2>4. CASE statement.level > 0
      <3> DEFINE left == SubSeq(package, 1, Len(package) + 1 - statement.level)
      <3>1. left \in Seq(STRING)
        BY <2>1, <2>2, <2>4, FrontType
      <3>2. Base(statement, module) = left \o statement.path
        <4>1. statement.kind # "import" /\ statement.level # 0
          BY <1>2, <2>1, <2>4
        <4> QED
          BY <4>1, Zenon DEF Base
      <3>3. Len(package) - (statement.level - 1) = Len(package) + 1 - statement.level
        BY <2>1, <2>2
      <3>4. imported(statement, module) = (left \o statement.path) \o <<statement.name>>
        BY <1>2, <2>4, <3>3 DEF imported
      <3> QED
        BY <1>2, <2>1, <3>1, <3>2, <3>4, ConcatProperties, AppendIsConcat
    <2> QED
      BY <2>1, <2>3, <2>4
  <1> QED
    BY <1>1, <1>2 DEF AnyStatement

\* A module that a file of an inner layer must not import.
Forbidden(module, m) ==
  \/ m[1] \in ForbiddenExternal[layer_for(module)]
  \/ Len(m) > 1 /\ m[1] = module[1] /\ m[2] \in FORBIDDEN_LOCAL[layer_for(module)]

\* Of what a statement imports, its name alone decides: the name of the first
\* package and that of the layer in it are those of what is imported.
LEMMA NameDecides ==
  ASSUME NEW statement \in AnyStatement, statement.kind # "unparsable",
         NEW module \in Seq(STRING),
         layer_for(module) \in DOMAIN FORBIDDEN_LOCAL,
         {<<module[1], layer>> : layer \in LAYERS} \subseteq KnownModules,
         Imports(statement, module) \ {<<>>} # {}
  PROVE  Forbidden(module, imported(statement, module)) <=>
           \E m \in Imports(statement, module) \ {<<>>} : Forbidden(module, m)
  <1> DEFINE base == Base(statement, module)
             name == imported(statement, module)
             imports == Imports(statement, module) \ {<<>>}
             layer == layer_for(module)
  <1>1. /\ ~ (statement.kind = "from" /\ statement.level > Len(Front(module)))
        /\ Imports(statement, module) =
             Prefixes(base) \cup
               IF statement.kind = "from" THEN {Append(base, statement.name)} \cap KnownModules
               ELSE {}
    <2>1. Imports(statement, module) =
            IF \/ base \notin KnownModules
               \/ statement.kind = "from" /\ statement.level > Len(Front(module))
            THEN {}
            ELSE Prefixes(base) \cup
                   IF statement.kind = "from" THEN {Append(base, statement.name)} \cap KnownModules
                   ELSE {}
      BY Zenon DEF Imports, Base
    <2> QED
      BY <2>1
  <1>2. /\ base \in Seq(STRING)
        /\ name = IF statement.kind = "import" THEN base ELSE Append(base, statement.name)
    BY <1>1, ImportedName
  <1>3. /\ base \in Prefixes(base)
        /\ \A m \in Prefixes(base) \ {<<>>} :
             /\ m \in Seq(STRING)
             /\ Len(m) \in 1 .. Len(base)
             /\ \A i \in 1 .. Len(m) : m[i] = base[i]
    BY <1>2, PrefixesBegin
  <1>4. statement.kind = "from" => statement.name \in STRING
    BY DEF AnyStatement
  <1>5. Len(base) \in Nat /\ (base # <<>> => Len(base) >= 1) /\ (base = <<>> => Len(base) = 0)
    BY <1>2, EmptySeq, LenProperties
  <1>6. statement.kind \in {"import", "from"}
    BY DEF AnyStatement
  <1>7. statement.kind = "from" =>
          /\ Len(name) = Len(base) + 1 /\ name # <<>>
          /\ name[Len(base) + 1] = statement.name
          /\ \A i \in 1 .. Len(base) : name[i] = base[i]
    BY <1>2, <1>4, AppendProperties
  <1>8. /\ Len(base) <= Len(name) /\ Len(name) \in Nat
        /\ \A i \in 1 .. Len(base) : name[i] = base[i]
    BY <1>2, <1>5, <1>6, <1>7
  <1> HIDE DEF base, name
  <1>9. ASSUME NEW m \in imports, Forbidden(module, m)
        PROVE  Forbidden(module, name)
    <2>1. CASE m \in Prefixes(base)
      <3>1. Len(m) \in 1 .. Len(base) /\ \A i \in 1 .. Len(m) : m[i] = base[i]
        BY <1>3, <2>1
      <3>2. m[1] = name[1] /\ (Len(m) > 1 => Len(name) > 1 /\ m[2] = name[2])
        BY <1>5, <1>8, <3>1
      <3> QED
        BY <1>9, <3>2 DEF Forbidden
    <2>2. CASE m \notin Prefixes(base)
      <3>1. m = name
        BY <1>1, <1>2, <2>2
      <3> QED
        BY <1>9, <3>1
    <2> QED
      BY <2>1, <2>2
  <1>10. ASSUME Forbidden(module, name)
         PROVE  \E m \in imports : Forbidden(module, m)
    <2>1. CASE statement.kind = "import"
      <3>1. name \in imports
        BY <1>1, <1>2, <1>3, <1>5, <2>1
      <3> QED
        BY <1>10, <3>1
    <2>2. CASE statement.kind = "from" /\ Len(base) = 0
      <3>1. Prefixes(base) \ {<<>>} = {}
        BY <1>3, <2>2
      <3>2. name \in imports
        BY <1>1, <1>2, <1>7, <2>2, <3>1
      <3> QED
        BY <1>10, <3>2
    <2>3. CASE statement.kind = "from" /\ Len(base) = 1
      <3>1. base \in imports /\ name[1] = base[1] /\ Len(name) = 2
        BY <1>1, <1>3, <1>5, <1>7, <2>3
      <3>2. CASE name[1] \in ForbiddenExternal[layer]
        BY <3>1, <3>2 DEF Forbidden
      <3>3. CASE name[1] = module[1] /\ name[2] \in FORBIDDEN_LOCAL[layer]
        <4>1. name[2] \in LAYERS
          BY <3>3 DEF FORBIDDEN_LOCAL, LAYERS
        <4>2. name = <<name[1], name[2]>>
          <5>1. name \in Seq(STRING)
            BY <1>2, <1>4, <1>6, AppendProperties
          <5> QED
            BY <3>1, <5>1
        <4>3. name \in KnownModules
          BY <3>3, <4>1, <4>2
        <4>4. name \in imports
          BY <1>1, <1>2, <1>7, <2>3, <4>3
        <4> QED
          BY <1>10, <4>4
      <3> QED
        BY <1>10, <3>2, <3>3 DEF Forbidden
    <2>4. CASE Len(base) > 1
      <3>1. base \in imports /\ name[1] = base[1] /\ name[2] = base[2]
        BY <1>1, <1>3, <1>5, <1>8, <2>4
      <3> QED
        BY <1>10, <2>4, <3>1 DEF Forbidden
    <2>5. Len(base) = 0 \/ Len(base) = 1 \/ Len(base) > 1
      <3>1. \A n \in Nat : n = 0 \/ n = 1 \/ n > 1
        OBVIOUS
      <3>2. Len(base) \in Nat
        BY <1>5
      <3> QED
        BY <3>1, <3>2, Zenon
    <2> QED
      BY <1>6, <2>1, <2>2, <2>3, <2>4, <2>5
  <1> QED
    BY <1>9, <1>10 DEF name

\* At any depth, the check refuses a statement of an inner layer that imports what
\* that layer must not, relative or absolute, and no other absolute one.
THEOREM ChecksFollowPython == Spec => []ImportsAreResolved
  <1>1. Answered => ImportsAreResolved
    <2> SUFFICES ASSUME Answered, Called("validate"), call.input.configuration = "on",
                        call.input.statement.kind # "unparsable",
                        Imports(call.input.statement, call.input.module) \ {<<>>} # {}
                 PROVE  result = 1 <=>
                          /\ layer_for(call.input.module) \in DOMAIN FORBIDDEN_LOCAL
                          /\ \E m \in Imports(call.input.statement, call.input.module) \ {<<>>} :
                               Forbidden(call.input.module, m)
      BY DEF ImportsAreResolved, Forbidden
    <2>1. PICK f \in Sources : /\ call = [function |-> "validate", input |-> f]
                               /\ result = validate(f.configuration, f.statement, f.module)
      BY DEF Answered, Called
    <2>2. result = IF validate_file(f.statement, f.module) = {} THEN 0 ELSE 1
      BY <2>1 DEF validate
    <2>3. CASE layer_for(f.module) \notin DOMAIN FORBIDDEN_LOCAL
      BY <2>1, <2>2, <2>3 DEF validate_file
    <2>4. CASE layer_for(f.module) \in DOMAIN FORBIDDEN_LOCAL
      <3>1. Len(f.module) > 2
        BY <2>4 DEF layer_for, FORBIDDEN_LOCAL
      <3>2. /\ f.statement \in AnyStatement /\ f.module \in Seq(STRING)
            /\ {<<f.module[1], layer>> : layer \in LAYERS} \subseteq KnownModules
        BY <3>1, SourceAssumption
      <3>3. validate_file(f.statement, f.module) # {} <=>
              Forbidden(f.module, imported(f.statement, f.module))
        BY <2>1, <2>4 DEF validate_file, Forbidden
      <3> QED
        BY <2>1, <2>2, <2>4, <3>2, <3>3, NameDecides
    <2> QED
      BY <2>3, <2>4
  <1> QED
    BY <1>1, AnsweredHolds, PTL

-----------------------------------------------------------------------------
(***************************************************************************)
(* Folds.  The prover has no induction principle that takes a predicate,    *)
(* so the least counterexample takes its place: induction is over a set of  *)
(* naturals.  A fold is the value of a function that is chosen by a         *)
(* recursive equation on sets of indices, so its equation is of use only    *)
(* once there is a function that solves it.                                 *)
(***************************************************************************)

LEMMA LeastNatural ==
  ASSUME NEW T, T \subseteq Nat, T # {}
  PROVE  \E x \in T : \A y \in T : x <= y
  <1>1. \A x, y \in Nat : x < y => <<x, y>> \in OpToRel(<, Nat)
    BY DEF OpToRel
  <1>2. PICK x \in T : \A y \in T : ~ (<<y, x>> \in OpToRel(<, Nat))
    BY NatLessThanWellFounded, WFMin
  <1>3. ASSUME NEW y \in T
        PROVE  ~ (y < x)
    BY <1>1, <1>2, Zenon
  <1>4. ASSUME NEW y \in T
        PROVE  x <= y
    <2>1. x \in Nat /\ y \in Nat
      OBVIOUS
    <2> QED
      BY <1>3, <2>1
  <1> QED
    BY <1>4

\* A set that holds 0 and with every number the next holds all of them.
LEMMA SetInduction ==
  ASSUME NEW S, 0 \in S, \A n \in Nat : n \in S => n + 1 \in S
  PROVE  Nat \subseteq S
  <1> SUFFICES ASSUME Nat \ S # {} PROVE FALSE
    OBVIOUS
  <1>1. PICK x \in Nat \ S : \A y \in Nat \ S : x <= y
    <2>1. Nat \ S \subseteq Nat
      OBVIOUS
    <2> QED
      BY <2>1, LeastNatural
  <1>2. x # 0 /\ x \in Nat
    BY <1>1
  <1>3. x - 1 \in Nat /\ (x - 1) + 1 = x /\ ~ (x <= x - 1)
    BY <1>2
  <1> QED
    BY <1>1, <1>2, <1>3

LEMMA MaxIs ==
  ASSUME NEW s, s \subseteq Nat, NEW k \in s, \A j \in s : j <= k
  PROVE  Max(s) = k
  <1>1. \A x \in s : (\A y \in s : x >= y) <=> x = k
    <2> SUFFICES ASSUME NEW x \in s
                 PROVE  (\A y \in s : x >= y) <=> x = k
      OBVIOUS
    <2>1. x \in Nat /\ k \in Nat /\ x <= k
      OBVIOUS
    <2>2. \A y \in s : y \in Nat /\ y <= k
      OBVIOUS
    <2> QED
      BY <2>1, <2>2
  <1>2. \A y \in s : k >= y
    BY <1>1
  <1> QED
    BY <1>1, <1>2 DEF Max

LEMMA MaxOfIndices ==
  ASSUME NEW n \in Nat, NEW s \in SUBSET (1 .. n), s # {}
  PROVE  Max(s) \in s
  <1> DEFINE below == {k \in 0 .. n : n - k \in s}
  <1>1. PICK x \in s : TRUE
    OBVIOUS
  <1>2. n - x \in 0 .. n /\ n - (n - x) = x
    BY <1>1
  <1>3. below \subseteq Nat /\ n - x \in below
    BY <1>1, <1>2
  <1>4. PICK k \in below : \A j \in below : k <= j
    BY <1>3, LeastNatural
  <1>5. n - k \in s /\ k \in 0 .. n
    BY <1>4
  <1>6. ASSUME NEW y \in s
        PROVE  y <= n - k
    <2>1. y \in 1 .. n /\ n - y \in 0 .. n /\ n - (n - y) = y
      OBVIOUS
    <2>2. n - y \in below
      BY <2>1
    <2>3. k <= n - y
      BY <1>4, <2>2
    <2> QED
      BY <1>5, <2>1, <2>3
  <1>7. Max(s) = n - k
    <2>1. s \subseteq Nat
      OBVIOUS
    <2> DEFINE m == n - k
    <2>2. m \in s /\ \A j \in s : j <= m
      BY <1>5, <1>6
    <2>3. Max(s) = m
      <3> HIDE DEF m
      <3> QED
        BY <2>1, <2>2, MaxIs
    <2> QED
      BY <2>3
  <1> QED
    BY <1>5, <1>7

\* The functions that solve the equation of a fold over n elements, where F
\* takes what was made of the elements before one of them a step further.
Folds(T, base, n, F) ==
  {it \in [SUBSET (1 .. n) -> T] :
     \A s \in SUBSET (1 .. n) :
       it[s] = IF s = {} THEN base ELSE F[<<it[s \ {Max(s)}], Max(s)>>]}

\* There is one if the steps stay within T.
LEMMA FoldExists ==
  ASSUME NEW T, NEW base \in T, NEW n \in Nat, NEW F,
         \A t \in T, i \in 1 .. n : F[<<t, i>>] \in T
  PROVE  Folds(T, base, n, F) # {}
  <1> DEFINE Solvers(k) == Folds(T, base, k, F)
             Solved == {k \in Nat : k <= n => Solvers(k) # {}}
  <1>1. 0 \in Solved
    <2> DEFINE first == [s \in SUBSET (1 .. 0) |-> base]
    <2>1. SUBSET (1 .. 0) = {{}}
      OBVIOUS
    <2>2. first \in Solvers(0)
      BY <2>1 DEF Folds
    <2> QED
      BY <2>2
  <1>2. ASSUME NEW k \in Nat, k \in Solved
        PROVE  k + 1 \in Solved
    <2>1. ASSUME k + 1 <= n
          PROVE  Solvers(k + 1) # {}
      <3>1. k <= n
        BY <2>1
      <3>2. Solvers(k) # {}
        BY <1>2, <3>1
      <3>3. PICK it \in Solvers(k) : TRUE
        BY <3>2
      <3>4. /\ it \in [SUBSET (1 .. k) -> T]
            /\ \A s \in SUBSET (1 .. k) :
                 it[s] = IF s = {} THEN base ELSE F[<<it[s \ {Max(s)}], Max(s)>>]
        BY <3>3 DEF Folds
      <3> DEFINE next == [s \in SUBSET (1 .. k + 1) |->
                            IF k + 1 \in s THEN F[<<it[s \ {k + 1}], k + 1>>] ELSE it[s]]
      <3>5. ASSUME NEW s \in SUBSET (1 .. k + 1)
            PROVE  /\ next[s] \in T
                   /\ next[s] = IF s = {} THEN base ELSE F[<<next[s \ {Max(s)}], Max(s)>>]
        <4>1. CASE k + 1 \in s
          <5>1. Max(s) = k + 1
            <6>1. (\A j \in s : j <= k + 1) /\ s \subseteq Nat
              OBVIOUS
            <6> QED
              BY <4>1, <6>1, MaxIs
          <5>2. s \ {k + 1} \in SUBSET (1 .. k) /\ s \ {k + 1} \in SUBSET (1 .. k + 1)
            OBVIOUS
          <5>3. next[s \ {k + 1}] = it[s \ {k + 1}]
            BY <5>2
          <5>4. next[s] = F[<<it[s \ {k + 1}], k + 1>>]
            BY <4>1
          <5>5. it[s \ {k + 1}] \in T /\ k + 1 \in 1 .. n
            BY <2>1, <3>4, <5>2
          <5> QED
            BY <4>1, <5>1, <5>3, <5>4, <5>5
        <4>2. CASE k + 1 \notin s
          <5>1. s \in SUBSET (1 .. k)
            BY <4>2
          <5>2. next[s] = it[s] /\ it[s] \in T
            BY <3>4, <4>2, <5>1
          <5>3. s \ {Max(s)} \in SUBSET (1 .. k) /\ s \ {Max(s)} \in SUBSET (1 .. k + 1)
            BY <5>1
          <5>4. next[s \ {Max(s)}] = it[s \ {Max(s)}]
            BY <4>2, <5>3
          <5> QED
            BY <3>4, <5>1, <5>2, <5>4
        <4> QED
          BY <4>1, <4>2
      <3>6. next \in Solvers(k + 1)
        BY <3>5 DEF Folds
      <3> QED
        BY <3>6
    <2> HIDE DEF Solvers
    <2> QED
      BY <2>1
  <1>3. n \in Solved
    <2> HIDE DEF Solved
    <2>1. Solved \subseteq Nat
      BY DEF Solved
    <2> QED
      BY <1>1, <1>2, <2>1, SetInduction
  <1>4. Solvers(n) # {}
    <2> HIDE DEF Solvers
    <2> QED
      BY <1>3
  <1> QED
    BY <1>4
LEMMA IntervalMax ==
  ASSUME NEW k \in Nat, k # 0
  PROVE  Max(1 .. k) = k /\ (1 .. k) \ {k} = 1 .. (k - 1)
  <1>1. (1 .. k) \subseteq Nat /\ k \in 1 .. k /\ \A j \in 1 .. k : j <= k
    OBVIOUS
  <1>2. Max(1 .. k) = k
    BY <1>1, MaxIs
  <1>3. (1 .. k) \ {k} = 1 .. (k - 1)
    OBVIOUS
  <1> QED
    BY <1>2, <1>3

\* The folds, as operators on the elements.
Taken(base, seq) == FoldLeft(Take, base, seq)

Admitted(base, seq) == FoldLeft(Admit, base, seq)

\* Taking headers one after the other.
TakeRun(base, seq) ==
  LET it == CHOOSE g :
               g = [s \in SUBSET (1 .. Len(seq)) |->
                      IF s = {} THEN base ELSE Take(g[s \ {Max(s)}], seq[Max(s)])]
  IN  [k \in 0 .. Len(seq) |-> it[1 .. k]]

LEMMA TakeUnrolls ==
  ASSUME NEW T, NEW base \in T, NEW seq, Len(seq) \in Nat, DOMAIN seq = 1 .. Len(seq),
         \A t \in T, i \in 1 .. Len(seq) : Take(t, seq[i]) \in T
  PROVE  /\ TakeRun(base, seq)[0] = base
         /\ \A k \in 1 .. Len(seq) : TakeRun(base, seq)[k] = Take(TakeRun(base, seq)[k - 1], seq[k])
         /\ Taken(base, seq) = TakeRun(base, seq)[Len(seq)]
  <1> DEFINE n == Len(seq)
             F == [p \in T \X (1 .. n) |-> Take(p[1], seq[p[2]])]
             Step(g) == [s \in SUBSET (1 .. n) |->
                            IF s = {} THEN base ELSE Take(g[s \ {Max(s)}], seq[Max(s)])]
             it == CHOOSE g : g = Step(g)
             c == [k \in 0 .. n |-> it[1 .. k]]
  <1>1. \A t \in T, i \in 1 .. n : F[<<t, i>>] = Take(t, seq[i]) /\ F[<<t, i>>] \in T
    OBVIOUS
  <1>2. PICK f \in Folds(T, base, n, F) : TRUE
    <2>1. \A t \in T, i \in 1 .. n : F[<<t, i>>] \in T
      BY <1>1
    <2>2. n \in Nat
      OBVIOUS
    <2> HIDE DEF F, n
    <2> QED
      BY <2>1, <2>2, FoldExists
  <1>3. /\ f \in [SUBSET (1 .. n) -> T]
        /\ \A s \in SUBSET (1 .. n) :
             f[s] = IF s = {} THEN base ELSE F[<<f[s \ {Max(s)}], Max(s)>>]
    BY <1>2 DEF Folds
  <1>4. ASSUME NEW s \in SUBSET (1 .. n)
        PROVE  f[s] = Step(f)[s]
    <2>1. CASE s = {}
      BY <1>3, <2>1
    <2>2. CASE s # {}
      <3>1. Max(s) \in 1 .. n
        BY <2>2, MaxOfIndices
      <3>2. s \ {Max(s)} \in SUBSET (1 .. n)
        OBVIOUS
      <3>3. f[s \ {Max(s)}] \in T
        BY <1>3, <3>2
      <3>4. F[<<f[s \ {Max(s)}], Max(s)>>] = Take(f[s \ {Max(s)}], seq[Max(s)])
        BY <1>1, <3>1, <3>3
      <3> QED
        BY <1>3, <2>2, <3>4
    <2> QED
      BY <2>1, <2>2
  <1>5. f = Step(f)
    BY <1>3, <1>4
  <1>6. it = Step(it)
    BY <1>5
  <1>7. \A s \in SUBSET (1 .. n) :
          it[s] = IF s = {} THEN base ELSE Take(it[s \ {Max(s)}], seq[Max(s)])
    <2> HIDE DEF it
    <2> QED
      BY <1>6
  <1> HIDE DEF it
  <1>8. c[0] = base
    <2>1. 1 .. 0 = {} /\ 0 \in 0 .. n
      OBVIOUS
    <2> QED
      BY <1>7, <2>1
  <1>9. ASSUME NEW k \in 1 .. n
        PROVE  c[k] = Take(c[k - 1], seq[k])
    <2>1. Max(1 .. k) = k /\ (1 .. k) \ {k} = 1 .. (k - 1)
      BY IntervalMax
    <2>2. k \in 1 .. k /\ k \in 0 .. n /\ k - 1 \in 0 .. n
      OBVIOUS
    <2>3. (1 .. k) \in SUBSET (1 .. n)
      OBVIOUS
    <2>4. c[k] = it[1 .. k] /\ c[k - 1] = it[1 .. (k - 1)]
      BY <2>2
    <2>5. it[1 .. k] = Take(it[(1 .. k) \ {Max(1 .. k)}], seq[Max(1 .. k)])
      BY <1>7, <2>2, <2>3
    <2> QED
      BY <2>1, <2>4, <2>5
  <1>10. Taken(base, seq) = c[n]
    <2>1. Taken(base, seq) = it[DOMAIN seq]
      BY DEF Taken, FoldLeft, MapThenFoldSet, it
    <2>2. n \in 0 .. n
      OBVIOUS
    <2> QED
      BY <2>1, <2>2
  <1>11. c = TakeRun(base, seq)
    BY DEF TakeRun, it
  <1> QED
    BY <1>8, <1>9, <1>10, <1>11

\* Admitting headers one after the other.
AdmitRun(base, seq) ==
  LET it == CHOOSE g :
               g = [s \in SUBSET (1 .. Len(seq)) |->
                      IF s = {} THEN base ELSE Admit(g[s \ {Max(s)}], seq[Max(s)])]
  IN  [k \in 0 .. Len(seq) |-> it[1 .. k]]

\* A run admits the elements in their order.
Admits(c, seq) == \A k \in 1 .. Len(seq) : c[k] = Admit(c[k - 1], seq[k])

LEMMA AdmitUnrolls ==
  ASSUME NEW T, NEW base \in T, NEW seq, Len(seq) \in Nat, DOMAIN seq = 1 .. Len(seq),
         \A t \in T, i \in 1 .. Len(seq) : Admit(t, seq[i]) \in T
  PROVE  /\ AdmitRun(base, seq)[0] = base
         /\ Admits(AdmitRun(base, seq), seq)
         /\ Admitted(base, seq) = AdmitRun(base, seq)[Len(seq)]
  <1> DEFINE n == Len(seq)
             F == [p \in T \X (1 .. n) |-> Admit(p[1], seq[p[2]])]
             Step(g) == [s \in SUBSET (1 .. n) |->
                            IF s = {} THEN base ELSE Admit(g[s \ {Max(s)}], seq[Max(s)])]
             it == CHOOSE g : g = Step(g)
             c == [k \in 0 .. n |-> it[1 .. k]]
  <1>1. \A t \in T, i \in 1 .. n : F[<<t, i>>] = Admit(t, seq[i]) /\ F[<<t, i>>] \in T
    OBVIOUS
  <1>2. PICK f \in Folds(T, base, n, F) : TRUE
    <2>1. \A t \in T, i \in 1 .. n : F[<<t, i>>] \in T
      BY <1>1
    <2>2. n \in Nat
      OBVIOUS
    <2> HIDE DEF F, n
    <2> QED
      BY <2>1, <2>2, FoldExists
  <1>3. /\ f \in [SUBSET (1 .. n) -> T]
        /\ \A s \in SUBSET (1 .. n) :
             f[s] = IF s = {} THEN base ELSE F[<<f[s \ {Max(s)}], Max(s)>>]
    BY <1>2 DEF Folds
  <1>4. ASSUME NEW s \in SUBSET (1 .. n)
        PROVE  f[s] = Step(f)[s]
    <2>1. CASE s = {}
      BY <1>3, <2>1
    <2>2. CASE s # {}
      <3>1. Max(s) \in 1 .. n
        BY <2>2, MaxOfIndices
      <3>2. s \ {Max(s)} \in SUBSET (1 .. n)
        OBVIOUS
      <3>3. f[s \ {Max(s)}] \in T
        BY <1>3, <3>2
      <3>4. F[<<f[s \ {Max(s)}], Max(s)>>] = Admit(f[s \ {Max(s)}], seq[Max(s)])
        BY <1>1, <3>1, <3>3
      <3> QED
        BY <1>3, <2>2, <3>4
    <2> QED
      BY <2>1, <2>2
  <1>5. f = Step(f)
    BY <1>3, <1>4
  <1>6. it = Step(it)
    BY <1>5
  <1>7. \A s \in SUBSET (1 .. n) :
          it[s] = IF s = {} THEN base ELSE Admit(it[s \ {Max(s)}], seq[Max(s)])
    <2> HIDE DEF it
    <2> QED
      BY <1>6
  <1> HIDE DEF it
  <1>8. c[0] = base
    <2>1. 1 .. 0 = {} /\ 0 \in 0 .. n
      OBVIOUS
    <2> QED
      BY <1>7, <2>1
  <1>9. ASSUME NEW k \in 1 .. n
        PROVE  c[k] = Admit(c[k - 1], seq[k])
    <2>1. Max(1 .. k) = k /\ (1 .. k) \ {k} = 1 .. (k - 1)
      BY IntervalMax
    <2>2. k \in 1 .. k /\ k \in 0 .. n /\ k - 1 \in 0 .. n
      OBVIOUS
    <2>3. (1 .. k) \in SUBSET (1 .. n)
      OBVIOUS
    <2>4. c[k] = it[1 .. k] /\ c[k - 1] = it[1 .. (k - 1)]
      BY <2>2
    <2>5. it[1 .. k] = Admit(it[(1 .. k) \ {Max(1 .. k)}], seq[Max(1 .. k)])
      BY <1>7, <2>2, <2>3
    <2> QED
      BY <2>1, <2>4, <2>5
  <1>10. Admitted(base, seq) = c[n]
    <2>1. Admitted(base, seq) = it[DOMAIN seq]
      BY DEF Admitted, FoldLeft, MapThenFoldSet, it
    <2>2. n \in 0 .. n
      OBVIOUS
    <2> QED
      BY <2>1, <2>2
  <1>11. c = AdmitRun(base, seq)
    BY DEF AdmitRun, it
  <1>12. Admits(c, seq)
    BY <1>9 DEF Admits
  <1> QED
    BY <1>8, <1>10, <1>11, <1>12

\* Adding up the lengths of headers one after the other.
SizeRun(seq) ==
  LET it == CHOOSE g :
               g = [s \in SUBSET (1 .. Len(seq)) |->
                      IF s = {} THEN 0 ELSE g[s \ {Max(s)}] + seq[Max(s)].name + seq[Max(s)].value]
  IN  [k \in 0 .. Len(seq) |-> it[1 .. k]]

LEMMA SizeUnrolls ==
  ASSUME NEW T, 0 \in T, NEW seq, Len(seq) \in Nat, DOMAIN seq = 1 .. Len(seq),
         \A t \in T, i \in 1 .. Len(seq) : t + seq[i].name + seq[i].value \in T
  PROVE  /\ SizeRun(seq)[0] = 0
         /\ \A k \in 1 .. Len(seq) : SizeRun(seq)[k] = SizeRun(seq)[k - 1] + seq[k].name + seq[k].value
         /\ Size(seq) = SizeRun(seq)[Len(seq)]
  <1> DEFINE n == Len(seq)
             F == [p \in T \X (1 .. n) |-> p[1] + seq[p[2]].name + seq[p[2]].value]
             Step(g) == [s \in SUBSET (1 .. n) |->
                            IF s = {} THEN 0 ELSE g[s \ {Max(s)}] + seq[Max(s)].name + seq[Max(s)].value]
             it == CHOOSE g : g = Step(g)
             c == [k \in 0 .. n |-> it[1 .. k]]
  <1>1. \A t \in T, i \in 1 .. n : F[<<t, i>>] = t + seq[i].name + seq[i].value /\ F[<<t, i>>] \in T
    OBVIOUS
  <1>2. PICK f \in Folds(T, 0, n, F) : TRUE
    <2>1. \A t \in T, i \in 1 .. n : F[<<t, i>>] \in T
      BY <1>1
    <2>2. n \in Nat
      OBVIOUS
    <2> HIDE DEF F, n
    <2> QED
      BY <2>1, <2>2, FoldExists
  <1>3. /\ f \in [SUBSET (1 .. n) -> T]
        /\ \A s \in SUBSET (1 .. n) :
             f[s] = IF s = {} THEN 0 ELSE F[<<f[s \ {Max(s)}], Max(s)>>]
    BY <1>2 DEF Folds
  <1>4. ASSUME NEW s \in SUBSET (1 .. n)
        PROVE  f[s] = Step(f)[s]
    <2>1. CASE s = {}
      BY <1>3, <2>1
    <2>2. CASE s # {}
      <3>1. Max(s) \in 1 .. n
        BY <2>2, MaxOfIndices
      <3>2. s \ {Max(s)} \in SUBSET (1 .. n)
        OBVIOUS
      <3>3. f[s \ {Max(s)}] \in T
        BY <1>3, <3>2
      <3>4. F[<<f[s \ {Max(s)}], Max(s)>>] = f[s \ {Max(s)}] + seq[Max(s)].name + seq[Max(s)].value
        BY <1>1, <3>1, <3>3
      <3> QED
        BY <1>3, <2>2, <3>4
    <2> QED
      BY <2>1, <2>2
  <1>5. f = Step(f)
    BY <1>3, <1>4
  <1>6. it = Step(it)
    BY <1>5
  <1>7. \A s \in SUBSET (1 .. n) :
          it[s] = IF s = {} THEN 0 ELSE it[s \ {Max(s)}] + seq[Max(s)].name + seq[Max(s)].value
    <2> HIDE DEF it
    <2> QED
      BY <1>6
  <1> HIDE DEF it
  <1>8. c[0] = 0
    <2>1. 1 .. 0 = {} /\ 0 \in 0 .. n
      OBVIOUS
    <2> QED
      BY <1>7, <2>1
  <1>9. ASSUME NEW k \in 1 .. n
        PROVE  c[k] = c[k - 1] + seq[k].name + seq[k].value
    <2>1. Max(1 .. k) = k /\ (1 .. k) \ {k} = 1 .. (k - 1)
      BY IntervalMax
    <2>2. k \in 1 .. k /\ k \in 0 .. n /\ k - 1 \in 0 .. n
      OBVIOUS
    <2>3. (1 .. k) \in SUBSET (1 .. n)
      OBVIOUS
    <2>4. c[k] = it[1 .. k] /\ c[k - 1] = it[1 .. (k - 1)]
      BY <2>2
    <2>5. it[1 .. k] = it[(1 .. k) \ {Max(1 .. k)}] + seq[Max(1 .. k)].name + seq[Max(1 .. k)].value
      BY <1>7, <2>2, <2>3
    <2> QED
      BY <2>1, <2>4, <2>5
  <1>10. Size(seq) = c[n]
    <2>1. Size(seq) = it[DOMAIN seq]
      BY DEF FoldLeft, MapThenFoldSet, it, Size
    <2>2. n \in 0 .. n
      OBVIOUS
    <2> QED
      BY <2>1, <2>2
  <1>11. c = SizeRun(seq)
    BY DEF SizeRun, it
  <1> QED
    BY <1>8, <1>9, <1>10, <1>11
-----------------------------------------------------------------------------
(***************************************************************************)
(* Carriers.                                                                *)
(***************************************************************************)

\* The items among the first k that can be read as one of a field.
SentOf(items, k, field) ==
  {j \in 1 .. k : Readable(items[j]) /\ Lower(items[j].name) = field}

LastOf(items, k, field) ==
  IF SentOf(items, k, field) = {} THEN Absent ELSE items[Max(SentOf(items, k, field))].value

LEMMA TakeLast ==
  ASSUME NEW items, NEW k \in Nat, NEW carrier, W3C \subseteq DOMAIN carrier,
         carrier = [field \in W3C |-> LastOf(items, k, field)]
  PROVE  Take(carrier, items[k + 1]) = [field \in W3C |-> LastOf(items, k + 1, field)]
  <1> DEFINE item == items[k + 1]
             new == Take(carrier, item)
  <1>1. DOMAIN new = W3C /\ new = [field \in W3C |-> new[field]]
    BY DEF Take
  <1>2. ASSUME NEW field \in W3C
        PROVE  new[field] = LastOf(items, k + 1, field)
    <2>1. CASE Readable(item) /\ Lower(item.name) = field
      <3>1. k + 1 \in SentOf(items, k + 1, field)
        BY <2>1 DEF SentOf
      <3>2. Max(SentOf(items, k + 1, field)) = k + 1
        <4>1. /\ SentOf(items, k + 1, field) \subseteq Nat
              /\ \A j \in SentOf(items, k + 1, field) : j <= k + 1
          BY DEF SentOf
        <4> QED
          BY <3>1, <4>1, MaxIs
      <3>3. new[field] = item.value
        BY <2>1 DEF Take
      <3> QED
        BY <3>1, <3>2, <3>3 DEF LastOf
    <2>2. CASE ~ (Readable(item) /\ Lower(item.name) = field)
      <3>1. SentOf(items, k + 1, field) = SentOf(items, k, field)
        <4>1. \A j \in 1 .. (k + 1) : j \in 1 .. k \/ j = k + 1
          OBVIOUS
        <4>2. \A j \in 1 .. k : j \in 1 .. (k + 1)
          OBVIOUS
        <4> QED
          BY <2>2, <4>1, <4>2 DEF SentOf
      <3>2. new[field] = carrier[field]
        BY <2>2 DEF Take
      <3> QED
        BY <3>1, <3>2 DEF LastOf
    <2> QED
      BY <2>1, <2>2
  <1> QED
    BY <1>1, <1>2

LEMMA TakenAreLast ==
  ASSUME NEW items, Len(items) \in Nat, DOMAIN items = 1 .. Len(items)
  PROVE  Taken([field \in W3C |-> Absent], items)
           = [field \in W3C |-> LastOf(items, Len(items), field)]
  <1> DEFINE n == Len(items)
             empty == [field \in W3C |-> Absent]
             T == [W3C -> {Absent} \cup {items[j].value : j \in 1 .. n}]
  <1>1. empty \in T
    OBVIOUS
  <1>2. ASSUME NEW t \in T, NEW i \in 1 .. n
        PROVE  Take(t, items[i]) \in T
    BY DEF Take
  <1>3. PICK c : /\ c[0] = empty
                 /\ \A k \in 1 .. n : c[k] = Take(c[k - 1], items[k])
                 /\ Taken(empty, items) = c[n]
    <2>1. \A t \in T, i \in 1 .. Len(items) : Take(t, items[i]) \in T
      BY <1>2
    <2> HIDE DEF T, empty
    <2> QED
      BY <1>1, <2>1, TakeUnrolls
  <1> DEFINE SoFar(k) == [field \in W3C |-> LastOf(items, k, field)]
             S == {k \in Nat : k <= n => c[k] = SoFar(k)}
  <1>4. 0 \in S
    <2>1. \A field : SentOf(items, 0, field) = {}
      BY DEF SentOf
    <2>2. SoFar(0) = empty
      BY <2>1 DEF LastOf
    <2> QED
      BY <1>3, <2>2
  <1>5. ASSUME NEW k \in Nat, k \in S
        PROVE  k + 1 \in S
    <2>1. ASSUME k + 1 <= n
          PROVE  c[k + 1] = SoFar(k + 1)
      <3>1. c[k] = SoFar(k)
        BY <1>5, <2>1
      <3>2. k + 1 \in 1 .. n /\ (k + 1) - 1 = k
        BY <2>1
      <3>3. c[k + 1] = Take(c[k], items[k + 1])
        BY <1>3, <3>2
      <3>4. DOMAIN c[k] = W3C
        BY <3>1
      <3> QED
        BY <3>1, <3>3, <3>4, TakeLast
    <2> HIDE DEF SoFar
    <2> QED
      BY <2>1
  <1>6. c[n] = SoFar(n)
    <2> HIDE DEF SoFar
    <2>1. n \in S
      <3> HIDE DEF S
      <3> QED
        BY <1>4, <1>5, SetInduction
    <2> QED
      BY <2>1
  <1> QED
    BY <1>3, <1>6

\* Of any list of headers, whatever its items are, a request continues
\* the context that was sent last (_safe_headers in adapters/mcp.py).
THEOREM RequestsContinueTheLastSent == Spec => []CarrierIsLastSent
  <1>1. Answered => CarrierIsLastSent
    <2> SUFFICES ASSUME Answered, Called("receive"), NEW field \in W3C
                 PROVE  LET items == call.input.items
                            sent == {j \in DOMAIN items :
                                       Readable(items[j]) /\ Lower(items[j].name) = field}
                        IN  result[field] = IF sent = {} \/ ~ call.input.list THEN Absent
                                            ELSE items[Max(sent)].value
      BY Zenon DEF CarrierIsLastSent
    <2>1. PICK headers \in HeaderLists :
            call = [function |-> "receive", input |-> headers] /\ result = _safe_headers(headers)
      BY DEF Answered, Called
    <2> DEFINE items == headers.items
    <2>2. call.input = headers
      BY <2>1
    <2>3. items \in Seq(ToSet(items))
      BY HeaderListAssumption
    <2>4. Len(items) \in Nat /\ DOMAIN items = 1 .. Len(items)
      BY <2>3, LenProperties
    <2>5. CASE headers.list
      <3>1. result = [f \in W3C |-> LastOf(items, Len(items), f)]
        BY <2>1, <2>4, <2>5, TakenAreLast DEF _safe_headers, Taken
      <3>2. {j \in DOMAIN items : Readable(items[j]) /\ Lower(items[j].name) = field}
              = SentOf(items, Len(items), field)
        BY <2>4 DEF SentOf
      <3> QED
        BY <2>2, <2>5, <3>1, <3>2 DEF LastOf
    <2>6. CASE ~ headers.list
      BY <2>1, <2>2, <2>6 DEF _safe_headers
    <2> QED
      BY <2>5, <2>6
  <1> QED
    BY <1>1, AnsweredHolds, PTL
-----------------------------------------------------------------------------
(***************************************************************************)
(* Headers of the exporter.                                                 *)
(***************************************************************************)

\* What the lengths of headers add up to, with the sum of the first k.
LEMMA SizeSums ==
  ASSUME NEW headers \in Seq(AnyHeader)
  PROVE  /\ SizeRun(headers) \in [0 .. Len(headers) -> Nat]
         /\ SizeRun(headers)[0] = 0
         /\ \A k \in 1 .. Len(headers) :
              SizeRun(headers)[k] = SizeRun(headers)[k - 1] + headers[k].name + headers[k].value
         /\ Size(headers) = SizeRun(headers)[Len(headers)]
  <1> DEFINE n == Len(headers)
             z == SizeRun(headers)
             S == {k \in Nat : k <= n => z[k] \in Nat}
  <1>1. n \in Nat /\ DOMAIN headers = 1 .. n
    BY LenProperties
  <1>2. ASSUME NEW i \in 1 .. n
        PROVE  headers[i].name \in Nat /\ headers[i].value \in Nat
    <2>1. headers[i] \in AnyHeader
      BY <1>1, ElementOfSeq
    <2> QED
      BY <2>1 DEF AnyHeader
  <1>3. \A t \in Nat, i \in 1 .. Len(headers) : t + headers[i].name + headers[i].value \in Nat
    BY <1>2
  <1>4. /\ z[0] = 0
        /\ \A k \in 1 .. n : z[k] = z[k - 1] + headers[k].name + headers[k].value
        /\ Size(headers) = z[n]
    BY <1>1, <1>3, SizeUnrolls
  <1>5. 0 \in S
    BY <1>4
  <1>6. ASSUME NEW k \in Nat, k \in S
        PROVE  k + 1 \in S
    <2>1. ASSUME k + 1 <= n
          PROVE  z[k + 1] \in Nat
      <3>1. z[k] \in Nat /\ k + 1 \in 1 .. n /\ (k + 1) - 1 = k
        BY <1>1, <1>6, <2>1
      <3> QED
        BY <1>2, <1>4, <3>1
    <2> QED
      BY <2>1
  <1>7. \A k \in 0 .. n : z[k] \in Nat
    <2>1. Nat \subseteq S
      <3> HIDE DEF S
      <3> QED
        BY <1>5, <1>6, SetInduction
    <2> QED
      BY <1>1, <2>1
  <1>8. z = [k \in 0 .. n |-> z[k]]
    BY DEF SizeRun
  <1> QED
    BY <1>4, <1>7, <1>8

LEMMA SizeIsNat ==
  ASSUME NEW headers \in Seq(AnyHeader)
  PROVE  Size(headers) \in Nat
  <1>1. Len(headers) \in Nat /\ Len(headers) \in 0 .. Len(headers)
    BY LenProperties
  <1> QED
    BY <1>1, SizeSums

\* What is admitted of the first k headers.
AdmittedOf(headers, k) ==
  IF (\A j \in 1 .. k : Acceptable(headers[j]))
     /\ SizeRun(headers)[k] <= _MAX_HEADERS_TOTAL_LENGTH
  THEN [headers |-> SubSeq(headers, 1, k), total |-> SizeRun(headers)[k]]
  ELSE Refused

LEMMA AdmitNext ==
  ASSUME NEW headers \in Seq(AnyHeader), NEW k \in Nat, k + 1 <= Len(headers)
  PROVE  Admit(AdmittedOf(headers, k), headers[k + 1]) = AdmittedOf(headers, k + 1)
  <1> DEFINE h == headers[k + 1]
             z == SizeRun(headers)
             all(m) == \A j \in 1 .. m : Acceptable(headers[j])
             admitted == [headers |-> SubSeq(headers, 1, k), total |-> z[k]]
  <1>1. Len(headers) \in Nat /\ k + 1 \in 1 .. Len(headers) /\ k \in 0 .. Len(headers)
        /\ k + 1 \in 0 .. Len(headers)
    BY LenProperties
  <1>2. h \in AnyHeader /\ h.name \in Nat /\ h.value \in Nat
    <2>1. h \in AnyHeader
      BY <1>1, ElementOfSeq
    <2> QED
      BY <2>1 DEF AnyHeader
  <1>3. z[k] \in Nat /\ z[k + 1] \in Nat /\ z[k + 1] = z[k] + h.name + h.value
    <2>1. (k + 1) - 1 = k
      OBVIOUS
    <2> QED
      BY <1>1, <2>1, SizeSums
  <1>4. all(k + 1) <=> (all(k) /\ Acceptable(h))
    <2>1. \A j \in 1 .. (k + 1) : j \in 1 .. k \/ j = k + 1
      OBVIOUS
    <2>2. k + 1 \in 1 .. (k + 1) /\ \A j \in 1 .. k : j \in 1 .. (k + 1)
      OBVIOUS
    <2> QED
      BY <2>1, <2>2
  <1>5. CASE ~ all(k) \/ ~ (z[k] <= _MAX_HEADERS_TOTAL_LENGTH)
    <2>1. AdmittedOf(headers, k) = Refused
      BY <1>5 DEF AdmittedOf
    <2>2. ~ all(k + 1) \/ ~ (z[k + 1] <= _MAX_HEADERS_TOTAL_LENGTH)
      BY <1>2, <1>3, <1>4, <1>5, HeaderAssumption
    <2>3. AdmittedOf(headers, k + 1) = Refused
      BY <2>2 DEF AdmittedOf
    <2> QED
      BY <2>1, <2>3 DEF Admit
  <1>6. CASE all(k) /\ z[k] <= _MAX_HEADERS_TOTAL_LENGTH
    <2>1. AdmittedOf(headers, k) = admitted
      BY <1>6 DEF AdmittedOf
    <2>2. SubSeq(headers, 1, k) \in Seq(AnyHeader)
      <3>1. \A i \in 1 .. k : i \in 1 .. Len(headers) /\ headers[i] \in AnyHeader
        BY <1>1, ElementOfSeq
      <3> QED
        BY <3>1, SubSeqProperties
    <2>3. admitted # Refused
      <3>1. admitted \in [headers : Seq(AnyHeader), total : Nat]
        BY <1>3, <2>2
      <3> QED
        BY <3>1, SetupAssumption
    <2>4. SubSeq(headers, 1, k + 1) = Append(SubSeq(headers, 1, k), h)
      <3>1. SubSeq(headers, 1, k + 1) = SubSeq(headers, 1, k) \o <<h>>
        <4>1. 1 \in 1 .. Len(headers) /\ k + 1 \in 1 .. Len(headers) /\ (k + 1) - 1 = k
          BY <1>1
        <4> QED
          BY <4>1, SubSeqRecursiveSecond
      <3> QED
        BY <1>2, <2>2, <3>1, AppendIsConcat
    <2>5. Admit(admitted, h)
            = IF ~ Acceptable(h) THEN Refused
              ELSE IF z[k] + h.name + h.value > _MAX_HEADERS_TOTAL_LENGTH THEN Refused
              ELSE [headers |-> Append(SubSeq(headers, 1, k), h), total |-> z[k] + h.name + h.value]
      BY <2>3 DEF Admit
    <2>6. CASE ~ Acceptable(h)
      BY <1>4, <2>1, <2>5, <2>6 DEF AdmittedOf
    <2>7. CASE Acceptable(h) /\ z[k + 1] > _MAX_HEADERS_TOTAL_LENGTH
      <3>1. ~ (z[k + 1] <= _MAX_HEADERS_TOTAL_LENGTH)
        BY <1>3, <2>7, HeaderAssumption
      <3> QED
        BY <1>3, <2>1, <2>5, <2>7, <3>1 DEF AdmittedOf
    <2>8. CASE Acceptable(h) /\ ~ (z[k + 1] > _MAX_HEADERS_TOTAL_LENGTH)
      <3>1. z[k + 1] <= _MAX_HEADERS_TOTAL_LENGTH /\ all(k + 1)
        BY <1>3, <1>4, <1>6, <2>8, HeaderAssumption
      <3> QED
        BY <1>3, <2>1, <2>4, <2>5, <2>8, <3>1 DEF AdmittedOf
    <2> QED
      BY <2>6, <2>7, <2>8
  <1> QED
    BY <1>5, <1>6
LEMMA AdmittedInAll ==
  ASSUME NEW headers \in Seq(AnyHeader)
  PROVE  Admitted([headers |-> <<>>, total |-> 0], headers)
           = AdmittedOf(headers, Len(headers))
  <1> DEFINE n == Len(headers)
             none == [headers |-> <<>>, total |-> 0]
             T == {Refused} \cup [headers : Seq(AnyHeader), total : Nat]
             S == {k \in Nat : k <= n => AdmitRun(none, headers)[k] = AdmittedOf(headers, k)}
  <1>1. n \in Nat /\ DOMAIN headers = 1 .. n
    BY LenProperties
  <1>2. none \in T
    BY EmptySeq
  <1>3. ASSUME NEW t \in T, NEW i \in 1 .. n
        PROVE  Admit(t, headers[i]) \in T
    <2>1. headers[i] \in AnyHeader
      BY <1>1, ElementOfSeq
    <2>2. CASE t = Refused
      BY <2>2 DEF Admit
    <2>3. CASE t \in [headers : Seq(AnyHeader), total : Nat]
      <3>1. Append(t.headers, headers[i]) \in Seq(AnyHeader)
        BY <2>1, <2>3, AppendProperties
      <3>2. t.total + headers[i].name + headers[i].value \in Nat
        BY <2>1, <2>3 DEF AnyHeader
      <3> QED
        BY <3>1, <3>2 DEF Admit
    <2> QED
      BY <2>2, <2>3
  <1>4. /\ AdmitRun(none, headers)[0] = none
        /\ \A k \in 1 .. n :
             AdmitRun(none, headers)[k] = Admit(AdmitRun(none, headers)[k - 1], headers[k])
        /\ Admitted(none, headers) = AdmitRun(none, headers)[n]
    <2>1. \A t \in T, i \in 1 .. Len(headers) : Admit(t, headers[i]) \in T
      BY <1>3
    <2>2. Len(headers) \in Nat /\ DOMAIN headers = 1 .. Len(headers)
      BY <1>1
    <2>3. none \in T
      BY <1>2
    <2> HIDE DEF T, none, n
    <2>4. AdmitRun(none, headers)[0] = none
      BY <2>1, <2>2, <2>3, AdmitUnrolls
    <2>5. Admits(AdmitRun(none, headers), headers)
      BY <2>1, <2>2, <2>3, AdmitUnrolls
    <2>6. Admitted(none, headers) = AdmitRun(none, headers)[Len(headers)]
      BY <2>1, <2>2, <2>3, AdmitUnrolls
    <2> QED
      BY <2>4, <2>5, <2>6 DEF n, Admits
  <1>5. 0 \in S
    <2>1. SizeRun(headers)[0] = 0 /\ SubSeq(headers, 1, 0) = <<>>
      BY SizeSums, SubSeqEmpty
    <2>2. AdmittedOf(headers, 0) = none
      BY <2>1, HeaderAssumption DEF AdmittedOf
    <2> QED
      BY <1>4, <2>2
  <1>6. ASSUME NEW k \in Nat, k \in S
        PROVE  k + 1 \in S
    <2>1. ASSUME k + 1 <= n
          PROVE  AdmitRun(none, headers)[k + 1] = AdmittedOf(headers, k + 1)
      <3>1. k <= n /\ k + 1 \in 1 .. n /\ (k + 1) - 1 = k
        BY <1>1, <2>1
      <3>2. AdmitRun(none, headers)[k] = AdmittedOf(headers, k)
        BY <1>6, <3>1
      <3>3. AdmitRun(none, headers)[k + 1] = Admit(AdmittedOf(headers, k), headers[k + 1])
        BY <1>4, <3>1, <3>2
      <3> QED
        BY <2>1, <3>3, AdmitNext
    <2> HIDE DEF none
    <2> QED
      BY <2>1
  <1>7. AdmitRun(none, headers)[n] = AdmittedOf(headers, n)
    <2>1. Nat \subseteq S
      <3> HIDE DEF S
      <3> QED
        BY <1>5, <1>6, SetInduction
    <2> HIDE DEF none
    <2> QED
      BY <1>1, <2>1
  <1> QED
    BY <1>4, <1>7

\* What the loop over the headers admits: all of them, or none.
LEMMA AllOrNone ==
  ASSUME NEW headers \in Seq(AnyHeader)
  PROVE  Admitted([headers |-> <<>>, total |-> 0], headers)
           = IF /\ \A j \in DOMAIN headers : Acceptable(headers[j])
                /\ Size(headers) <= _MAX_HEADERS_TOTAL_LENGTH
             THEN [headers |-> headers, total |-> Size(headers)]
             ELSE Refused
  <1>1. SubSeq(headers, 1, Len(headers)) = headers
    BY SubSeqFull
  <1>2. DOMAIN headers = 1 .. Len(headers)
    BY LenProperties
  <1>3. Size(headers) = SizeRun(headers)[Len(headers)]
    BY SizeSums
  <1> QED
    BY <1>1, <1>2, <1>3, AdmittedInAll DEF AdmittedOf

\* Whatever a provider gives, and however many headers, spans are
\* exported with all of them or not at all (_resolve_otlp_headers and
\* build_tracer_provider in adapters/tracing.py).
THEOREM SetupsAreWhole == Spec => []SetUpIsWhole
  <1>1. ASSUME NEW i \in Setups,
               call = [function |-> "setup", input |-> i],
               result = configure(i.settings, i.provider)
        PROVE  SetUpIsWhole
    <2> DEFINE settings == i.settings
               provider == i.provider
               h == provider.headers
               fits == /\ Len(h) <= _MAX_HEADER_COUNT
                       /\ \A j \in DOMAIN h : Acceptable(h[j])
                       /\ Size(h) <= _MAX_HEADERS_TOTAL_LENGTH
               resolved == _resolve_otlp_headers(provider)
    <2>1. call.input = i
      BY <1>1
    <2>2. /\ settings.enabled \in BOOLEAN
          /\ settings.endpoint \in {"http", "other", "missing"}
          /\ h \in Seq(AnyHeader)
          /\ NoHeaders # Refused
      BY SetupAssumption
    <2>3. Len(h) \in Nat /\ Size(h) \in Nat
      BY <2>2, LenProperties, SizeIsNat
    <2>4. resolved = IF provider.kind = "absent" THEN NoHeaders
                     ELSE IF provider.kind = "gives" /\ fits
                          THEN [headers |-> h, total |-> Size(h)]
                     ELSE Refused
      <3>1. Admitted([headers |-> <<>>, total |-> 0], h)
              = IF /\ \A j \in DOMAIN h : Acceptable(h[j])
                   /\ Size(h) <= _MAX_HEADERS_TOTAL_LENGTH
                THEN [headers |-> h, total |-> Size(h)]
                ELSE Refused
        BY <2>2, AllOrNone
      <3>2. Len(h) > _MAX_HEADER_COUNT <=> ~ (Len(h) <= _MAX_HEADER_COUNT)
        BY <2>3, HeaderAssumption
      <3> QED
        BY <3>1, <3>2 DEF _resolve_otlp_headers, Admitted
    <2>5. [headers |-> h, total |-> Size(h)] # Refused
      <3>1. [headers |-> h, total |-> Size(h)] \in [headers : Seq(AnyHeader), total : Nat]
        BY <2>2, <2>3
      <3> QED
        BY <3>1, SetupAssumption
    <2> HIDE DEF resolved
    <2>6. resolved # Refused <=> (provider.kind = "absent" \/ (provider.kind = "gives" /\ fits))
      BY <2>2, <2>4, <2>5
    <2>7. CASE Valid(settings) /\ settings.enabled
      <3>1. result.exports <=> resolved # Refused
        BY <1>1, <2>7 DEF configure, build_tracer_provider, resolved
      <3>2. result.headers = resolved
        BY <1>1, <2>7 DEF configure, build_tracer_provider, resolved
      <3>3. settings.endpoint = "http"
        BY <2>2, <2>7 DEF Valid
      <3>4. result.exports /\ provider.kind # "absent" => result.headers.headers = h
        BY <2>4, <2>6, <3>1, <3>2
      <3>5. result.exports /\ provider.kind = "absent" => result.headers = NoHeaders
        BY <2>4, <3>2
      <3> QED
        BY <2>1, <2>6, <2>7, <3>1, <3>3, <3>4, <3>5 DEF SetUpIsWhole
    <2>8. CASE ~ (Valid(settings) /\ settings.enabled)
      <3>1. result.exports = FALSE /\ result.asked = FALSE
        BY <1>1, <2>2, <2>8 DEF configure, build_tracer_provider
      <3> QED
        BY <2>1, <2>8, <3>1 DEF SetUpIsWhole
    <2> QED
      BY <2>7, <2>8
  <1>2. Answered => SetUpIsWhole
    <2>1. Called("setup") /\ Answered
            => \E i \in Setups :
                 /\ call = [function |-> "setup", input |-> i]
                 /\ result = configure(i.settings, i.provider)
      BY DEF Answered, Called
    <2>2. ~ Called("setup") => SetUpIsWhole
      BY DEF SetUpIsWhole
    <2> QED
      BY <1>1, <2>1, <2>2
  <1> QED
    BY <1>2, AnsweredHolds, PTL
-----------------------------------------------------------------------------
(***************************************************************************)
(* Events.                                                                  *)
(***************************************************************************)

LEMMA MinIs ==
  ASSUME NEW s, s \subseteq Nat, s # {}
  PROVE  Min(s) \in s
  BY LeastNatural DEF Min

\* What the sanitizer keeps.
Kept(attributes) ==
  {key \in DOMAIN attributes :
     /\ key \in DEFAULT_ALLOWED_ATTRIBUTE_KEYS
     /\ ~ is_sensitive_key(key)
     /\ Scalar(attributes[key])}

LEMMA SanitizedIs ==
  ASSUME NEW attributes
  PROVE  sanitize_attributes(attributes, {}) = [key \in Kept(attributes) |-> attributes[key]]
  BY DEF sanitize_attributes, RestrictDomain, Restrict, Kept

LEMMA SanitizedOnce ==
  ASSUME NEW attributes
  PROVE  sanitize_attributes(sanitize_attributes(attributes, {}), {})
           = sanitize_attributes(attributes, {})
  <1> DEFINE once == [key \in Kept(attributes) |-> attributes[key]]
  <1>1. Kept(once) = Kept(attributes)
    BY DEF Kept
  <1>2. [key \in Kept(once) |-> once[key]] = once
    BY <1>1
  <1> QED
    BY <1>2, SanitizedIs

\* The first of the checks that fails.
First(errors) == SelectInSeq(errors, LAMBDA e : e # Fine)

LEMMA FirstFails ==
  ASSUME NEW errors, Len(errors) \in Nat
  PROVE  /\ First(errors) = 0 => \A j \in 1 .. Len(errors) : errors[j] = Fine
         /\ First(errors) # 0 =>
              /\ First(errors) \in 1 .. Len(errors)
              /\ errors[First(errors)] # Fine
  <1> DEFINE failing == {j \in 1 .. Len(errors) : errors[j] # Fine}
  <1>1. First(errors) = IF failing # {} THEN Min(failing) ELSE 0
    BY DEF First, SelectInSeq
  <1>2. failing # {} => Min(failing) \in failing
    <2>1. failing \subseteq Nat
      OBVIOUS
    <2> QED
      BY <2>1, MinIs
  <1>3. 0 \notin failing
    OBVIOUS
  <1> QED
    BY <1>1, <1>2, <1>3

Payload(event, span) ==
  [key \in Common(span) \cup {k \in DOMAIN Found(event) : Found(event)[k] # None} |->
     IF key \in Common(span) THEN Value("str", 1) ELSE Written(key, Found(event)[key])]

LEMMA PrepareIs ==
  ASSUME NEW event, NEW clock, NEW id, NEW span
  PROVE  prepare(event, clock, id, span)
           = IF First(Errors(event, clock, id)) # 0
             THEN Raised(Errors(event, clock, id)[First(Errors(event, clock, id))])
             ELSE Made(Payload(event, span))
  BY DEF prepare, First, SelectInSeq, Payload

LEMMA OrderIs ==
  /\ Len(Order) = 9
  /\ DOMAIN Order = 1 .. 9
  /\ ToSet(Order) = {"component", "operation", "correlation_id", "request_id", "retry_count",
                     "duration_ms", "http_method", "http_status_code", "error_type"}
  <1>1. Len(Order) = 9 /\ DOMAIN Order = 1 .. 9
    BY DEF Order
  <1>2. \A i \in 1 .. 9 : i = 1 \/ i = 2 \/ i = 3 \/ i = 4 \/ i = 5 \/ i = 6 \/ i = 7 \/ i = 8 \/ i = 9
    OBVIOUS
  <1>3. /\ Order[1] = "component" /\ Order[2] = "operation" /\ Order[3] = "correlation_id"
        /\ Order[4] = "request_id" /\ Order[5] = "retry_count" /\ Order[6] = "duration_ms"
        /\ Order[7] = "http_method" /\ Order[8] = "http_status_code" /\ Order[9] = "error_type"
    BY DEF Order
  <1>4. \A i \in {1, 2, 3, 4, 5, 6, 7, 8, 9} : i \in 1 .. 9
    OBVIOUS
  <1> QED
    BY <1>1, <1>2, <1>3, <1>4 DEF ToSet

LEMMA IndexedIsSeq ==
  ASSUME NEW S, NEW n \in Nat, NEW f \in [1 .. n -> S]
  PROVE  f \in Seq(S) /\ Len(f) = n
  <1>1. f \in Seq(S)
    BY SeqDef
  <1>2. Len(f) \in Nat /\ DOMAIN f = 1 .. Len(f)
    BY <1>1, LenProperties
  <1>3. 1 .. Len(f) = 1 .. n
    BY <1>2
  <1> QED
    BY <1>1, <1>2, <1>3

\* The errors of an event: its checks', then its attributes'.
LEMMA ErrorsAre ==
  ASSUME NEW event, NEW clock, NEW id
  PROVE  /\ Len(Errors(event, clock, id)) = 12
         /\ \A j \in 1 .. 3 : Errors(event, clock, id)[j] \in {Fine, Contract}
         /\ \A j \in 4 .. 12 :
              Errors(event, clock, id)[j] = Put(Order[j - 3], Found(event)[Order[j - 3]])
  <1> DEFINE checks == <<Check(clock = "utc", Contract), Check(Canonical(id), Contract),
                         Check(Named(event.name), Contract)>>
             puts == [i \in DOMAIN Order |-> Put(Order[i], Found(event)[Order[i]])]
             All == {checks[i] : i \in 1 .. 3} \cup {puts[i] : i \in 1 .. 9}
  <1>1. checks \in Seq(All) /\ Len(checks) = 3
    <2>1. checks[1] \in All /\ checks[2] \in All /\ checks[3] \in All
      OBVIOUS
    <2> QED
      BY <2>1
  <1>2. puts \in Seq(All) /\ Len(puts) = 9
    <2>1. puts = [i \in 1 .. 9 |-> puts[i]]
      BY OrderIs
    <2>2. puts \in [1 .. 9 -> All]
      BY <2>1
    <2>3. 9 \in Nat
      OBVIOUS
    <2> HIDE DEF puts, All
    <2> QED
      BY <2>2, <2>3, IndexedIsSeq
  <1>3. Errors(event, clock, id) = checks \o puts
    BY DEF Errors
  <1>4. /\ Len(checks \o puts) = 12
        /\ \A j \in 1 .. 12 : (checks \o puts)[j] = IF j <= 3 THEN checks[j] ELSE puts[j - 3]
    <2> HIDE DEF checks, puts, All
    <2> QED
      <3>1. /\ Len(checks \o puts) = Len(checks) + Len(puts)
            /\ \A j \in 1 .. Len(checks) + Len(puts) :
                 (checks \o puts)[j] = IF j <= Len(checks) THEN checks[j]
                                       ELSE puts[j - Len(checks)]
        BY <1>1, <1>2, ConcatProperties
      <3>2. Len(checks) = 3 /\ Len(puts) = 9 /\ Len(checks) + Len(puts) = 12
        BY <1>1, <1>2
      <3> QED
        BY <3>1, <3>2
  <1>5. \A j \in 1 .. 3 : checks[j] \in {Fine, Contract}
    BY DEF Check
  <1>6. \A j \in 4 .. 12 : puts[j - 3] = Put(Order[j - 3], Found(event)[Order[j - 3]])
    BY OrderIs
  <1> HIDE DEF checks, puts
  <1>7. /\ \A j \in 1 .. 3 : j \in 1 .. 12 /\ j <= 3
        /\ \A j \in 4 .. 12 : j \in 1 .. 12 /\ ~ (j <= 3)
    OBVIOUS
  <1> QED
    BY <1>3, <1>4, <1>5, <1>6, <1>7
\* Values as reports hold them.
Readily(v) == v = [type |-> v.type, n |-> v.n] /\ (v.type = "str" => v.n \in Nat)

LEMMA FoundIs ==
  ASSUME NEW event, NEW key \in ToSet(Order),
         \A k \in DOMAIN event.attributes : Readily(event.attributes[k])
  PROVE  /\ DOMAIN Found(event) = ToSet(Order)
         /\ \/ Found(event)[key] = None
            \/ /\ Source(key) \in DOMAIN event.attributes
               /\ Found(event)[key] = event.attributes[Source(key)]
         /\ Readily(Found(event)[key])
         /\ Scalar(Found(event)[key])
  <1>1. Resanitized(event) = [k \in Kept(event.attributes) |-> event.attributes[k]]
    BY SanitizedIs DEF Resanitized
  <1>2. /\ DOMAIN Found(event) = ToSet(Order)
        /\ Found(event)[key] = IF Source(key) \in Kept(event.attributes)
                               THEN event.attributes[Source(key)] ELSE None
    BY <1>1 DEF Found
  <1>3. Readily(None) /\ Scalar(None)
    BY DEF None, Value, Readily, Scalar
  <1>4. CASE Source(key) \in Kept(event.attributes)
    <2>1. Source(key) \in DOMAIN event.attributes /\ Scalar(event.attributes[Source(key)])
      BY <1>4 DEF Kept
    <2> QED
      BY <1>2, <1>4, <2>1
  <1> QED
    BY <1>2, <1>3, <1>4

\* Which errors a put raises.
LEMMA PutRaises ==
  ASSUME NEW key, NEW v, Readily(v), Scalar(v)
  PROVE  \/ Put(key, v) \in {Fine, Contract}
         \/ Put(key, v) = "ValueError" /\ v = Value("str", 0)
         \/ Put(key, v) = "OverflowError" /\ key = "duration_ms" /\ v.type = "bigint"
  <1>1. v = [type |-> v.type, n |-> v.n]
    BY DEF Readily
  <1>2. Put(key, v) \in {Fine, _put_retry_count(v), _put_http_method(v), _put_http_status(v)}
        \/ (Put(key, v) = _put_duration(v) /\ key = "duration_ms")
        \/ Put(key, v) = _put_bounded(v)
    <2>1. CASE v = None
      BY <2>1 DEF Put
    <2>2. CASE v # None /\ key = "duration_ms"
      BY <2>2 DEF Put
    <2>3. CASE v # None /\ key \in {"retry_count", "http_method", "http_status_code"}
      BY <2>3 DEF Put
    <2>4. CASE v # None /\ key \notin {"duration_ms", "retry_count", "http_method", "http_status_code"}
      BY <2>4 DEF Put
    <2> QED
      BY <2>1, <2>2, <2>3, <2>4
  <1>3. {_put_retry_count(v), _put_http_method(v), _put_http_status(v)} \subseteq {Fine, Contract}
    BY DEF _put_retry_count, _put_http_method, _put_http_status, Check
  <1>4. _put_duration(v) \in {Fine, Contract}
        \/ (_put_duration(v) = "OverflowError" /\ v.type = "bigint")
    BY DEF _put_duration, Check
  <1>5. _put_bounded(v) \in {Fine, Contract}
        \/ (_put_bounded(v) = "ValueError" /\ v = Value("str", 0))
    <2>1. CASE v.type # "str"
      BY <2>1 DEF _put_bounded
    <2>2. CASE v.type = "str" /\ v.n \in 1 .. 256
      BY <2>2 DEF _put_bounded, _require_bounded_string, Check
    <2>3. CASE v.type = "str" /\ v.n \notin 1 .. 256
      <3>1. v.n \in Nat /\ v.n <= 256
        BY <2>3 DEF Readily, Scalar, MAX_ATTRIBUTE_STRING_LENGTH
      <3>2. v.n = 0
        BY <2>3, <3>1
      <3>3. v = Value("str", 0)
        BY <1>1, <2>3, <3>2 DEF Value
      <3> QED
        BY <2>3, <3>3 DEF _put_bounded, _require_bounded_string, Check
    <2> QED
      BY <2>1, <2>2, <2>3
  <1> QED
    BY <1>2, <1>3, <1>4, <1>5

\* What is put can be encoded.
LEMMA PutWrites ==
  ASSUME NEW key, NEW v, v # None, Put(key, v) = Fine
  PROVE  Written(key, v).type \in {"str", "int", "float"}
  <1>1. CASE key = "duration_ms"
    <2>1. _put_duration(v) = Fine
      BY <1>1 DEF Put
    <2>2. v.type \in {"int", "float"}
      BY <2>1 DEF _put_duration, Fine, Contract
    <2> QED
      BY <1>1, <2>2 DEF Written, Value
  <1>2. CASE key = "retry_count" \/ key = "http_status_code"
    <2>1. _put_retry_count(v) = Fine \/ _put_http_status(v) = Fine
      BY <1>2 DEF Put
    <2>2. v.type = "int"
      BY <2>1 DEF _put_retry_count, _put_http_status, Check, Fine, Contract
    <2> QED
      BY <1>2, <2>2 DEF Written
  <1>3. CASE key = "http_method"
    <2>1. _put_http_method(v) = Fine
      BY <1>3 DEF Put
    <2>2. v.type = "str"
      BY <2>1 DEF _put_http_method, Check, Fine, Contract
    <2> QED
      BY <1>3, <2>2 DEF Written
  <1>4. CASE key \notin {"duration_ms", "retry_count", "http_status_code", "http_method"}
    <2>1. _put_bounded(v) = Fine
      BY <1>4, Zenon DEF Put
    <2>2. v.type = "str"
      BY <2>1 DEF _put_bounded, Fine, Contract
    <2> QED
      BY <1>4, <2>2 DEF Written
  <1> QED
    BY <1>1, <1>2, <1>3, <1>4

CommonKeys ==
  {"schema_version", "source_schema_version", "event_id", "observed_at", "event_name",
   "event_outcome", "service", "environment", "version", "trace_id", "span_id"}

LEMMA CommonIs ==
  ASSUME NEW span
  PROVE  Common(span) \cap ToSet(Order) = {}
  <1>1. Common(span) \subseteq CommonKeys
    BY DEF Common, CommonKeys
  <1>2. CommonKeys \cap ToSet(Order) = {}
    BY OrderIs DEF CommonKeys
  <1> QED
    BY <1>1, <1>2

\* Reports as the assumptions allow them.
LEMMA ReportIs ==
  ASSUME NEW i \in Reports
  PROVE  /\ "attributes" \in DOMAIN i.event /\ "name" \in DOMAIN i.event
         /\ \A key \in DOMAIN i.event.attributes : Readily(i.event.attributes[key])
  BY ReportAssumption DEF AnyValue, Readily

\* An event in which no check finds anything has a payload that can be encoded.
LEMMA PayloadsEncode ==
  ASSUME NEW event, NEW clock, NEW id, NEW span,
         \A k \in DOMAIN event.attributes : Readily(event.attributes[k]),
         First(Errors(event, clock, id)) = 0
  PROVE  _encode_payload(Payload(event, span)).kind = "made"
  <1> DEFINE found == Found(event)
             payload == Payload(event, span)
  <1>1. DOMAIN found = ToSet(Order)
    BY DEF Found
  <1>2. ASSUME NEW key \in ToSet(Order), found[key] # None
        PROVE  Written(key, found[key]).type \in {"str", "int", "float"}
    <2>1. PICK j \in 1 .. 9 : key = Order[j]
      BY OrderIs DEF ToSet
    <2>2. j + 3 \in 4 .. 12 /\ (j + 3) - 3 = j /\ j + 3 \in 1 .. 12
      BY <2>1
    <2>3. Errors(event, clock, id)[j + 3] = Put(key, found[key])
      BY <2>1, <2>2, ErrorsAre
    <2>4. Errors(event, clock, id)[j + 3] = Fine
      <3> DEFINE errors == Errors(event, clock, id)
      <3>1. Len(errors) = 12
        BY ErrorsAre
      <3>2. First(errors) = 0 /\ Len(errors) \in Nat
        BY <3>1
      <3> HIDE DEF errors
      <3>3. \A m \in 1 .. Len(errors) : errors[m] = Fine
        BY <3>2, FirstFails
      <3>4. errors[j + 3] = Fine
        BY <2>2, <3>1, <3>3
      <3> QED
        BY <3>4 DEF errors
    <2> QED
      BY <1>2, <2>3, <2>4, PutWrites
  <1>3. ASSUME NEW key \in DOMAIN payload
        PROVE  payload[key].type \in {"str", "int", "float"}
    <2>1. CASE key \in Common(span)
      BY <2>1 DEF Payload, Value
    <2>2. CASE key \notin Common(span)
      <3>1. key \in ToSet(Order) /\ found[key] # None
        BY <1>1, <2>2 DEF Payload
      <3>2. payload[key] = Written(key, found[key])
        BY <2>2 DEF Payload
      <3> QED
        BY <1>2, <3>1, <3>2
    <2> QED
      BY <2>1, <2>2
  <1> HIDE DEF payload
  <1>4. ~ (\E key \in DOMAIN payload : payload[key].type \in {"nan", "inf", "other"})
    BY <1>3
  <1>5. _encode_payload(payload) = Made(payload)
    BY <1>4 DEF _encode_payload
  <1> QED
    BY <1>5 DEF Made, payload

\* What refuses an event that has been logged.
LEMMA EventsAreRefused ==
  ASSUME NEW event, NEW clock, NEW id,
         \A k \in DOMAIN event.attributes : Readily(event.attributes[k]),
         First(Errors(event, clock, id)) # 0
  PROVE  LET error == Errors(event, clock, id)[First(Errors(event, clock, id))]
             attributes == event.attributes
         IN  \/ error = Contract
             \/ /\ error = "ValueError"
                /\ \E key \in DOMAIN attributes : attributes[key] = Value("str", 0)
             \/ /\ error = "OverflowError"
                /\ "duration_ms" \in DOMAIN attributes
                /\ attributes["duration_ms"].type = "bigint"
  <1> DEFINE j == First(Errors(event, clock, id))
             error == Errors(event, clock, id)[j]
             attributes == event.attributes
  <1>1. j \in 1 .. 12 /\ error # Fine
    <2>1. Len(Errors(event, clock, id)) = 12
      BY ErrorsAre
    <2> QED
      BY <2>1, FirstFails
  <1>2. CASE j \in 1 .. 3
    BY <1>1, <1>2, ErrorsAre
  <1>3. CASE j \in 4 .. 12
    <2> DEFINE key == Order[j - 3]
               v == Found(event)[key]
    <2>1. error = Put(key, v)
      BY <1>3, ErrorsAre
    <2>2. key \in ToSet(Order)
      <3>1. j - 3 \in 1 .. 9
        BY <1>3
      <3> QED
        BY <3>1, OrderIs DEF ToSet
    <2>3. Readily(v) /\ Scalar(v)
      BY <2>2, FoundIs
    <2>4. v = None \/ (Source(key) \in DOMAIN attributes /\ v = attributes[Source(key)])
      BY <2>2, FoundIs
    <2>5. None # Value("str", 0) /\ None.type # "bigint"
      BY DEF None, Value
    <2>6. key = "duration_ms" => Source(key) = "duration_ms"
      BY DEF Source
    <2> HIDE DEF key, v
    <2>7. \/ Put(key, v) \in {Fine, Contract}
          \/ Put(key, v) = "ValueError" /\ v = Value("str", 0)
          \/ Put(key, v) = "OverflowError" /\ key = "duration_ms" /\ v.type = "bigint"
      BY <2>3, PutRaises
    <2>8. error \in {Fine, Contract}
          \/ (error = "ValueError" /\ v = Value("str", 0))
          \/ (error = "OverflowError" /\ key = "duration_ms" /\ v.type = "bigint")
      BY <2>1, <2>7
    <2> HIDE DEF error
    <2>9. CASE error \in {Fine, Contract}
      BY <1>1, <2>9 DEF error
    <2>10. CASE error = "ValueError" /\ v = Value("str", 0)
      BY <2>4, <2>5, <2>10 DEF error
    <2>11. CASE error = "OverflowError" /\ key = "duration_ms" /\ v.type = "bigint"
      BY <2>4, <2>5, <2>6, <2>11 DEF error
    <2> QED
      BY <2>8, <2>9, <2>10, <2>11
  <1>4. j \in 1 .. 3 \/ j \in 4 .. 12
    BY <1>1
  <1> QED
    BY <1>2, <1>3, <1>4

\* An envelope that was prepared can be encoded, and an event that the
\* library logs is refused with the contract's error, but for the two values
\* that raise another one, whatever its attributes are (prepare in
\* adapters/governance.py).
THEOREM EventsArePreparedOrRefused == Spec => []PreparedOrRefused
  <1>1. ASSUME NEW i \in Reports,
               call = [function |-> "report", input |-> i],
               result.envelope = prepare(i.event, i.clock, i.id, i.span)
        PROVE  PreparedOrRefused
    <2> DEFINE errors == Errors(i.event, i.clock, i.id)
               envelope == result.envelope
    <2>1. call.input = i
      BY <1>1
    <2>2. \A key \in DOMAIN i.event.attributes : Readily(i.event.attributes[key])
      BY ReportIs
    <2>3. CASE First(errors) = 0
      <3>1. envelope = Made(Payload(i.event, i.span))
        BY <1>1, <2>3, PrepareIs
      <3>2. envelope.kind = "made" /\ envelope.fields = Payload(i.event, i.span)
        BY <3>1 DEF Made
      <3>3. _encode_payload(envelope.fields).kind = "made"
        BY <2>2, <2>3, <3>2, PayloadsEncode
      <3> QED
        BY <3>2, <3>3 DEF PreparedOrRefused
    <2>4. CASE First(errors) # 0
      <3>1. envelope = Raised(errors[First(errors)])
        BY <1>1, <2>4, PrepareIs
      <3>2. envelope.kind = "raised" /\ envelope.error = errors[First(errors)]
        BY <3>1 DEF Raised
      <3> HIDE DEF envelope
      <3>3. \/ envelope.error = Contract
            \/ /\ envelope.error = "ValueError"
               /\ \E key \in DOMAIN i.event.attributes : i.event.attributes[key] = Value("str", 0)
            \/ /\ envelope.error = "OverflowError"
               /\ "duration_ms" \in DOMAIN i.event.attributes
               /\ i.event.attributes["duration_ms"].type = "bigint"
        BY <2>2, <2>4, <3>2, EventsAreRefused
      <3> QED
        BY <2>1, <3>2, <3>3 DEF PreparedOrRefused, envelope
    <2> QED
      BY <2>3, <2>4
  <1>2. Answered => PreparedOrRefused
    <2>1. Called("report") /\ result.line.kind = "made" /\ Answered
            => \E i \in Reports :
                 /\ call = [function |-> "report", input |-> i]
                 /\ result.envelope = prepare(i.event, i.clock, i.id, i.span)
      BY DEF Answered, Called
    <2>2. ~ (Called("report") /\ result.line.kind = "made") => PreparedOrRefused
      BY DEF PreparedOrRefused
    <2> QED
      BY <1>1, <2>1, <2>2
  <1> QED
    BY <1>2, AnsweredHolds, PTL

\* Preparing an event from its line.
LEMMA LineSuffices ==
  ASSUME NEW event, {"attributes", "name"} \subseteq DOMAIN event,
         NEW clock, NEW id, NEW span
  PROVE  prepare([event EXCEPT !.attributes = sanitize_attributes(event.attributes, {})],
                 clock, id, span)
           = prepare(event, clock, id, span)
  <1> DEFINE line == sanitize_attributes(event.attributes, {})
             logged == [event EXCEPT !.attributes = line]
  <1>1. logged.attributes = line /\ logged.name = event.name
    <2> HIDE DEF line
    <2> QED
      OBVIOUS
  <1>2. Resanitized(logged) = Resanitized(event)
    <2>1. Resanitized(logged) = sanitize_attributes(line, {})
      BY <1>1 DEF Resanitized
    <2> QED
      BY <2>1, SanitizedOnce DEF Resanitized
  <1> HIDE DEF logged
  <1>3. Found(logged) = Found(event)
    BY <1>2 DEF Found
  <1>4. Errors(logged, clock, id) = Errors(event, clock, id)
    BY <1>1, <1>3 DEF Errors
  <1>5. Payload(logged, span) = Payload(event, span)
    BY <1>3 DEF Payload
  <1>6. prepare(logged, clock, id, span) = prepare(event, clock, id, span)
    BY <1>4, <1>5, PrepareIs
  <1> QED
    BY <1>6 DEF logged

\* Whatever an application reports, the log line of an event decides
\* what its Governance envelope says (emit_event in entrypoints/observability.py
\* and prepare in adapters/governance.py).
THEOREM LinesDecideEnvelopes == Spec => []LineDecidesEnvelope
  <1>1. ASSUME NEW i \in Reports,
               call = [function |-> "report", input |-> i],
               result.line.kind = "made",
               result.line = emit_event(i.event),
               result.envelope = prepare(i.event, i.clock, i.id, i.span)
        PROVE  LineDecidesEnvelope
    <2> DEFINE line == result.line.fields
               envelope == result.envelope
               found == Found(i.event)
    <2>1. call.input = i
      BY <1>1
    <2>2. line = sanitize_attributes(i.event.attributes, {})
      BY <1>1 DEF emit_event, Made, Raised
    <2>3. {"attributes", "name"} \subseteq DOMAIN i.event
      BY ReportIs
    <2>4. envelope = prepare([i.event EXCEPT !.attributes = line], i.clock, i.id, i.span)
      <3>1. prepare([i.event EXCEPT !.attributes = sanitize_attributes(i.event.attributes, {})],
                    i.clock, i.id, i.span) = prepare(i.event, i.clock, i.id, i.span)
        BY <2>3, LineSuffices
      <3> QED
        BY <1>1, <2>2, <3>1
    <2>5. ASSUME envelope.kind = "made", NEW key \in ToSet(Order)
          PROVE  IF Source(key) \in DOMAIN line /\ line[Source(key)] # None
                 THEN /\ key \in DOMAIN envelope.fields
                      /\ envelope.fields[key].n = line[Source(key)].n
                 ELSE key \notin DOMAIN envelope.fields
      <3>1. envelope.fields = Payload(i.event, i.span)
        <4>1. envelope = Made(Payload(i.event, i.span))
          BY <1>1, <2>5, PrepareIs DEF Raised
        <4> QED
          BY <4>1 DEF Made
      <3>2. found[key] = IF Source(key) \in DOMAIN line THEN line[Source(key)] ELSE None
        BY <2>2 DEF Found, Resanitized
      <3>3. DOMAIN found = ToSet(Order)
        BY DEF Found
      <3>4. key \notin Common(i.span)
        BY CommonIs
      <3>5. CASE found[key] = None
        <4>1. key \notin DOMAIN envelope.fields
          BY <3>1, <3>4, <3>5 DEF Payload
        <4> QED
          BY <3>2, <3>5, <4>1
      <3>6. CASE found[key] # None
        <4>1. key \in DOMAIN envelope.fields /\ envelope.fields[key] = Written(key, found[key])
          BY <3>1, <3>3, <3>4, <3>6 DEF Payload
        <4>2. Written(key, found[key]).n = found[key].n
          BY DEF Written, Value
        <4>3. Source(key) \in DOMAIN line /\ found[key] = line[Source(key)]
          BY <3>2, <3>6
        <4> QED
          BY <3>6, <4>1, <4>2, <4>3
      <3> QED
        BY <3>5, <3>6
    <2> HIDE DEF line, envelope
    <2> QED
      BY <2>1, <2>4, <2>5 DEF LineDecidesEnvelope, line, envelope
  <1>2. Answered => LineDecidesEnvelope
    <2>1. Called("report") /\ result.line.kind = "made" /\ Answered
            => \E i \in Reports :
                 /\ call = [function |-> "report", input |-> i]
                 /\ result.line = emit_event(i.event)
                 /\ result.envelope = prepare(i.event, i.clock, i.id, i.span)
      BY DEF Answered, Called
    <2>2. ~ (Called("report") /\ result.line.kind = "made") => LineDecidesEnvelope
      BY DEF LineDecidesEnvelope
    <2> QED
      BY <1>1, <2>1, <2>2
  <1> QED
    BY <1>2, AnsweredHolds, PTL
=============================================================================
