------------------------------ MODULE Contracts ------------------------------
(***************************************************************************)
(* One call of each of the pure functions of the library and of its         *)
(* scripts, on any of the inputs: a call and its result.                    *)
(***************************************************************************)
EXTENDS EventContract, ExporterSetup, CarrierHeaders, ArtifactCheck, ImportCheck, FiniteSetsExt

CONSTANTS
  Reports,        \* events, with a clock's answer, an identifier and whether a span is valid
  SinkSettings,   \* settings of the Governance sink
  Setups,         \* settings of the library, with a provider of OTLP headers
  HeaderLists,    \* ASGI headers
  Dists,          \* directories of built files, with the version and the flag of the check
  Sources,        \* files and their imports, with the configuration of the check
  KnownModules,   \* the modules that can be imported
  NotCalled

\* What the inputs are made of.
AnyValue == [type : STRING, n : Int]

AnyHeader == [name : Nat, value : Nat, flaw : STRING]

AnyMetadata ==
  [name : BOOLEAN, version : STRING, license : BOOLEAN, python : BOOLEAN, extras : SUBSET STRING]

AnyWheel ==
  [entries : SUBSET {"modules"}, dist_infos : Nat, metadata : AnyMetadata, description : BOOLEAN]

AnySDist ==
  [entries : SUBSET {"files", "modules"}, top_level_dirs : Nat, pkg_info : STRING,
   metadata : AnyMetadata]

AnyStatement ==
  [kind : {"import"}, path : Seq(STRING)]
  \cup [kind : {"from"}, level : Nat, path : Seq(STRING), name : STRING]
  \cup [kind : {"unparsable"}]

ASSUME ReportAssumption ==
  \A i \in Reports :
    /\ {"attributes", "name"} \subseteq DOMAIN i.event
    /\ \A key \in DOMAIN i.event.attributes :
         LET v == i.event.attributes[key]
         IN  v \in AnyValue /\ (v.type = "str" => v.n \in Nat)

ASSUME SinkAssumption == \A s \in SinkSettings : s.url.rest \in {"none", "empty", "given"}

ASSUME SetupAssumption ==
  /\ NoHeaders # Refused
  /\ Refused \notin [headers : Seq(AnyHeader), total : Nat]
  /\ \A i \in Setups :
       /\ i.settings.enabled \in BOOLEAN
       /\ i.settings.endpoint \in {"http", "other", "missing"}
       /\ i.provider.headers \in Seq(AnyHeader)

ASSUME HeaderListAssumption == \A h \in HeaderLists : h.items \in Seq(ToSet(h.items))

ASSUME DistAssumption ==
  \A d \in Dists :
    /\ d.skip \in BOOLEAN
    /\ d.dist.wheels \in Seq(AnyWheel) /\ d.dist.sdists \in Seq(AnySDist)

\* A package whose files are checked has all of the layers.
ASSUME SourceAssumption ==
  /\ KnownModules \subseteq Seq(STRING)
  /\ \A f \in Sources :
       /\ f.statement \in AnyStatement /\ f.module \in Seq(STRING)
       /\ Len(f.module) > 2 => {<<f.module[1], layer>> : layer \in LAYERS} \subseteq KnownModules

VARIABLES
  call,     \* which function is called with what
  result    \* what it makes of it

vars == <<call, result>>

Init ==
  /\ call = NotCalled
  /\ result = NotCalled

Evaluate(function, input, value) ==
  /\ call = NotCalled
  /\ call' = [function |-> function, input |-> input]
  /\ result' = value

\* An application reports an event locally and gives it to the Governance sink.
\* An event that cannot be made reaches neither.
Report(i) ==
  LET line == emit_event(i.event)
  IN  Evaluate("report", i,
        [line     |-> line,
         envelope |-> IF line.kind = "raised" THEN line
                      ELSE prepare(i.event, i.clock, i.id, i.span)])

\* It configures a sink and delivers an envelope.
Deliver(s) == Evaluate("deliver", s, [accepted |-> Accepted(s), sent |-> _post(s.url)])

SetUp(i) == Evaluate("setup", i, configure(i.settings, i.provider))

Receive(headers) == Evaluate("receive", headers, _safe_headers(headers))

Verify(d) == Evaluate("verify", d, verify(d.dist, d.version, d.skip))

Validate(f) == Evaluate("validate", f, validate(f.configuration, f.statement, f.module))

Next ==
  \/ \E i \in Reports : Report(i)
  \/ \E s \in SinkSettings : Deliver(s)
  \/ \E i \in Setups : SetUp(i)
  \/ \E headers \in HeaderLists : Receive(headers)
  \/ \E d \in Dists : Verify(d)
  \/ \E f \in Sources : Validate(f)

Spec == Init /\ [][Next]_vars

-----------------------------------------------------------------------------
(***************************************************************************)
(* Properties.                                                              *)
(***************************************************************************)

Called(function) == call # NotCalled /\ call.function = function

\* What the library logs of an event decides what Governance hears of it: an
\* attribute that the line drops neither is in the envelope nor has the event
\* refused, and what the envelope reports is what the line says
\* (docs/GOVERNANCE.md: the adapter applies the privacy boundary again).
LineDecidesEnvelope ==
  Called("report") /\ result.line.kind = "made" =>
    LET i == call.input
        line == result.line.fields
        envelope == result.envelope
    IN  /\ envelope = prepare([i.event EXCEPT !.attributes = line], i.clock, i.id, i.span)
        /\ envelope.kind = "made" =>
             \A key \in ToSet(Order) :
               IF Source(key) \in DOMAIN line /\ line[Source(key)] # None
               THEN /\ key \in DOMAIN envelope.fields
                    /\ envelope.fields[key].n = line[Source(key)].n
               ELSE key \notin DOMAIN envelope.fields

\* An envelope that was prepared can be encoded, so that a delivery cannot fail
\* after the credential has been asked for; an event is refused with the
\* contract's error, but for an empty string, which raises a ValueError, and a
\* duration beyond the floats, which raises an OverflowError.
PreparedOrRefused ==
  Called("report") /\ result.line.kind = "made" =>
    LET attributes == call.input.event.attributes
        envelope == result.envelope
    IN  /\ envelope.kind = "made" => _encode_payload(envelope.fields).kind = "made"
        /\ envelope.kind = "raised" =>
             \/ envelope.error = Contract
             \/ /\ envelope.error = "ValueError"
                /\ \E key \in DOMAIN attributes : attributes[key] = Value("str", 0)
             \/ /\ envelope.error = "OverflowError"
                /\ "duration_ms" \in DOMAIN attributes
                /\ attributes["duration_ms"].type = "bigint"

\* Settings that are accepted lead to the agent's own path, over TLS or on this
\* host.  The exceptions, which the settings accept and each delivery runs into,
\* are a URL without a host, one with an unusable port, and an empty query.
AcceptedReachesAgent ==
  Called("deliver") /\ result.accepted =>
    LET url == call.input.url
        sent == result.sent
    IN  \/ /\ sent.kind = "made"
           /\ sent.fields.agents
           /\ sent.fields.tls \/ url.host = "localhost"
        \/ url.host = "" /\ sent = Raised(Contract)
        \/ url.port = "unusable" /\ sent = Raised("ValueError")
        \/ url.rest = "empty" /\ ~ sent.fields.agents

Size(headers) == FoldLeft(LAMBDA n, h : n + h.name + h.value, 0, headers)

\* Spans are exported with all of the provider's headers or not at all, a setup
\* that fails has a reason, and without tracing no one is asked for credentials
\* (docs/adr/0005-setup-time-otlp-header-provider.md).
SetUpIsWhole ==
  Called("setup") =>
    LET settings == call.input.settings
        provider == call.input.provider
        fits == /\ Len(provider.headers) <= _MAX_HEADER_COUNT
                /\ \A j \in DOMAIN provider.headers : Acceptable(provider.headers[j])
                /\ Size(provider.headers) <= _MAX_HEADERS_TOTAL_LENGTH
    IN  /\ result.asked => settings.enabled
        /\ result.exports =>
             /\ settings.endpoint = "http"
             /\ IF provider.kind = "absent" THEN result.headers = NoHeaders
                ELSE result.headers.headers = provider.headers
        /\ settings.enabled /\ Valid(settings) =>
             (result.exports <=>
                \/ provider.kind = "absent"
                \/ provider.kind = "gives" /\ fits)

\* A request continues the context of the header that was added last, in either
\* case, whatever comes before or between: the one that the nearest sender put
\* there.  A field nobody can read is a field that was not sent.
CarrierIsLastSent ==
  Called("receive") =>
    \A field \in W3C :
      LET items == call.input.items
          sent == {j \in DOMAIN items : Readable(items[j]) /\ Lower(items[j].name) = field}
      IN  result[field] = IF sent = {} \/ ~ call.input.list THEN Absent ELSE items[Max(sent)].value

\* The metadata of an archive that may be published as a version.
Publishable(metadata, version) ==
  /\ metadata.name /\ metadata.license /\ metadata.python
  /\ metadata.version = version
  /\ EXPECTED_EXTRAS \subseteq metadata.extras

\* Files pass if and only if they are one whole wheel and one whole sdist of the
\* version, and every scenario works: no check that ends early hides what it
\* did not look at.
PassedIsComplete ==
  Called("verify") =>
    LET dist == call.input.dist
        version == call.input.version
    IN  result = 0 <=>
          /\ Len(dist.wheels) = 1 /\ Len(dist.sdists) = 1
          /\ LET wheel == dist.wheels[1]
                 sdist == dist.sdists[1]
             IN
               /\ wheel.entries = {"modules"} /\ wheel.dist_infos = 1 /\ wheel.description
               /\ Publishable(wheel.metadata, version)
               /\ sdist.entries = {"files", "modules"} /\ sdist.top_level_dirs = 1
               /\ sdist.pkg_info = "file"
               /\ Publishable(sdist.metadata, version)
          /\ call.input.skip \/ \A s \in Scenarios : dist.failures[s] = "nothing"

\* What a statement imports, by Python's rules; {} if it fails.
Imports(statement, module) ==
  LET package == Front(module)
      base == IF statement.kind = "import" \/ statement.level = 0 THEN statement.path
              ELSE SubSeq(package, 1, Len(package) + 1 - statement.level) \o statement.path
  IN  IF \/ base \notin KnownModules
         \/ statement.kind = "from" /\ statement.level > Len(package)
      THEN {}
      ELSE Prefixes(base) \cup
             IF statement.kind = "from" THEN {Append(base, statement.name)} \cap KnownModules ELSE {}

\* However a module of a layer further out, or one of the infrastructure, is
\* imported into an inner layer, by a relative import or an absolute one, the check
\* refuses the file; and it refuses no absolute import for another reason ("enforces
\* this direction", docs/ARCHITECTURE.md).  Of relative imports that stay inside,
\* which that document has prohibited and the code lets pass, nothing is said.
ImportsAreResolved ==
  Called("validate") /\ call.input.configuration = "on" /\ call.input.statement.kind # "unparsable" =>
    LET statement == call.input.statement
        module == call.input.module
        layer == layer_for(module)
        imports == Imports(statement, module) \ {<<>>}
        relative == statement.kind = "from" /\ statement.level > 0
        outward ==
          /\ layer \in DOMAIN FORBIDDEN_LOCAL
          /\ \E m \in imports :
               \/ m[1] \in ForbiddenExternal[layer]
               \/ Len(m) > 1 /\ m[1] = module[1] /\ m[2] \in FORBIDDEN_LOCAL[layer]
    IN  imports # {} =>
          /\ outward => result = 1
          /\ result = 1 => outward \/ relative
=============================================================================
