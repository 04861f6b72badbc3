---------------------------- MODULE MCContracts ----------------------------
(***************************************************************************)
(* Inputs of Contracts for model checking: values at and around the limits  *)
(* of the code, every pair of attributes, and every list of up to three     *)
(* headers.                                                                 *)
(***************************************************************************)
EXTENDS Contracts

-----------------------------------------------------------------------------
(* Events. *)

Values ==
  {Value("int", n) : n \in {-1, 0, 1000, 1001, 99, 100, 599, 600}}
  \cup {Value("float", n) : n \in {-1, 86400000, 86400001}}
  \cup {Value("str", n) : n \in {0, 1, 16, 17, 256, 257}}
  \cup {None, Value("bool", 1), Value("bigint", 1), Value("nan", 0), Value("inf", 1000000000),
        Value("other", 0)}

SomeValues ==
  {None, Value("int", 100), Value("bigint", 1), Value("nan", 0), Value("str", 0),
   Value("str", 1), Value("str", 257), Value("other", 0)}

Keys == {"component", "request_id", "error.type", "retry_count", "duration_ms", "http.method",
         "http.status_code", "service", "api_key", "prompt"}

Event(name, outcome, attributes) == [name |-> name, outcome |-> outcome, attributes |-> attributes]

Name(size, form) == [size |-> size, form |-> form]

Plain == Name(1, "token")

MCReports ==
  {[event |-> Event(Plain, "success", a), clock |-> "utc", id |-> "canonical", span |-> TRUE] :
     a \in UNION {[{k} -> Values] : k \in Keys}
           \cup UNION {[{k, l} -> SomeValues] : k, l \in Keys}}
  \cup {[event |-> Event(name, outcome, "duration_ms" :> Value("int", 1)),
         clock |-> clock, id |-> id, span |-> span] :
     name \in {Name(0, "blank"), Name(1, "blank"), Plain, Name(200, "token"), Name(201, "token"),
               Name(1, "free")},
     outcome \in {"started", "another"}, clock \in {"utc", "naive", "offset"},
     id \in {"canonical", "nil", "variant", "text"}, span \in BOOLEAN}

Url(scheme, host, port, credentials, rest) ==
  [scheme |-> scheme, host |-> host, port |-> port, credentials |-> credentials, rest |-> rest]

Sink(url, agent_id, texts, timeout, max_attempts, backoff) ==
  [url |-> url, agent_id |-> agent_id, texts |-> texts, timeout |-> timeout,
   max_attempts |-> max_attempts, backoff |-> backoff]

MCSinkSettings ==
  {Sink(Url(scheme, host, port, credentials, rest), "canonical", {1, 256}, Value("float", 2000), 3,
        Value("float", 100)) :
     scheme \in {"http", "https", "other"}, host \in {"", "localhost", "remote"},
     port \in {"none", "valid", "unusable"}, credentials \in BOOLEAN,
     rest \in {"none", "empty", "given"}}
  \cup {Sink(Url("https", "remote", "none", FALSE, "none"), id, texts, timeout, attempts, backoff) :
     id \in {"canonical", "nil", "variant", "text"}, texts \in {{1}, {0, 1}, {1, 257}},
     timeout \in {Value("float", 0), Value("float", 10000), Value("float", 10001), Value("nan", 1)},
     attempts \in {0, 1, 5, 6},
     backoff \in {Value("float", -1), Value("float", 0), Value("float", 5001), Value("nan", 1)}}

-----------------------------------------------------------------------------
(* Setups, and headers of requests. *)

Header(name, value, flaw) == [name |-> name, value |-> value, flaw |-> flaw]

OTLPHeaders ==
  {Header(name, value, "none") : name \in {1, 2, 3}, value \in {0, 3, 4}}
  \cup {Header(1, 1, flaw) : flaw \in {"name", "value", "type"}}

Provider(kind, headers) == [kind |-> kind, headers |-> headers]

Providers ==
  {Provider(kind, <<>>) : kind \in {"absent", "raises", "no mapping", "unreadable"}}

Settings(names, endpoint, timeout, enabled) ==
  [names |-> names, endpoint |-> endpoint, timeout |-> timeout, enabled |-> enabled]

MCSetups ==
  {[settings |-> Settings("given", "http", "positive", enabled), provider |-> provider] :
     enabled \in BOOLEAN,
     provider \in Providers \cup {Provider("gives", h) : h \in SeqOf(OTLPHeaders, 3)}}
  \cup {[settings |-> Settings(names, endpoint, timeout, enabled), provider |-> provider] :
     names \in {"given", "blank"}, endpoint \in {"http", "other", "missing"},
     timeout \in {"positive", "zero", "negative", "nan"}, enabled \in BOOLEAN,
     provider \in Providers \cup {Provider("gives", <<Header(1, 1, "none")>>)}}

Item(name, value, pair) == [name |-> name, value |-> value, pair |-> pair]

Items ==
  {Item(name, value, TRUE) :
     name \in {"traceparent", "Traceparent", "tracestate", "TRACESTATE", "host", Undecodable},
     value \in {"v1", "v2", Undecodable}}
  \cup {Item("traceparent", "v1", FALSE)}

MCHeaderLists ==
  {[list |-> TRUE, items |-> items] : items \in SeqOf(Items, 3)} \cup {[list |-> FALSE, items |-> <<>>]}

-----------------------------------------------------------------------------
(* Built files. *)

Metadata(version) ==
  [name |-> TRUE, version |-> version, license |-> TRUE, python |-> TRUE, extras |-> EXPECTED_EXTRAS]

SomeMetadata ==
  {Metadata("0.6.0"), Metadata("0.5.0")}
  \cup {[Metadata("0.6.0") EXCEPT ![field] = FALSE] : field \in {"name", "license", "python"}}
  \cup {[Metadata("0.6.0") EXCEPT !.extras = {"a2a"}]}

Wheels ==
  [entries : {{}, {"modules"}}, dist_infos : 0 .. 2, metadata : SomeMetadata, description : BOOLEAN]

SDists ==
  [entries : SUBSET {"files", "modules"}, top_level_dirs : 0 .. 2,
   pkg_info : {"file", "directory", "missing"}, metadata : SomeMetadata]

GoodWheel ==
  [entries |-> {"modules"}, dist_infos |-> 1, metadata |-> Metadata("0.6.0"), description |-> TRUE]

GoodSDist ==
  [entries |-> {"files", "modules"}, top_level_dirs |-> 1, pkg_info |-> "file",
   metadata |-> Metadata("0.6.0")]

Working == [s \in Scenarios |-> "nothing"]

Dist(wheels, sdists, failures) == [wheels |-> wheels, sdists |-> sdists, failures |-> failures]

MCDists ==
  {[dist |-> Dist(<<wheel>>, <<sdist>>, Working), version |-> "0.6.0", skip |-> TRUE] :
     wheel \in Wheels, sdist \in SDists}
  \cup {[dist |-> Dist(wheels, sdists, failures), version |-> version, skip |-> skip] :
     wheels \in SeqOf({GoodWheel}, 2), sdists \in SeqOf({GoodSDist}, 2),
     failures \in [Scenarios -> {"nothing", "venv", "install", "import"}],
     version \in {"0.6.0", "0.5.0"}, skip \in BOOLEAN}

-----------------------------------------------------------------------------
(* Files and their imports. *)

MCForbiddenExternal == [domain |-> {"redis", "pydantic"}, application |-> {"redis"}]

MCKnownModules ==
  {<<"kit">>, <<"kit", "domain">>, <<"kit", "domain", "errors">>, <<"kit", "application">>,
   <<"kit", "application", "ports">>, <<"kit", "adapters">>, <<"kit", "adapters", "a2a">>,
   <<"kit", "entrypoints">>, <<"redis">>, <<"redis", "client">>, <<"pydantic">>, <<"json">>}

Modules ==
  {<<"kit", "__init__">>, <<"kit", "domain">>, <<"kit", "domain", "__init__">>,
   <<"kit", "domain", "errors">>, <<"kit", "domain", "deep", "inner">>,
   <<"kit", "application", "ports">>, <<"kit", "adapters", "a2a">>}

Statements ==
  {[kind |-> "import", path |-> path] : path \in MCKnownModules}
  \cup [kind : {"from"}, level : 1 .. 4,
        path : {<<>>} \cup MCKnownModules
               \cup {<<"domain">>, <<"adapters">>, <<"adapters", "a2a">>, <<"ports">>},
        name : {"*", "Name", "adapters", "application", "entrypoints", "domain", "a2a", "redis"}]
  \cup [kind : {"from"}, level : {0}, path : MCKnownModules,
        name : {"*", "Name", "adapters", "application", "domain", "a2a", "client"}]
  \cup {[kind |-> "unparsable"]}

MCSources ==
  [configuration : {"on"}, statement : Statements, module : Modules]
  \cup [configuration : {"off", "broken"}, statement : {[kind |-> "unparsable"]}, module : Modules]
=============================================================================
