---------------------------- MODULE EventContract ----------------------------
(***************************************************************************)
(* What becomes of a structured event: the sanitizer                        *)
(* (domain/attributes.py), the local log line of emit_event                 *)
(* (entrypoints/observability.py) and the Governance envelope of prepare,   *)
(* with the settings it is delivered under (adapters/governance.py).        *)
(*                                                                         *)
(* A value keeps what the code tells apart: its type and, of a string, the  *)
(* length, of a finite number, the number.  Integers beyond the range of    *)
(* floats are a type of their own, and so are NaN and the infinities.       *)
(***************************************************************************)
EXTENDS Integers, SequencesExt

CONSTANT SensitiveKeys   \* the keys in which the sensitive pattern finds something

Value(type, n) == [type |-> type, n |-> n]

None == Value("none", 0)

\* What an operation raised, or the fields it made.
Raised(error) == [kind |-> "raised", error |-> error]

Made(fields) == [kind |-> "made", fields |-> fields]

-----------------------------------------------------------------------------
(***************************************************************************)
(* The sanitizer and the local log line.  A name keeps its length and its   *)
(* form: "blank", only of the characters of _EVENT_NAME_PATTERN ("token"),  *)
(* or with others ("free").                                                 *)
(***************************************************************************)

DEFAULT_ALLOWED_ATTRIBUTE_KEYS ==
  {"service", "environment", "version", "component", "operation", "outcome", "correlation_id",
   "request_id", "retry_count", "duration_ms", "http.method", "http.status_code", "error.type"}

MAX_ATTRIBUTE_STRING_LENGTH == 256

is_sensitive_key(key) == key \in SensitiveKeys

Scalar(v) ==
  \/ v.type \in {"none", "bool", "int", "bigint", "float", "nan", "inf"}
  \/ v.type = "str" /\ v.n <= MAX_ATTRIBUTE_STRING_LENGTH

sanitize_attributes(attributes, extra) ==
  RestrictDomain(attributes, LAMBDA key :
    /\ key \in DEFAULT_ALLOWED_ATTRIBUTE_KEYS \cup extra
    /\ ~ is_sensitive_key(key)
    /\ Scalar(attributes[key]))

Outcomes == {"started", "success", "failure", "error"}

\* StructuredEvent.__post_init__ refuses the event.
Nameless(event) == event.name.form = "blank"

\* emit_event: the attributes of the line.
emit_event(event) ==
  IF event.outcome \notin Outcomes THEN Raised("ValueError")
  ELSE IF Nameless(event) THEN Raised("InvalidStructuredEventError")
  ELSE Made(sanitize_attributes(event.attributes, {}))

-----------------------------------------------------------------------------
(***************************************************************************)
(* The Governance envelope.                                                 *)
(***************************************************************************)

Contract == "GovernanceRuntimeTelemetryContractError"

Fine == "fine"

Check(good, error) == IF good THEN Fine ELSE error

Within(v, low, high) == low <= v.n /\ v.n <= high

_require_bounded_string(size) == Check(size \in 1 .. 256, "ValueError")

_put_bounded(v) == IF v.type = "str" THEN _require_bounded_string(v.n) ELSE Contract

_put_retry_count(v) == Check(v.type = "int" /\ Within(v, 0, 1000), Contract)

\* Mutant of _put_duration: refusing what is below or above the limits, and no more.
_put_compared(v) ==
  CASE v.type \in {"int", "float"} -> Check(Within(v, 0, 86400000), Contract)
    [] v.type = "bigint"           -> "OverflowError"
    [] OTHER                       -> Check(v.type = "nan", Contract)

_put_duration(v) ==
  CASE v.type \in {"int", "float"} -> Check(Within(v, 0, 86400000), Contract)
    [] v.type = "bigint"           -> "OverflowError"
    [] OTHER                       -> Contract

_put_http_method(v) == Check(v.type = "str" /\ Within(v, 1, 16), Contract)

_put_http_status(v) == Check(v.type = "int" /\ Within(v, 100, 599), Contract)

\* The payload's keys of the attributes, in the order in which they are put.
Order == <<"component", "operation", "correlation_id", "request_id", "retry_count",
           "duration_ms", "http_method", "http_status_code", "error_type">>

\* The attribute that is put under a key of the payload.
Source(key) ==
  CASE key = "http_method"      -> "http.method"
    [] key = "http_status_code" -> "http.status_code"
    [] key = "error_type"       -> "error.type"
    [] OTHER                    -> key

\* What putting v under a key raises.
Put(key, v) ==
  CASE v = None                 -> Fine
    [] key = "retry_count"      -> _put_retry_count(v)
    [] key = "duration_ms"      -> _put_duration(v)
    [] key = "http_method"      -> _put_http_method(v)
    [] key = "http_status_code" -> _put_http_status(v)
    [] OTHER                    -> _put_bounded(v)

\* What is put: durations become floats.
Written(key, v) == IF key = "duration_ms" /\ v.type = "int" THEN Value("float", v.n) ELSE v

\* An identifier is "canonical", "nil", "variant" (a UUID in another form) or "text".
Canonical(id) == id = "canonical"

Named(name) == name.size \in 1 .. 200 /\ name.form = "token"

\* The payload's keys of every event.
Common(span) ==
  {"schema_version", "source_schema_version", "event_id", "observed_at", "event_name",
   "event_outcome", "service", "environment", "version"}
  \cup IF span THEN {"trace_id", "span_id"} ELSE {}

\* Mutant of Resanitized: trusting the event's attributes.
Trusted(event) == event.attributes

Resanitized(event) == sanitize_attributes(event.attributes, {})

\* What the event holds for each of the payload's keys.
Found(event) ==
  LET attributes == Resanitized(event)
  IN  [key \in ToSet(Order) |->
         IF Source(key) \in DOMAIN attributes THEN attributes[Source(key)] ELSE None]

\* What each of the checks finds, in their order.
Errors(event, clock, id) ==
  <<Check(clock = "utc", Contract), Check(Canonical(id), Contract),
    Check(Named(event.name), Contract)>>
  \o [i \in DOMAIN Order |-> Put(Order[i], Found(event)[Order[i]])]

\* prepare, at a clock's answer, with an identifier, in a valid span or not: the
\* error of the first check that fails, or the payload.
prepare(event, clock, id, span) ==
  LET errors == Errors(event, clock, id)
      first == SelectInSeq(errors, LAMBDA e : e # Fine)
      found == Found(event)
  IN  IF first # 0 THEN Raised(errors[first])
      ELSE Made([key \in Common(span) \cup {k \in DOMAIN found : found[k] # None} |->
                   IF key \in Common(span) THEN Value("str", 1) ELSE Written(key, found[key])])

\* json.dumps of a payload, without NaN and the infinities.
_encode_payload(payload) ==
  IF \E key \in DOMAIN payload : payload[key].type \in {"nan", "inf", "other"}
  THEN Raised(Contract) ELSE Made(payload)

-----------------------------------------------------------------------------
(***************************************************************************)
(* The settings of the sink.  A URL keeps its scheme, its host ("" if there *)
(* is none), how its port reads, and whether it holds credentials and a "?" *)
(* or "#" with something ("given") or nothing ("empty") after it.           *)
(***************************************************************************)

\* parsed.netloc is not empty.
Absolute(url) == url.host # "" \/ url.port # "none" \/ url.credentials

\* Mutant of Transportable: the query and the fragment are not looked at.
TransportableWithQuery(url) ==
  /\ url.scheme \in {"http", "https"} /\ Absolute(url) /\ ~ url.credentials
  /\ url.scheme = "http" => url.host = "localhost"

Transportable(url) ==
  /\ url.scheme \in {"http", "https"} /\ Absolute(url) /\ ~ url.credentials
  /\ url.rest # "given"
  /\ url.scheme = "http" => url.host = "localhost"

\* GovernanceRuntimeTelemetrySettings.__post_init__, in milliseconds.
Accepted(settings) ==
  /\ Transportable(settings.url)
  /\ Canonical(settings.agent_id)
  /\ \A size \in settings.texts : _require_bounded_string(size) = Fine
  /\ settings.timeout.type # "nan" /\ Within(settings.timeout, 1, 10000)
  /\ settings.max_attempts \in 1 .. 5
  /\ settings.backoff.type # "nan" /\ Within(settings.backoff, 0, 5000)

\* _post to the endpoint that deliver appends to the URL: which connection it
\* makes, and whether the path it sends is the agent's.
_post(url) ==
  IF url.host = "" THEN Raised(Contract)
  ELSE IF url.port = "unusable" THEN Raised("ValueError")
  ELSE Made([tls |-> url.scheme = "https", agents |-> url.rest = "none"])
=============================================================================
