---------------------------- MODULE ExporterSetup ----------------------------
(***************************************************************************)
(* How tracing is set up: the validation of ObservabilitySettings           *)
(* (application/settings.py), the headers of the OTLP exporter and the      *)
(* tracer provider (adapters/tracing.py).                                   *)
(*                                                                         *)
(* A header keeps the lengths of its name and its value and what is wrong   *)
(* with them: "none", a name that is no token ("name"), a line break in the *)
(* value ("value"), or one of the two that is no string ("type").           *)
(***************************************************************************)
EXTENDS Integers, SequencesExt

CONSTANTS
  _MAX_HEADER_COUNT,
  _MAX_HEADER_NAME_LENGTH,
  _MAX_HEADER_VALUE_LENGTH,
  _MAX_HEADERS_TOTAL_LENGTH,
  NoHeaders,   \* a setup without headers of its own
  Refused      \* a setup that raises InvalidObservabilityConfigurationError

ASSUME HeaderAssumption ==
  /\ _MAX_HEADER_COUNT \in Nat
  /\ _MAX_HEADER_NAME_LENGTH \in Nat
  /\ _MAX_HEADER_VALUE_LENGTH \in Nat
  /\ _MAX_HEADERS_TOTAL_LENGTH \in Nat

\* The validators of ObservabilitySettings.  A timeout is "positive", "nan",
\* or not positive; an endpoint is "http", "other" or "missing".
Valid(settings) ==
  /\ settings.names = "given"
  /\ settings.endpoint # "other"
  /\ settings.timeout \in {"positive", "nan"}
  /\ settings.enabled => settings.endpoint # "missing"

Acceptable(header) ==
  /\ header.flaw = "none"
  /\ header.name <= _MAX_HEADER_NAME_LENGTH
  /\ header.value <= _MAX_HEADER_VALUE_LENGTH

\* Mutant of Admit: an unacceptable header is left out.
AdmitRest(taken, header) ==
  IF taken = Refused \/ ~ Acceptable(header) THEN taken
  ELSE LET total == taken.total + header.name + header.value
       IN  IF total > _MAX_HEADERS_TOTAL_LENGTH THEN Refused
           ELSE [headers |-> Append(taken.headers, header), total |-> total]

\* One round of the loop over the supplied headers.
Admit(taken, header) ==
  IF taken = Refused \/ ~ Acceptable(header) THEN Refused
  ELSE LET total == taken.total + header.name + header.value
       IN  IF total > _MAX_HEADERS_TOTAL_LENGTH THEN Refused
           ELSE [headers |-> Append(taken.headers, header), total |-> total]

\* A provider is "absent", "raises", gives "no mapping" or an "unreadable" one,
\* or gives headers.
_resolve_otlp_headers(provider) ==
  IF provider.kind = "absent" THEN NoHeaders
  ELSE IF provider.kind # "gives" \/ Len(provider.headers) > _MAX_HEADER_COUNT THEN Refused
  ELSE FoldLeft(Admit, [headers |-> <<>>, total |-> 0], provider.headers)

\* build_tracer_provider under settings that were validated: whether spans are
\* exported, whether the provider of the headers was called, with which result.
build_tracer_provider(settings, provider) ==
  IF settings.enabled
  THEN LET resolved == _resolve_otlp_headers(provider)
       IN  [exports |-> resolved # Refused, asked |-> provider.kind # "absent", headers |-> resolved]
  ELSE [exports |-> FALSE, asked |-> FALSE, headers |-> NoHeaders]

\* A setup from the values for the settings on, which a caller gives or the
\* environment holds.
configure(settings, provider) ==
  IF Valid(settings) THEN build_tracer_provider(settings, provider)
  ELSE [exports |-> FALSE, asked |-> FALSE, headers |-> Refused]
=============================================================================
