--------------------------- MODULE CarrierHeaders ---------------------------
(***************************************************************************)
(* Which trace context a request's raw ASGI headers carry: _safe_headers    *)
(* (adapters/mcp.py).  The list comes from the network by way of a server   *)
(* and of middleware, so its items may be anything.  A name or a value that *)
(* is not ASCII is Undecodable.                                             *)
(***************************************************************************)
EXTENDS Integers, SequencesExt

CONSTANTS
  Undecodable,
  Absent         \* a field that the carrier does not hold

W3C == {"traceparent", "tracestate"}

\* bytes.lower of the names that requests are made of.
Lower(name) ==
  CASE name = "Traceparent" -> "traceparent"
    [] name = "TRACESTATE"  -> "tracestate"
    [] OTHER                -> name

\* A pair of byte strings that decode, of one of the fields.  An undecodable
\* value is not looked at under another name.
Readable(item) ==
  /\ item.pair
  /\ item.name # Undecodable
  /\ Lower(item.name) \in W3C
  /\ item.value # Undecodable

\* Mutant of Take: the first item of a field counts.
TakeFirst(carrier, item) ==
  IF Readable(item) /\ carrier[Lower(item.name)] = Absent
  THEN [carrier EXCEPT ![Lower(item.name)] = item.value] ELSE carrier

Take(carrier, item) ==
  IF Readable(item) THEN [carrier EXCEPT ![Lower(item.name)] = item.value] ELSE carrier

\* The carrier of a list of headers, or of something else.
_safe_headers(headers) ==
  LET empty == [field \in W3C |-> Absent]
  IN  IF headers.list THEN FoldLeft(Take, empty, headers.items) ELSE empty
=============================================================================
