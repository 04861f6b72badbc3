--------------------------- MODULE StreamableHttp ---------------------------
(***************************************************************************)
(* The MCP adapter (adapters/mcp.py) on both ends of an HTTP exchange:      *)
(* TracingAsyncTransport sends a request and reports the answer's status,   *)
(* TracingASGIMiddleware continues the trace the request carries and        *)
(* reports what the application did with it.                                *)
(*                                                                         *)
(* One request object may be sent several times (redirects, authentication, *)
(* the application's own retries, concurrent ones too); its headers keep    *)
(* what another send or the application left there.  Either side may go on  *)
(* when the other has given up.                                             *)
(***************************************************************************)
EXTENDS Naturals, Sequences

CONSTANTS
  Requests,        \* request objects
  MaxSends,        \* bound: sends of one request object
  AppSpans,        \* spans that are not this adapter's
  AppStates,       \* tracestates of their traces
  NoSpan,          \* no valid span; no traceparent header
  NoState,         \* no tracestate; no tracestate header
  ClientEnabled,   \* ObservabilitySettings.enabled of the client's process
  Statuses,        \* statuses the ASGI application answers with
  NoStatus         \* no response was started

\* The answers of the ASGI server itself and of a gateway before it.
ServerError == 500
BadGateway == 502

VARIABLES
  headers,   \* headers[r]: the W3C pair in the headers of request r
  sends,     \* sends[r]: how often r was sent
  current,   \* current[a]: the context that is current in the client of send a
  wire,      \* wire[a]: the W3C pair that send a carries
  client,    \* client[a]: the transport's side of send a
  server,    \* server[a]: the middleware's side of it
  heard,     \* heard[a]: the context the middleware continues
  status,    \* status[a]: response_status, as observed by the middleware
  reply,     \* reply[a]: the status the client's connection delivers
  events     \* events[o]: outcomes of the events of an operation

vars == <<headers, sends, current, wire, client, server, heard, status, reply, events>>

Sends == Requests \X (1 .. MaxSends)

Ops == {"client", "server"} \X Sends

ASSUME HttpAssumption ==
  /\ MaxSends \in Nat
  /\ ClientEnabled \in BOOLEAN
  /\ Statuses \subseteq 100 .. 599
  /\ NoStatus \notin Nat
  /\ NoSpan \notin AppSpans \cup Ops

\* A W3C pair and a span context are alike: a span and its trace's state.
Pair == [span : AppSpans \cup {NoSpan} \cup Ops, state : AppStates \cup {NoState}]

NoContext == [span |-> NoSpan, state |-> NoState]

AppContexts == {NoContext} \cup [span : AppSpans, state : AppStates \cup {NoState}]

Replies == Statuses \cup {ServerError, BadGateway, NoStatus}

TypeOK ==
  /\ headers \in [Requests -> Pair]
  /\ sends \in [Requests -> 0 .. MaxSends]
  /\ current \in [Sends -> Pair]
  /\ wire \in [Sends -> Pair]
  /\ client \in [Sends -> {"idle", "waiting", "answered", "broken"}]
  /\ server \in [Sends -> {"idle", "handling", "returned", "raised"}]
  /\ heard \in [Sends -> Pair]
  /\ status \in [Sends -> Statuses \cup {NoStatus}]
  /\ reply \in [Sends -> Replies]
  /\ events \in [Ops -> Seq({"STARTED", "SUCCESS", "ERROR"})]

\* A caller may hand over a request with any headers, incoherent ones too.
Init ==
  /\ headers \in [Requests -> [span : AppSpans \cup {NoSpan}, state : AppStates \cup {NoState}]]
  /\ sends = [r \in Requests |-> 0]
  /\ current = [a \in Sends |-> NoContext]
  /\ wire = [a \in Sends |-> NoContext]
  /\ client = [a \in Sends |-> "idle"]
  /\ server = [a \in Sends |-> "idle"]
  /\ heard = [a \in Sends |-> NoContext]
  /\ status = [a \in Sends |-> NoStatus]
  /\ reply = [a \in Sends |-> NoStatus]
  /\ events = [o \in Ops |-> <<>>]

-----------------------------------------------------------------------------
(***************************************************************************)
(* Vocabulary.                                                              *)
(***************************************************************************)

Emit(o, outcome) == events' = [events EXCEPT ![o] = Append(@, outcome)]

\* Mutant of Failed: only statuses beyond 400 taken for failures.
FailedBeyond(s) == s # NoStatus /\ s > 400

Failed(s) == s # NoStatus /\ s >= 400

Outcome(s) == IF Failed(s) THEN "ERROR" ELSE "SUCCESS"

\* A child span stays in its parent's trace; a disabled client starts none.
ClientContext(a, c) == IF ClientEnabled THEN [c EXCEPT !.span = <<"client", a>>] ELSE c

\* Mutant of Injected: setting what was injected over what is there.
InjectedOver(pair, c) ==
  [span  |-> IF c.span = NoSpan THEN pair.span ELSE c.span,
   state |-> IF c.state = NoState THEN pair.state ELSE c.state]

\* inject_trace_context leaves out what the context lacks, which is why the
\* transport removes both headers before it sets what was injected.
Injected(pair, c) == c

\* extract_trace_context: without a traceparent there is no context.
Extracted(pair) == IF pair.span = NoSpan THEN NoContext ELSE pair

-----------------------------------------------------------------------------
(***************************************************************************)
(* TracingAsyncTransport.                                                   *)
(***************************************************************************)

\* handle_async_request up to its await, in a task whose context is c.  The
\* inner transport copies the headers before anyone else can run.
Send(r, c) ==
  LET a == <<r, sends[r] + 1>>
  IN  /\ sends[r] < MaxSends
      /\ sends' = [sends EXCEPT ![r] = @ + 1]
      /\ current' = [current EXCEPT ![a] = ClientContext(a, c)]
      /\ headers' = [headers EXCEPT ![r] = Injected(@, ClientContext(a, c))]
      /\ wire' = [wire EXCEPT ![a] = headers'[r]]
      /\ client' = [client EXCEPT ![a] = "waiting"]
      /\ Emit(<<"client", a>>, "STARTED")
      /\ UNCHANGED <<server, heard, status, reply>>

\* The response's headers arrive; its body is left to the caller.
Answer(a) ==
  /\ client[a] = "waiting"
  /\ reply[a] # NoStatus
  /\ client' = [client EXCEPT ![a] = "answered"]
  /\ Emit(<<"client", a>>, Outcome(reply[a]))
  /\ UNCHANGED <<headers, sends, current, wire, server, heard, status, reply>>

\* The inner transport raises, or the task is cancelled or timed out.
Break(a) ==
  /\ client[a] = "waiting"
  /\ client' = [client EXCEPT ![a] = "broken"]
  /\ Emit(<<"client", a>>, "ERROR")
  /\ UNCHANGED <<headers, sends, current, wire, server, heard, status, reply>>

-----------------------------------------------------------------------------
(***************************************************************************)
(* TracingASGIMiddleware.                                                   *)
(***************************************************************************)

\* The request arrives, though its client may have given up.
Handle(a) ==
  /\ client[a] # "idle"
  /\ server[a] = "idle"
  /\ server' = [server EXCEPT ![a] = "handling"]
  /\ heard' = [heard EXCEPT ![a] = Extracted(wire[a])]
  /\ Emit(<<"server", a>>, "STARTED")
  /\ UNCHANGED <<headers, sends, current, wire, client, status, reply>>

\* The connection delivers s, unless something else answered before.
Deliver(a, s) == reply' = [reply EXCEPT ![a] = IF @ = NoStatus THEN s ELSE @]

\* observe_status notes http.response.start, then forwards it.
Respond(a, s) ==
  /\ server[a] = "handling"
  /\ status[a] = NoStatus
  /\ status' = [status EXCEPT ![a] = s]
  /\ Deliver(a, s)
  /\ UNCHANGED <<headers, sends, current, wire, client, server, heard, events>>

\* The ASGI server answers for an application that ended without answering.
ServerAnswers(a) ==
  IF status[a] = NoStatus THEN Deliver(a, ServerError) ELSE UNCHANGED reply

Return(a) ==
  /\ server[a] = "handling"
  /\ server' = [server EXCEPT ![a] = "returned"]
  /\ Emit(<<"server", a>>, Outcome(status[a]))
  /\ ServerAnswers(a)
  /\ UNCHANGED <<headers, sends, current, wire, client, heard, status>>

\* Mutant of Raise: `except` that falls through to the report of a normal return.
RaiseTwice(a) ==
  /\ server[a] = "handling"
  /\ server' = [server EXCEPT ![a] = "raised"]
  /\ events' = [events EXCEPT ![<<"server", a>>] = @ \o <<"ERROR", Outcome(status[a])>>]
  /\ ServerAnswers(a)
  /\ UNCHANGED <<headers, sends, current, wire, client, heard, status>>

\* The application raises, send() of a gone client included, or is cancelled.
Raise(a) ==
  /\ server[a] = "handling"
  /\ server' = [server EXCEPT ![a] = "raised"]
  /\ Emit(<<"server", a>>, "ERROR")
  /\ ServerAnswers(a)
  /\ UNCHANGED <<headers, sends, current, wire, client, heard, status>>

\* A gateway between the two gives up on the server.
Gateway(a) ==
  /\ client[a] = "waiting"
  /\ reply[a] = NoStatus
  /\ reply' = [reply EXCEPT ![a] = BadGateway]
  /\ UNCHANGED <<headers, sends, current, wire, client, server, heard, status, events>>

Next ==
  \/ \E r \in Requests, c \in AppContexts : Send(r, c)
  \/ \E a \in Sends : Answer(a) \/ Break(a) \/ Handle(a) \/ Return(a) \/ Raise(a) \/ Gateway(a)
  \/ \E a \in Sends, s \in Statuses : Respond(a, s)

Spec == Init /\ [][Next]_vars

-----------------------------------------------------------------------------
(***************************************************************************)
(* Properties.                                                              *)
(***************************************************************************)

\* The application behind the middleware works in the context that was
\* current where its request was sent, span and tracestate: whatever the
\* headers held before, no send carries another's pair or half of one
\* ("Stale partial W3C headers are removed", docs/MCP.md).
ServerContinuesClient ==
  \A a \in Sends : server[a] # "idle" => heard[a] = current[a]

\* What the events of an operation amount to.
ReportOf(outcomes) ==
  CASE outcomes = <<>> -> "none"
    [] outcomes = <<"STARTED">> -> "started"
    [] outcomes = <<"STARTED", "SUCCESS">> -> "completed"
    [] outcomes = <<"STARTED", "ERROR">> -> "failed"
    [] OTHER -> "corrupt"

Report(side, a) == ReportOf(events[<<side, a>>])

\* A completed send was answered by the application with a 1xx-3xx status, and
\* its server only reports a failure that came after that answer ("classifies
\* success or failure from transport outcomes and HTTP status", docs/MCP.md).
SuccessIsShared ==
  \A a \in Sends : Report("client", a) = "completed" =>
    /\ status[a] # NoStatus /\ status[a] < 400
    /\ Report("server", a) = "failed" => server[a] = "raised"

Reports == INSTANCE OperationReports WITH
  report <- [o \in Ops |-> ReportOf(events[o])],
  released <- [o \in Ops |-> IF o[1] = "client"
                             THEN client[o[2]] \in {"answered", "broken"}
                             ELSE server[o[2]] \in {"returned", "raised"}]

\* Both sides of every send report it as started and then exactly once as
\* completed or failed, before their caller gets the answer or the exception.
ImplementsReports == Reports!Spec

=============================================================================
