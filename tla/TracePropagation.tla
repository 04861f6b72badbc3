-------------------------- MODULE TracePropagation --------------------------
(***************************************************************************)
(* A trace on its way through two hops: an A2A call of TracingClient        *)
(* reaches a TracingRequestHandler (adapters/a2a.py), whose agent sends     *)
(* requests through the MCP adapter, StreamableHttp.  Each hop writes the   *)
(* current context into a carrier that may hold an older one and reads it   *)
(* on the other side (adapters/propagation.py).                             *)
(*                                                                         *)
(* The A2A client merges its pair into a copy of the caller's service       *)
(* parameters.  Their names are case-sensitive, those of HTTP headers are   *)
(* not, so a pair the caller put there under other cases stays beside it.   *)
(***************************************************************************)
EXTENDS StreamableHttp

CONSTANTS
  Calls,        \* A2A calls
  Deployments,  \* which of the A2A processes have tracing enabled
  Ambient,      \* the contexts of tasks that call or send, but for the handlers'
  Stale         \* the pairs that were left in service parameters and headers

\* The spans that the two sides of a call start.
CallSpans == {"caller", "handler"} \X Calls

NoCall == "none"

ASSUME CallAssumption ==
  /\ CallSpans \subseteq AppSpans
  /\ NoCall \notin Calls
  /\ Deployments \subseteq SUBSET {"caller", "handler"}
  /\ Ambient \subseteq {c \in AppContexts : c.span \notin CallSpans}
  /\ Stale \subseteq [span : (AppSpans \ CallSpans) \cup {NoSpan}, state : AppStates \cup {NoState}]
  /\ NoContext \in Stale

VARIABLES
  tracing,   \* the A2A processes whose settings are enabled
  plain,     \* plain[k]: the pair call k was given under the lower-case names
  other,     \* other[k]: the pair it was given under names of other cases
  called,    \* called[k]: the context current in the client's operation
  relayed,   \* relayed[k]: what arrived of its headers, as the handler reads them
  stage,     \* stage[k]: "idle", "sent" or "handling"
  working,   \* working[k]: the context current in the wrapped handler
  origin,    \* origin[a]: the call in whose handler request a was sent
  parent     \* parent[s]: the span that span s was started under

callVars == <<tracing, plain, other, called, relayed, stage, working>>

chainVars == <<vars, callVars, origin, parent>>

\* Spans with a parent that this model follows.
Children == CallSpans \cup {<<"client", a>> : a \in Sends}

ChainTypeOK ==
  /\ TypeOK
  /\ tracing \in Deployments
  /\ plain \in [Calls -> Stale]
  /\ other \in [Calls -> Stale]
  /\ called \in [Calls -> AppContexts]
  /\ relayed \in [Calls -> [span : AppSpans \cup {NoSpan}, state : AppStates \cup {NoState}]]
  /\ stage \in [Calls -> {"idle", "sent", "handling"}]
  /\ working \in [Calls -> AppContexts]
  /\ origin \in [Sends -> Calls \cup {NoCall}]
  /\ parent \in [Children -> AppSpans \cup {NoSpan}]

ChainInit ==
  /\ Init
  /\ headers \in [Requests -> Stale]
  /\ tracing \in Deployments
  /\ plain = [k \in Calls |-> NoContext]
  /\ other = [k \in Calls |-> NoContext]
  /\ called = [k \in Calls |-> NoContext]
  /\ relayed = [k \in Calls |-> NoContext]
  /\ stage = [k \in Calls |-> "idle"]
  /\ working = [k \in Calls |-> NoContext]
  /\ origin = [a \in Sends |-> NoCall]
  /\ parent = [s \in Children |-> NoSpan]

-----------------------------------------------------------------------------
(***************************************************************************)
(* The A2A hop.                                                             *)
(***************************************************************************)

\* start_span on one side of call k in context c: a child of c, or, where
\* tracing is disabled, no span of its own.
Operation(side, k, c) == IF side \in tracing THEN [c EXCEPT !.span = <<side, k>>] ELSE c

Started(side, k, c) ==
  parent' = IF side \in tracing THEN [parent EXCEPT ![<<side, k>>] = c.span] ELSE parent

\* Mutant of Prepared: injecting before the operation's span is started.
PreparedBefore(pair, c, o) == InjectedOver(pair, c)

\* _prepare_context in context o, the operation's within the caller's c: what
\* the context lacks is not removed.
Prepared(pair, c, o) == InjectedOver(pair, o)

\* What may be read of a field that was sent with values v and w.
OneOf(v, w, none) == IF {v, w} = {none} THEN {none} ELSE {v, w} \ {none}

\* Of several fields of a name an HTTP server hands on one; which one is up to
\* the libraries between.
Received(pair, variant) ==
  [span  : OneOf(pair.span, variant.span, NoSpan),
   state : OneOf(pair.state, variant.state, NoState)]

\* A transport without headers, gRPC: _extract_headers finds none.
NoHeaders == NoContext

\* _call and _stream of TracingClient, in a task whose context is c, with
\* service parameters that hold a pair and one under names of other cases.
Call(k, c, pair, variant) ==
  LET o == Operation("caller", k, c)
  IN  /\ stage[k] = "idle"
      /\ stage' = [stage EXCEPT ![k] = "sent"]
      /\ plain' = [plain EXCEPT ![k] = pair]
      /\ other' = [other EXCEPT ![k] = variant]
      /\ called' = [called EXCEPT ![k] = o]
      /\ \E p \in Received(Prepared(pair, c, o), variant) \cup {NoHeaders} :
           relayed' = [relayed EXCEPT ![k] = p]
      /\ Started("caller", k, c)
      /\ UNCHANGED <<vars, tracing, working, origin>>

\* Mutant of HandleCall: starting the span before the context is continued.
HandleApart(k) ==
  /\ stage[k] = "sent"
  /\ stage' = [stage EXCEPT ![k] = "handling"]
  /\ working' = [working EXCEPT ![k] = Operation("handler", k, NoContext)]
  /\ Started("handler", k, NoContext)
  /\ UNCHANGED <<vars, tracing, plain, other, called, relayed, origin>>

\* _call and _stream of TracingRequestHandler: continue_trace, then the span.
HandleCall(k) ==
  LET c == Extracted(relayed[k])
  IN  /\ stage[k] = "sent"
      /\ stage' = [stage EXCEPT ![k] = "handling"]
      /\ working' = [working EXCEPT ![k] = Operation("handler", k, c)]
      /\ Started("handler", k, c)
      /\ UNCHANGED <<vars, tracing, plain, other, called, relayed, origin>>

-----------------------------------------------------------------------------
(***************************************************************************)
(* The MCP hop.                                                             *)
(***************************************************************************)

\* A send of request r in context c, on behalf of k.
TracedSend(r, c, k) ==
  LET a == <<r, sends[r] + 1>>
  IN  /\ Send(r, c)
      /\ origin' = [origin EXCEPT ![a] = k]
      /\ parent' = IF ClientEnabled THEN [parent EXCEPT ![<<"client", a>>] = c.span] ELSE parent
      /\ UNCHANGED callVars

\* The wrapped handler of k, or a task of it, looks something up.
Lookup(r, k) ==
  /\ stage[k] = "handling"
  /\ TracedSend(r, working[k], k)

\* Other work in the agent's process sends the request, too.
SendOther(r, c) == TracedSend(r, c, NoCall)

Exchange ==
  /\ \E a \in Sends :
       \/ Answer(a) \/ Break(a) \/ Handle(a) \/ Return(a) \/ Raise(a) \/ Gateway(a)
       \/ \E s \in Statuses : Respond(a, s)
  /\ UNCHANGED <<callVars, origin, parent>>

ChainNext ==
  \/ \E k \in Calls, c \in Ambient, pair, variant \in Stale : Call(k, c, pair, variant)
  \/ \E k \in Calls : HandleCall(k)
  \/ \E r \in Requests, k \in Calls : Lookup(r, k)
  \/ \E r \in Requests, c \in Ambient : SendOther(r, c)
  \/ Exchange

ChainSpec == ChainInit /\ [][ChainNext]_chainVars

-----------------------------------------------------------------------------
(***************************************************************************)
(* Properties.                                                              *)
(***************************************************************************)

\* Call k came with headers, and its caller had left no variants of the names.
Clean(k) == relayed[k] # NoHeaders /\ other[k] = NoContext

\* The context the handler of k continues.
Continued(k) == Extracted(relayed[k])

\* The handler continues the client's operation, whatever pair the caller had
\* left under the injected names ("the propagated traceparent represents the
\* A2A operation itself", docs/A2A.md).  Of an older tracestate it may only
\* hear when the operation's trace has none.
HandlerContinuesCaller ==
  \A k \in Calls : stage[k] = "handling" /\ Clean(k) /\ called[k].span # NoSpan =>
    /\ Continued(k).span = called[k].span
    /\ \/ Continued(k).state = called[k].state
       \/ called[k].state = NoState /\ Continued(k).state = plain[k].state

Up(s) == IF s \in Children THEN parent[s] ELSE s

\* s, its parent and its parent's parent.
Lineage(s) == {s, Up(s), Up(Up(s))}

\* A tool works in the trace of the A2A call that it is used for: its spans
\* descend from the call's, over two hops, though the agent sends the same
\* request for other calls, and each process may have tracing disabled.
ToolServesCall ==
  \A a \in Sends : \A k \in Calls :
    server[a] # "idle" /\ origin[a] = k /\ Clean(k) /\ called[k].span # NoSpan =>
      called[k].span \in Lineage(heard[a].span)

=============================================================================
