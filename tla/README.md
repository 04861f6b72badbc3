# Verification of a2a-otel-kit

TLA+ models of a2a-otel-kit: of the parts whose correctness depends on the order
of things (suspended streams, concurrent requests, threads, retries,
cancellations, moving tags, overlapping runs), and of the pure functions that
decide at the boundaries. TLC checks them on small instances; the TLA+ proof
system (TLAPS) proves the central theorems for every value of the constants.
Paths below are relative to the repository.

## 1. The system

a2a-otel-kit adds OpenTelemetry tracing to programs that speak A2A and MCP. It
is a library: it owns no process, no loop and no store. Its state lives in
Python objects of the application, in context variables, in the headers of
messages, and, for Governance events, in another service.

| Component | Source | State | Operations |
|---|---|---|---|
| A2A wrappers | `src/a2a_otel_kit/adapters/a2a.py` | one span per call; for streams, an async generator with the inner iterator and context tokens | `_run_traced`, `_stream_traced`, used by every method of `TracingClient` and `TracingRequestHandler` |
| Propagation | `adapters/propagation.py` | the current context of a task | `inject_trace_context`, `extract_trace_context`, `continue_trace` |
| MCP transport and middleware | `adapters/mcp.py` | headers of `httpx.Request` objects; `response_status` of one ASGI call | `handle_async_request`, `__call__`, `_safe_headers` |
| Governance sink, delivery | `adapters/governance.py` | the attempt loop of one `deliver()`; worker threads | `deliver`, `emit`, `_post` |
| Governance sink, contract | `adapters/governance.py` | none | settings, `prepare` and the `_put*` validators |
| Observability facade | `entrypoints/observability.py`, `application/ports.py` | `_is_shut_down`, the lifecycle handle | `configure`, `start_span`, `emit_event`, `flush`, `shutdown` |
| Tracer provider | `adapters/tracing.py` | the SDK's provider | `build_tracer_provider`, `_resolve_otlp_headers` |
| Structured logging | `entrypoints/logging.py` | context variables: service fields, correlation id | `configure_logging`, `bind_correlation_id`, `clear_request_context` |
| Sanitizer and events | `domain/attributes.py` | none | `sanitize_attributes`, validation of events |
| Settings | `application/settings.py` | none | validation |
| Release | `.github/workflows/release.yml`, `scripts/validate_release_ref.py`, `scripts/verify_release_artifacts.py` | a tag; the jobs of a run and their clones; an artifact; PyPI; a GitHub Release | the jobs validate, build, publish, github-release |
| Demonstration | `examples/end_to_end/` | processes and ports; the Collector's receipt; the file of the last trace | `run_demo.py`, its services, `verify_trace.py` |
| Repository checks | `scripts/` | none | `validate_architecture.py` and others |
| Examples, benchmarks | `examples/`, `benchmarks/` | none | wiring |

**How they interact.** The wrappers call `start_span` and `emit_event` of an
`Observability`; which span an event belongs to is decided by the *context
variable* of the asyncio task in which the code happens to run. The A2A client
writes the current context into service parameters, which the handler of another
process reads; the MCP transport writes it into request headers, which the
middleware reads; an agent does both, one inside the other. `start_span` hands
spans to a batch processor that `flush` and `shutdown` wait for. The logging
context is a second set of context variables, which follow the same copying
rules. An event is sanitized for the log line and again for the Governance sink,
which runs a blocking POST in the event loop's thread pool, and awaits it. The
release workflow reads the tag four times, from four clones. Runs of the
demonstration share ports, a receipt and a file.

**What is hard in it.**

* An async generator has no context of its own. Between two items its span is
  current in its consumer's task; whoever resumes, closes or collects it runs
  its body in *their* context, and tokens restore what they replaced, in any
  order (`a2a.py:155-185`).
* A generator ends in many ways: exhaustion, an error, cancellation at an
  `await`, `aclose()` by its consumer, collection after it was abandoned, an
  `aclose()` of the inner iterator that raises in `finally`.
* A carrier may hold an older context. Request objects are mutable and sent
  again (`mcp.py:113-119`); service parameters are merged into and not cleaned
  (`a2a.py:209-217`); HTTP names have no case, the parameters' do.
* Either end of an exchange goes on when the other has given up.
* Cancelling an awaited thread does not stop it (`governance.py:221`); a lost
  answer is not a lost event; the payload is the application's mapping.
* `shutdown()` tests its flag first and sets it last (`observability.py:142-147`).
* Tasks copy the context they are created in; threads do not.
* A tag can move between any two steps, a job can fail between the two files
  it uploads, and PyPI never takes a file twice.
* A run of the demonstration that was killed leaves services which hold the
  ports and answer for the runs that follow; spans are exported late.
* The same data are checked twice, by code with different limits: for the log
  line and for Governance, by the settings and by `_post`, by an early end of an
  inspection and by what comes after it.

**What makes each component correct.**

* *A2A wrappers:* each call reports `started` and exactly one terminal event,
  which agrees with the span's status and with what the caller saw; the inner
  iterator is closed inside the span; events carry the ids of their own span;
  contexts are restored; spans nest; abandoned streams end.
* *Propagation:* each server continues the context its client sent from, never
  one that was left in a carrier; a tool's spans descend from the A2A call it is
  used for.
* *MCP:* both sides report once; success on the client's side is the
  application's.
* *Governance:* a receipt implies a recorded event; all attempts carry one body;
  retries follow transient failures only and are bounded, as are the pauses;
  what has ended sends nothing more; every delivery ends. What the log line drops
  never reaches Governance, and what was prepared can be sent.
* *Lifecycle:* the backend is shut down at most once and not abandoned with
  spans in it; of callers that take turns, who returns
  from `shutdown()` finds it down; spans are exported
  with all headers or not at all.
* *Logging:* no event carries another request's id; a request's end does not
  take away the process's fields.
* *Release:* what is on PyPI is one build of a commit the tag has named, the
  GitHub Release holds the same bytes, a tag seen to have moved stops the job, and
  the check of the artifacts passes whole ones only.
* *Demonstration:* a run that passed has its evidence in the receipt, the
  verifier passes what happened, and services are stopped after their evidence
  is in.

## 2. The modules

| Module | Models | Proofs | Runs |
|---|---|---|---|
| `OperationReports` | abstract: what the events of operations promise | | refined by the next two |
| `TracedOperations` | `_run_traced`, `_stream_traced`, `continue_trace`, the context part of `start_span` and `emit_event` | `TracedOperations_proofs` | `ops_lifo`, `ops_any`, `ops_uncollected`, `ops_invoke_raises` |
| `StreamableHttp` | `TracingAsyncTransport`, `TracingASGIMiddleware` | in `TracePropagation_proofs` | in `trace_chain` |
| `TracePropagation` | the carriers of an A2A call, composed with `StreamableHttp` | `TracePropagation_proofs` | `trace_chain` |
| `EventDelivery` | abstract: what the sink promises | | refined by the next one |
| `GovernanceDelivery` | `deliver`, `_post` | `GovernanceDelivery_proofs` | `gov_deliver` |
| `ObservabilityLifecycle` | `configure`, `flush`, `shutdown`, the backend by its port | `ObservabilityLifecycle_proofs` | `life_shutdown` |
| `LoggingContext` | `configure_logging` and the correlation id | `LoggingContext_proofs` | `log_requests` |
| `ReleaseFlow` | `release.yml`, `validate_release_ref.py` | `ReleaseFlow_proofs` | `release_moved`, `release_tag_race` |
| `DemoRun` | `examples/end_to_end` | `DemoRun_proofs` | `demo_runs` |
| `EventContract` | the sanitizer, `emit_event`'s line, `prepare`, the sink's settings and `_post`'s connection | in `Contracts_proofs` | in `contracts` |
| `ExporterSetup` | settings, OTLP headers, tracer provider | in `Contracts_proofs` | in `contracts` |
| `CarrierHeaders` | `_safe_headers` | in `Contracts_proofs` | in `contracts` |
| `ArtifactCheck` | `verify_release_artifacts.py` | in `Contracts_proofs` | in `contracts` |
| `ImportCheck` | `validate_architecture.py` | in `Contracts_proofs` | in `contracts` |
| `Contracts` | one call of any of these functions | `Contracts_proofs` | `contracts` |

`MC<Module>` instantiates a module for TLC: it declares the model values, the
inputs and the symmetry sets, and changes nothing. A definition whose comment
begins with "Mutant of X" is not part of a specification: it is X with a
plausible bug in it, and serves to see that a property notices (section 6).

### TracedOperations

A step is what a task does between two awaits. `ctx[t]` is the span current in
task `t`; `calls[t]` the await chain, innermost operation first; `pc[o]` where
the body of operation `o` is; `owner[o]` and `old[o]` the token (`attach` in
`owner`, restoring `old`); `events[o]` what `emit_event` logged, each with the
span that was current *where it was emitted*.

| Action | Code |
|---|---|
| `Begin` | a wrapped method up to its first await: `continue_trace` (server side), `start_span`, `started`, and for streams `iterator = invoke()` |
| `InvokeRaises` | `invoke()` itself raises at `a2a.py:164`, before the `try` |
| `End` | the awaited code returns, is exhausted, raises or is cancelled; the terminal event; `with` is left, or `finally` awaits `aclose()` |
| `Yield`, `Resume` | `yield item`; the next `__anext__()`, in whatever task |
| `AClose` | the consumer closes the generator between two items: `GeneratorExit` |
| `Abandon`, `Finalize` | the consumer drops it; asyncio's hook for collected generators closes it in a task of its own |
| `Closed` | `await aclose()` in `finally` returns, or raises |
| `Spawn` | a task is created with a copy of its creator's context |

`detach()` in another task than the token's is modelled as OpenTelemetry does
it: an error is logged, the context stays (`Detached`). All methods of
`TracingClient` and `TracingRequestHandler` are calls of one of the two
functions; they differ in being streams (`StreamOps`), in continuing a carrier
(`ServerOps`), and in an iterator with `aclose()` (`Closable`).

### OperationReports

Three actions: `Start`, `Settle` (completed or failed, releasing the caller now
or later), `Release`. `TracedOperations` implements it with
`report = ReportOf(events)` and `released = (pc = "done")`; `StreamableHttp`
with the two sides of each send as operations.

### StreamableHttp

A *send* is a pair of a request object and a number. `headers[r]` is the pair of
W3C headers in the object, `wire[a]` the pair that send `a` carries. `Init`
allows any headers, incoherent ones too. `Send` is `handle_async_request` up to
its await (removal of both headers, injection, `started`); `Answer` and `Break`
its two ends. `Handle`, `Respond`, `Return`, `Raise` are the middleware with
`observe_status`. The ASGI server's own 500 and a gateway's 502 are environment.
A context is a span and its trace's tracestate. The inner transport copies the
headers before another task can run, as httpx does, so `wire` is taken in `Send`.

### TracePropagation

An A2A call before an MCP request, as in an agent. `Call` is the client's side of
`_call` and `_stream`: the operation's span is started, `_prepare_context` merges
the pair into a copy of the caller's parameters, and they are sent. `plain[k]` is
the pair that was there under the injected names, which is overwritten where the
context has a value; `other[k]` one under the same names in other cases, which
stays beside it, so that either of two fields may arrive (`Received`), or none
over gRPC (`NoHeaders`). `HandleCall` is the handler's side. `Lookup` is a
`Send` of `StreamableHttp` from the context of a handler, `SendOther` one from
elsewhere in the same process; `origin` and `parent` are history that the
properties read. `Deployments` says in which processes tracing is enabled.

### GovernanceDelivery and EventDelivery

Event loop (`Refuse`, `Deliver`, `Handle` within `Finish`, `Wake`, `Cancel`),
worker pool (`Take`, `Finish`), service (`Serve`), application (`Touch`, which
changes the payload's mapping). `posts[d][a]`, `wire[d][a]` and `seen[d][a]` are
three views of the a-th POST of delivery `d`: the worker's, the service's and
the loop's. A worker may come back with an answer or with an exception at any
moment, before or after the service has recorded the event; the service may
answer a request nobody waits for. A cancelled `deliver()` drops a POST that is
still queued and leaves one that is running.

`EventDelivery` is what a caller may rely on: a delivery is refused or opened, an
opened event may be recorded, also after the delivery has ended, and it ends with
a receipt, for which the event has to be recorded, or without, which says
nothing. It is implemented with `phase` read off `pc` and `recorded = ledger`.

### ObservabilityLifecycle

`at[t]` is how far the call of thread `t` is: `flush` or `shutdown`, the latter
as `ShutdownCall` (the test of the flag), `Drained` (its flush returns),
`Release` (the backend's shutdown is called) and `Released` (it returns, and the
flag is set, or it raises). The backend is `up`, `stopping` from `Release` on, and
then `down` or, if its shutdown raised, `failed`; with two calls of it at work it
stays `stopping` until the last one ends (`Ended`).

`TakingTurns` are the instances whose callers do not overlap. Two overlapping
calls do shut the backend down twice, and one may return while the other is still
at work, since the flag is tested first and set last. So `ShutOnce` is claimed of
the former only, and `ReturnedIsReleased` claims two things: where threads take
turns, whoever returns finds the backend down, which a flag set after a shutdown
that raised would break; where they race, that nobody returns before the backend's
shutdown was called, which setting the flag first would break. Of the backend only
what `application/ports.py` says is assumed: `force_flush` ends when all is
exported or in its own time, `shutdown` may leave pending spans behind. A
backend's queue is bounded and drops.

### LoggingContext

`service[t]` and `correlation[t]` are the two context variables in the context
of task or thread `t`. `Configure` is the whole of `configure()`: the logging
context is changed first, and the rest may fail. `Spawn` copies the context or,
for a thread that copies none, starts with an empty one. `serving[t]`, the
request `t` works for, is history that only the properties read.

### ReleaseFlow

`job[w]` and `step[w]` are where run `w` is; `clone[w]` the tag as the job's
checkout fetched it; `commit[w]` the output of the validate job; `artifact[w]`
the build it made; `index` PyPI, file by file; `tagged` every commit the tag has
named as an annotated tag. Runs can be dispatched and re-run, from the start or
from the failed job; jobs fail anywhere; `MoveTag` moves, deletes or replaces
the tag at any time; `UploadLost` is an upload PyPI has taken and the job has
not heard of.

### DemoRun

`pc[r]` is where `main()` of `run_demo.py` is in run `r`; `child[s][r]` the
process of service `s` it started, which is starting, serving, stopping or dead;
`request[r]` how far its one traced request is and `served[s][r]` whose service
works for it. Only one process holds a port (`Bind`), and `wait_for_tcp` takes
any listener. Services export spans some time after they end (`Export`) or lose
them when they exit. `Killed` ends a runner anywhere. The requests of the MCP
session inside one lookup are one. The verifier is the operator `VerifierPasses`,
evaluated in every state.

### Contracts

`EventContract`, `ExporterSetup`, `CarrierHeaders`, `ArtifactCheck` and
`ImportCheck` translate the pure functions as operators: every check in the
code's order, with the error it raises. `Contracts` makes one call of one of them
on any of the inputs; its properties compare the result with a reference that
is written independently of the code's order. Data keep what the code tells apart: of a string its
length, of a header its lengths and what is wrong with it, of an archive which
required entries it lacks, of an import its path and level.

## 3. The runs

Runs expected to pass:

| Run | Question | Bounds, and why they are enough |
|---|---|---|
| `ops_lifo` | Do events name their own span (`Correlated`), do contexts come back (`ContextRestored`), do spans nest (`SpansNest`), in programs that end the operations of a task in LIFO order? | A call, a client stream and a handler's stream in two tasks: the three kinds of operation, enough for one of them to be begun inside, beside and in a child task of another. |
| `ops_any` | In programs without any discipline: one terminal event (`OneTerminal`), agreement of event, status and caller (`OutcomesAgree`), no iterator left open (`IteratorClosed`), the abstract specification (`ImplementsReports`), and an end for abandoned streams (`AbandonedEnds`)? | Two streams, one without `aclose()`, in three tasks: both may be abandoned in a task of their own and a third one is left to close them. A call is a stream without items and without `aclose()` here. |
| `trace_chain` | Over both hops: `HandlerContinuesCaller`, `ToolServesCall`, and of the MCP hop `ServerContinuesClient`, `SuccessIsShared` and `ImplementsReports`. | One A2A call, one request object sent twice, for the call and for others, concurrently too. Contexts and left-over pairs are two each: none, and one with a span and a tracestate of its own. Tracing is enabled in both A2A processes or in neither; statuses are 200 and 400 itself, and the servers' own 500 and 502. |
| `gov_deliver` | `ReceiptRecorded`, `StableBody`, `RetriesJustified`, `BackoffBounded`, `EndedSendsNothing`, the promise (`ImplementsDelivery`) and an end for every delivery (`EveryDeliveryEnds`). | Two deliveries of one envelope, three attempts (two pauses, so doubling shows), one worker, so that one delivery waits for another's abandoned POST, and one change of the payload. Statuses are an accepted and a definitive one: a transient outcome is here a worker's exception, which the code treats alike; the theorems hold for all statuses. |
| `life_shutdown` | `ShutOnce`, `ReturnedIsReleased`, `PendingIsFlushed`. | Two threads with two calls each; an instance whose shutdowns take turns, one whose shutdowns take turns and may raise, so that the other thread is the next to try, one that is raced for and may raise, one that is disabled; a queue of one span and two spans for it, so that it overflows. |
| `log_requests` | `CorrelationIsOwn`, `ServiceSurvivesRequests`. | Two requests, two services, three tasks or threads whose names are reused; two calls of `configure()`. |
| `release_moved` | `IndexIsOneBuild`, `PublishedWasTagged`, `ReleaseMatchesIndex`, `MovedTagStopsJob`. | Two runs of two attempts each, three commits (two with the version of the tag), two changes of the tag, well and badly formed inputs. |
| `demo_runs` | `PassedIsEvident`, `VerifiedWasAnswered`, `DoneLeavesNone`, `ReceiptBeforeStop`. | Two runs that overlap anywhere: one can leave its services to the other, take its ports, remove its file or be verified while it runs. |
| `contracts` | `LineDecidesEnvelope`, `PreparedOrRefused`, `AcceptedReachesAgent`, `SetUpIsWhole`, `CarrierIsLastSent`, `PassedIsComplete`, `ImportsAreResolved`. | Events with every attribute at and around each limit and every pair of attributes; settings at and around theirs; lists of up to three headers, against limits on OTLP headers small enough that three cross them (at most two headers, names of two and values of three characters, six in all); every wheel beside every sdist; imports of every level up to four from files of every depth. |

Types are not among the properties of the runs: each module's type invariant is
a theorem (section 5). All runs but `log_requests` set `CHECK_DEADLOCK FALSE`: a
program whose operations have all ended, a process whose instances are down, a
release that is complete or abandoned, a demonstration that is over, a single
call of a function, does stop.

Runs that TLC must find violated, because the program does not do what the
repository says of it (section 7): `ops_invoke_raises`, `ops_uncollected`,
`release_tag_race`.

Bounds are constants with names: `MaxSends`, `MaxVersion`, `MaxCalls`,
`MaxConfigures`, `MaxMoves`, `MaxQueue`, `MaxAttempts` (in `ReleaseFlow`; in
`GovernanceDelivery` it is the program's own setting, as `MaxQueue` is the
backend's). Symmetry is used in safety runs only, over tasks, threads, runs,
requests and spans that the constants do not tell apart.

## 4. Fairness

* `TracedOperations!Progress`: awaited code ends or is cancelled in the end, a
  stream that is asked for item after item included, and the event loop runs
  what is ready. It is strong for `End`, since asking a stream again and again
  disables it again and again. `Collected`: an abandoned generator is collected
  and its hook runs. That is the interpreter's doing and not the library's, so
  it is a formula of its own: `ops_any` assumes it, `ops_uncollected` shows that
  nothing else would end an abandoned stream. Consumers owe nothing: they may
  leave a stream suspended for ever.
* `GovernanceDelivery!Fairness`: timers fire, the pool takes up queued work, and
  `_post` ends, because its socket operations have a timeout. Name resolution
  without end and a service that trickles bytes for ever are excluded by this
  assumption. Nothing is assumed of the service.
* The other modules have safety properties only and assume nothing.

## 5. What is proved

All proofs are checked by `tlapm`; none has a gap. Each module's first theorem
is that its types are kept: `TypeCorrect`, `HttpTyped`, `ChainTyped`,
`DeliveryTyped`, `LifecycleTyped`, `LoggingTyped`, `ReleaseTyped`, `DemoTyped`.
The others:

**`TracedOperations_proofs`**, from `OpsAssumption`:

* `EveryOperationReportsOnce`, `OperationsImplementReports` and `VerdictsAreOne`
  (`OutcomesAgree`), if `~InvokeMayRaise` (the run `ops_invoke_raises` shows that
  this premise is needed). The invariant is `ReportInv`: `OneTerminal` with the
  correspondence of `pc` and `cause` (`Phases`), without which nothing says that
  an operation in `finally` has already reported; for the last of the three also
  `Verdicts`, which ties status, terminal event and result each to the cause.
* `IteratorsAreClosed`, for every program, with the addition that what has not
  begun has no iterator (`IterInv`).
* `BodiesAreAwaited`, for every program: a body that runs or closes its iterator is
  awaited by one task, once, and a stream its consumer has left goes only towards
  its end. This is what `AbandonedEnds` rests on besides fairness: an abandoned
  stream that was taken up stays in reach of the task that does it (`Awaited`),
  and cannot be abandoned or resumed again.
* `EventsNameTheirSpan`, `ContextIsRestored`, `SpansAreNested`, if `Disciplined`:
  an operation ends only when no other one begun under its span in the same task
  is open. The invariant is `ChainInv`, that the open operations of a task form
  a chain: the current span is open or the one the task began with
  (`CurrentOpen`), tokens restore one that is still open or that first one
  (`TokensOpen`), every open operation is current or what another one's token
  restores (`NoneLost`), and parents are below their children
  (`ParentsBelow`). Without the chain, leaving one operation might restore a
  context that another one has left.

  The discipline is a premise on programs, and the library does not enforce it:
  with `Disciplined = FALSE`, TLC finds that closing a stream while an operation
  begun on it is open logs the stream's end under the other's span, and that two
  streams of a task which end in the order they began leave the first one's
  ended span current.

**`TracePropagation_proofs`**, first of the MCP hop alone, from `HttpAssumption`,
for any number of requests and sends and for enabled and disabled clients:

* `TraceIsContinued`, by `TraceInv`: what a send carries is the client's context
  (`Carried`), sends that were not made have left nothing (`Ahead`), and a server
  works on sends that were made (`Reached`).
* `SuccessIsTheApplications`, by `EventInv`, which relates each side's events to
  its state (`Logged`) and a reply to the status it came from (`Answered`).
* `SidesImplementReports`: the refinement of `OperationReports`.

then of both hops, from `CallAssumption` too, for any calls, contexts and left-over
pairs, whichever processes trace:

* `ChainIsStreamableHttp`: the composition is still `StreamableHttp` on its
  variables, so that the theorems above hold of it and need not be proved again.
* `CallsAreContinued`, `ToolsWorkInTheCallsTrace`, by `ChainInv`: what arrived of
  clean parameters is what the operation's context was (`Arrived`), a handler
  works in its own span below what arrived (`Working`), and a request that was
  sent for a call left from the context of its handler (`SentFor`). The last one
  is what a mere property of each hop would lack: it relates a send to a call
  although the same request object is used for others.

**`GovernanceDelivery_proofs`**, from `DeliveryAssumption`, by one invariant
`DeliveryInv`: the stages of the three views of a POST fit together (`Stages`),
an accepted answer on the wire is in the ledger (`AcceptedRecorded`), and the
properties themselves. It gives `ReceiptsAreOfRecordedEvents`,
`RetriesCarryOneBody`, `RetriesFollowTransientFailures` and the action property
`EndedDeliveriesAreSilent`. With `WireInv`, that nothing was sent for a delivery
which has not been opened, it gives `DeliveriesImplementPromise`, the refinement
of `EventDelivery`.

* `PausesAreBounded` needs an invariant of its own, `PauseInv`: the outcomes that
  loop has seen nothing of the POSTs to come (`SeenInOrder`), so that the number of
  the current attempt counts the pauses, and what was waited is one less than two
  to the power of that count. The powers are those of the at most five attempts
  that the settings allow (`Powers`).
* `DeliveriesAdvance` is what `EveryDeliveryEnds` rests on besides fairness: a
  delivery in `posting` has a POST that waits for a worker or is in the hands of
  one (`Attended`), and each step that concerns a delivery ends it or lowers
  `Left`, which is at most three for each attempt. What is left to fairness is
  that such a step is taken.

**`ObservabilityLifecycle_proofs`**, for any number of threads, instances and
calls and any queue: `ReleasedOnReturn`, `ShutDownOnce` and `FlushedIsKept`. The
invariant relates the flag, the backend and where each thread is: once a flag is
set or a shutdown was called, the backend is no longer up (`DownInv`); of threads
that take turns one is in `shutdown()`, and the flag says that the backend is down
and that nobody is at work on it, whatever raised before (`ReleasedInv`); the
count of shutdowns is the progress of that one thread, if none raises (`TurnInv`);
and what a flush owes is not pending once it ended in time (`DueInv`).

**`LoggingContext_proofs`**, for any tasks and requests: `EventsAreOwn`,
`ServiceSurvives`. The properties speak of events that were logged; the invariant
(`ContextInv`) is about the contexts they are made from, also those that nothing
is logged in yet.

**`ReleaseFlow_proofs`**, for any number of runs, attempts and moves of the tag:
`OneBuild`, `OnlyTagged`, `SameFiles` and `MovedIsStopped`. The invariant follows a
release from the tag to the index: what is validated, built and published comes from a
commit the tag has named (`OriginInv`), a job has what its predecessors made and a verified
clone names the validated commit (`JobInv`), a job that uploaded the first file
uploaded its own (`UploadInv`), and the second file is only there beside the first
of the same build (`IndexInv`).

**`DemoRun_proofs`**, for any set of runs: `EvidenceIsKept`, `VerifiedHappened`,
`NoneIsLeft`, `ReceiptComesFirst`. The invariant says that a run which stops
its services has decided (`StopInv`) and that a request is worked on only between
its beginning and its end, by whichever run's service (`RequestInv`).

**`Contracts_proofs`**, for any inputs, of which only what they are made of is
assumed, as a call from Python gives it (`ReportAssumption`, `SinkAssumption`,
`SetupAssumption`, `HeaderListAssumption`, `DistAssumption`, `SourceAssumption` and
`HeaderAssumption` of `ExporterSetup`): that the attributes of an event are values and
a string's length is a number, that lists are sequences, that a package has its
layers. Limits, numbers of headers, attributes, files and levels are free. That a
result is what its function makes of its input is an invariant (`Answered`); the
rest is about the operators:

* `DeliveriesReachTheAgent`, `WholeFilesPass`: the checks of the sink's settings and
  of the release files, case by case.
* `ChecksFollowPython`: the modules that a statement imports are
  beginnings of one name, that of what Python imports (`PrefixesBegin`,
  `ImportedName`), so that this name alone decides (`NameDecides`). The property
  takes from this that an import outward is refused, relative or absolute, and no
  other absolute one.
* `RequestsContinueTheLastSent`, `SetupsAreWhole`: about folds over sequences of any
  length. The library's induction theorems cannot be instantiated here, and its
  definition of a fold is a recursive function over sets that is only said to be
  chosen; so an induction over sets of naturals comes first
  (`LeastNatural`, `SetInduction`), then that the fold exists (`FoldExists`), then
  its step for each of the operators folded (`TakeUnrolls`, `AdmitUnrolls`,
  `SizeUnrolls`). `TakenAreLast` and `AdmittedInAll` are then ordinary inductions
  over the length: what was taken is the last header of a name; what was
  admitted is all there is or nothing.
* `EventsArePreparedOrRefused`, `LinesDecideEnvelopes`: sanitizing twice is
  sanitizing once (`SanitizedOnce`), the error of `prepare` is that of the first
  check that fails, in its order (`FirstFails`), and what no check refuses is
  written as a type that JSON has (`PutWrites`). Without the first, an envelope
  made of the line that was logged might be another than that of the event.

**Only model-checked.** `AbandonedEnds` and `EveryDeliveryEnds`: liveness under
fairness and ENABLED are out of the prover's reach. `BodiesAreAwaited` and
`DeliveriesAdvance` prove what they rest on in each step. Every other property of
the passing runs is a theorem.

## 6. Mutants

Each property of a passing run has a mutant: a definition with a bug that a
change to the code might bring, under which the run must find that property
violated. Examples: `except Exception` for `except BaseException` in
`_stream_traced` (`ReportExceptions`), injecting over old headers instead of
removing them (`InjectedOver`), injecting before the operation's span is started
(`PreparedBefore`), encoding the payload for each attempt (`FreshPayload`),
setting the shutdown flag first (`ShutdownCallFlagged`) or in a `finally` clause
(`ReleasedFinally`), `skip-existing: true` in
the publish step (`SkipExisting`), signalling the services before the receipt was
looked at (`SignalEarly`), counting every dot of a relative import
(`importedHigher`).

## 7. Findings

* `ops_invoke_raises` (`a2a.py:164`): a streaming method that raises when it is
  called, rather than when it is iterated, leaves `started` without a terminal
  event, and the span's status unset; the module promises exactly one.
* `ops_uncollected` (`a2a.py:166`): a stream whose consumer is cancelled between
  two items ends only by garbage collection, which `a2a.py:42-46` and
  `docs/A2A.md:106` say is never relied on.
* `release_tag_race` (`validate_release_ref.py:208`): the re-verification asks the
  job's clone, which is as old as its checkout; a tag moved after that is not
  noticed, though `docs/DEVELOPMENT.md:158-160` says it is caught.

Other places where code and text differ or the code has an edge, met while
modelling and not the subject of a run:

* An inner iterator whose `aclose()` raises replaces the exception that ended the
  stream (`a2a.py:185`; `docs/A2A.md:89` says the original is propagated
  unchanged). The model has this outcome, `close_error` in `Closed`.
* An older pair in service parameters under names of other cases stays beside the
  injected one (`a2a.py:214`; `docs/A2A.md:43`). `HandlerContinuesCaller` speaks
  of parameters without one.
* Overlapping calls of `shutdown()` shut the backend down twice, and one may
  return while the other is still at work on it (`observability.py:142-147`;
  `ports.py:28` says at most once). No property forbids either.
* A second `configure()`, even one that fails, rebinds the service fields under
  which the first instance's events are logged (`logging.py:76`;
  `docs/adr/0002:37-38` calls instances independent).
* `configure()` called in a request's task drops its correlation id
  (`logging.py:75`), and threads that copy no context log without the
  "process-wide" service fields (`logging.py:76`, `87-91`).
* `prepare()` raises `ValueError` for an empty string and `OverflowError` for an
  integer duration beyond the floats, where the contract has an error of its own
  (`governance.py:335`, `361`). `PreparedOrRefused` names both.
* The sink's settings accept a URL without a host, with a port out of range or with
  an empty query, which every delivery then fails on or sends elsewhere
  (`governance.py:71-84`). `AcceptedReachesAgent` names the three.
* A NaN timeout passes `value <= 0` (`settings.py:60`), and `model_copy`, which
  the class recommends, validates nothing (`settings.py:21`, `67`).
* `release.yml:7` describes its input as "e.g. v0.3.1"; the validator takes
  `refs/tags/vX.Y.Z` only (`validate_release_ref.py:137`). `REQUIRED_MODULES` of
  the artifact check does not name `adapters/governance.py`.
* `validate_architecture.py` resolves relative imports and so allows those that
  stay inside (`docs/ARCHITECTURE.md:63` has them prohibited), of which
  `ImportsAreResolved` therefore says nothing; it does not
  see the package's own re-exports (`from a2a_otel_kit import Observability` in an
  inner layer) nor dynamic imports.
* `run_demo.py` leaves the first service running when the second cannot be
  started (`run_demo.py:78`); the file of the last trace names a run whose receipt
  may not be complete yet, where `verify_trace.py:16` says "latest successful
  demo execution"; the wait for the receipt may end with an empty list of missing
  spans (`receipt_utils.py:96-118`).

## 8. What is not modelled

* The contents of attributes, log lines and bodies; rendering, levels and the
  root handler of logging.
* `quality_gate.py`, which runs independent commands one after the other,
  `validate_sdk_compatibility.py`, which compares two strings, and the boundaries
  of `validate_architecture.py`, of which the repository configures none.
* Permissions, attestation and caches of the workflows; the quality workflow.
* The privacy check of `verify_trace.py` and the parsing of the receipt; the
  operations that the demonstration's two clients only stub.
* Package initialisers, adoption examples and benchmarks: re-exports and wiring.
* Copies of settings made by pydantic's `model_copy`: pydantic's, and no code of
  the repository makes one.
* The OpenTelemetry SDK, httpx, the ASGI server, asyncio's pool, the Collector,
  PyPI and GitHub are external: modelled as this code uses them and marked so in
  the map.

Three hazards have no property, because no text says what is right, or the code
does otherwise (section 7): an application that returns without a response is
reported as completed, whereas the ASGI server answers 500 (`mcp.py:205`); the
receipt reads `event_id` from the mapping after the awaits (`governance.py:232`);
and a second `configure()` rebinds what the first instance logs under and drops
the id of the task it runs in (`logging.py:75`). Of an `aclose()` that raises
(`a2a.py:185`) the properties say that nothing is reported twice, and not which
exception the caller gets.

## 9. What could come next

1. Concurrency of `TracedOperations` with `TracePropagation`: streams whose
   carriers are written when the first item is asked for, in a task other than
   the one that called the method.
2. A crash of the application between a recorded event and its receipt, once
   the library has a way to resume a delivery; today it has none.
3. A second pair of processes in `trace_chain`, for agents that call agents.
